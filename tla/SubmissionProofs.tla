-------------------------- MODULE SubmissionProofs --------------------------
(* Theorems about Submission, for every number of callers, chunks, packet  *)
(* ids and connection attempts.                                            *)
EXTENDS SubmissionInvariant, TLAPS

USE ChunksAssumption, AttemptsAssumption, NoneAssumption

-----------------------------------------------------------------------------
(* Type correctness. *)

\* finishLocked, a confirmation and delete leave a table behind.
LEMMA TableTypes ==
    ASSUME TypeOK, NEW i
    PROVE  /\ \A kind \in Terminals : Finish(i, kind) \in [Ids -> Acceptance]
           /\ \A w \in Acceptance : Confirm(i, w) \in [Ids -> Acceptance]
           /\ Delete(i) \in [Ids -> Acceptance]
           /\ i \in Ids => /\ [pending[i] EXCEPT !.queueOK = TRUE] \in Acceptance
                           /\ [pending[i] EXCEPT !.echoOK = TRUE] \in Acceptance
<1>1. \A kind \in Terminals : Finish(i, kind) \in [Ids -> Acceptance]
  BY DEF TypeOK, Finish, Acceptance
<1>2. ASSUME NEW w \in Acceptance PROVE Confirm(i, w) \in [Ids -> Acceptance]
  <2>1. [w EXCEPT !.terminal = "accepted"] \in Acceptance
    BY DEF Acceptance, Terminals
  <2> QED BY <2>1 DEF TypeOK, Confirm
<1>3. Delete(i) \in [Ids -> Acceptance]
  <2>1. NoAcceptance \in Acceptance
    BY DEF Acceptance, NoAcceptance
  <2> QED BY <2>1 DEF TypeOK, Delete
<1>4. ASSUME NEW w \in Acceptance
      PROVE  [w EXCEPT !.queueOK = TRUE] \in Acceptance /\ [w EXCEPT !.echoOK = TRUE] \in Acceptance
  BY DEF Acceptance
<1> QED BY <1>1, <1>2, <1>3, <1>4 DEF TypeOK

\* However a step of a call ends, the call's own variables keep their types.
LEMMA CallTypes ==
    ASSUME TypeOK, NEW m \in Msgs
    PROVE  /\ Commit(m) => CallTypeOK'
           /\ Retry(m) => CallTypeOK'
           /\ \A err \in {"ctx", "failed"} : Fail(m, err) => CallTypeOK'
           /\ \A p \in {"gate", "zeroBytes", "waitAcceptance", "waitQueue", "waitRate", "waitDuty"} :
                  MoveTo(m, p) => CallTypeOK'
<1>1. Commit(m) => CallTypeOK'
  BY DEF TypeOK, CallTypeOK, Commit, GoTo, Forget, Chunks
<1>2. Retry(m) => CallTypeOK'
  BY DEF TypeOK, CallTypeOK, Retry, GoTo, Forget
<1>3. ASSUME NEW err \in {"ctx", "failed"}, Fail(m, err) PROVE CallTypeOK'
  BY <1>3 DEF TypeOK, CallTypeOK, Fail, GoTo, Forget
<1>4. ASSUME NEW p \in {"gate", "zeroBytes", "waitAcceptance", "waitQueue", "waitRate", "waitDuty"},
             MoveTo(m, p)
      PROVE  CallTypeOK'
  BY <1>4 DEF TypeOK, CallTypeOK, MoveTo, GoTo
<1> QED BY <1>1, <1>2, <1>3, <1>4

LEMMA TypeStep == TypeOK /\ [Next]_vars => TypeOK'
<1> SUFFICES ASSUME TypeOK, [Next]_vars PROVE TypeOK'
  OBVIOUS
<1> USE DEF TypeOK, CallTypeOK, GoTo, msgVars, otherVars, tableVars, linkVars, runVars
<1>1. ASSUME NEW m \in Msgs, CallSend(m) PROVE TypeOK'
  BY <1>1 DEF CallSend, MoveTo
<1>2. ASSUME NEW m \in Msgs, CancelSend(m) PROVE TypeOK'
  BY <1>2 DEF CancelSend
<1>3. ASSUME NEW m \in Msgs, LockGate(m) PROVE TypeOK'
  BY <1>3 DEF LockGate
<1>4. ASSUME NEW m \in Msgs, TakeSnapshot(m) PROVE TypeOK'
  BY <1>4 DEF TakeSnapshot
<1>5. ASSUME NEW m \in Msgs, ChannelUnavailable(m) PROVE TypeOK'
  BY <1>5 DEF ChannelUnavailable, Fail, Forget
<1>6. ASSUME NEW m \in Msgs, StopWaitingReady(m) PROVE TypeOK'
  BY <1>6 DEF StopWaitingReady, Fail, Forget
<1>7. ASSUME NEW m \in Msgs, StopPacing(m) PROVE TypeOK'
  BY <1>7 DEF StopPacing, Fail, Forget
<1>8. ASSUME NEW m \in Msgs, CannotBuild(m) PROVE TypeOK'
  BY <1>8 DEF CannotBuild, Fail, Forget
<1>9. ASSUME NEW m \in Msgs, Register(m) PROVE TypeOK'
  BY <1>9 DEF Register, NewPacketIds, Acceptance
<1>10. ASSUME NEW m \in Msgs, WriteBytes(m) PROVE TypeOK'
  BY <1>10 DEF WriteBytes, RadioStates
<1>11. ASSUME NEW m \in Msgs, SendReturns(m) PROVE TypeOK'
  BY <1>11 DEF SendReturns, MoveTo
<1>12. ASSUME NEW m \in Msgs, SendFails(m) PROVE TypeOK'
  <2>1. CallTypeOK'
    BY <1>12, CallTypes DEF SendFails, AfterSendError
  <2>2. pending' \in [Ids -> Acceptance]
    BY <1>12, TableTypes DEF SendFails
  <2>3. ended' \subseteq 0 .. MaxAttempts
    <3>1. ended' = ended \cup {snapshot[m]}
      BY <1>12 DEF SendFails
    <3>2. snapshot[m] \in 0 .. MaxAttempts
      OBVIOUS
    <3>3. ended \subseteq 0 .. MaxAttempts
      OBVIOUS
    <3> HIDE DEF TypeOK
    <3> QED BY <3>1, <3>2, <3>3
  <2> QED BY <1>12, <2>1, <2>2, <2>3 DEF SendFails
<1>13. ASSUME NEW m \in Msgs, RetryZeroBytes(m) PROVE TypeOK'
  BY <1>13 DEF RetryZeroBytes, Fail, Retry, Forget
<1>14. ASSUME NEW m \in Msgs, QuietWindowEnds(m) PROVE TypeOK'
  BY <1>14, TableTypes DEF Terminals, QuietWindowEnds
<1>15. ASSUME NEW m \in Msgs, AcceptanceExpires(m) PROVE TypeOK'
  BY <1>15, TableTypes DEF Terminals, AcceptanceExpires
<1>16. ASSUME NEW m \in Msgs, Dispatch(m) PROVE TypeOK'
  <2>1. CallTypeOK'
    BY <1>16, CallTypes DEF Dispatch
  <2>2. pending' \in [Ids -> Acceptance]
    BY <1>16, TableTypes DEF Dispatch
  <2> QED BY <1>16, <2>1, <2>2 DEF Dispatch
<1>17. ASSUME NEW m \in Msgs, QueueRecovers(m) PROVE TypeOK'
  BY <1>17 DEF QueueRecovers, Retry, Forget
<1>18. ASSUME NEW m \in Msgs, DelayEnds(m) PROVE TypeOK'
  BY <1>18 DEF DelayEnds, Retry, Forget
<1>19. ASSUME NEW m \in Msgs, StopRecovery(m) PROVE TypeOK'
  BY <1>19 DEF StopRecovery, Fail, Forget
<1>20. ASSUME NewAttempt PROVE TypeOK'
  BY <1>20 DEF NewAttempt
<1>21. ASSUME PublishReady PROVE TypeOK'
  BY <1>21 DEF PublishReady
<1>22. ASSUME Reboot PROVE TypeOK'
  BY <1>22 DEF Reboot
<1>23. ASSUME EndAttempt PROVE TypeOK'
  BY <1>23 DEF EndAttempt
<1>24. ASSUME Invalidate PROVE TypeOK'
  BY <1>24 DEF Invalidate
<1>25. ASSUME FailPending PROVE TypeOK'
  BY <1>25 DEF FailPending, IsPending, Acceptance, Terminals
<1>26. ASSUME RecordQueueLevel PROVE TypeOK'
  BY <1>26 DEF RecordQueueLevel
<1>27. ASSUME ClearRunning PROVE TypeOK'
  BY <1>27 DEF ClearRunning
<1>28. ASSUME EndRun PROVE TypeOK'
  BY <1>28 DEF EndRun
<1>29. ASSUME NEW i \in Ids, RecordQueueOK(i) PROVE TypeOK'
  <2>1. pending' \in [Ids -> Acceptance]
    BY <1>29, TableTypes DEF RecordQueueOK
  <2> QED BY <1>29, <2>1 DEF RecordQueueOK
<1>30. ASSUME NEW i \in Ids, RecordQueueRefusal(i) PROVE TypeOK'
  BY <1>30, TableTypes DEF Terminals, RecordQueueRefusal
<1>31. ASSUME NEW i \in Ids, RecordRoutingError(i) PROVE TypeOK'
  BY <1>31, TableTypes DEF Terminals, RecordRoutingError
<1>32. ASSUME NEW i \in Ids, RecordEcho(i) PROVE TypeOK'
  <2>1. pending' \in [Ids -> Acceptance]
    BY <1>32, TableTypes DEF RecordEcho
  <2> QED BY <1>32, <2>1 DEF RecordEcho
<1>33. ASSUME NEW i \in Ids, RadioTakes(i) PROVE TypeOK'
  BY <1>33 DEF RadioTakes, RadioStep, RadioStates
<1>34. ASSUME NEW i \in Ids, RadioTransmits(i) PROVE TypeOK'
  BY <1>34 DEF RadioTransmits, RadioStep, RadioStates
<1>35. ASSUME NEW i \in Ids, RadioGivesUp(i) PROVE TypeOK'
  BY <1>35 DEF RadioGivesUp, RadioStep, RadioStates
<1>36. CASE UNCHANGED vars
  BY <1>36 DEF vars
<1> QED
  BY <1>1, <1>2, <1>3, <1>4, <1>5, <1>6, <1>7, <1>8, <1>9, <1>10, <1>11, <1>12, <1>13, <1>14, <1>15, <1>16, <1>17, <1>18, <1>19, <1>20, <1>21, <1>22, <1>23, <1>24, <1>25, <1>26, <1>27, <1>28, <1>29, <1>30, <1>31, <1>32, <1>33, <1>34, <1>35, <1>36 DEF Next, SenderStep, LinkStep, FrameStep, RadioNext

LEMMA InitType == Init => TypeOK
<1> SUFFICES ASSUME Init PROVE TypeOK
  OBVIOUS
<1>1. CallTypeOK
  BY DEF Init, CallTypeOK, Chunks
<1>2. pending \in [Ids -> Acceptance]
  <2>1. NoAcceptance \in Acceptance
    BY DEF Acceptance, NoAcceptance
  <2>2. pending = [i \in Ids |-> NoAcceptance]
    BY DEF Init
  <2> QED BY <2>1, <2>2
<1>3. attempt \in 0 .. MaxAttempts /\ ended \subseteq 0 .. MaxAttempts
  BY DEF Init
<1>4. owner \in [Ids -> [msg : Msgs, chunk : Chunks] \cup {None}]
  BY DEF Init
<1>5. radio \in [Ids -> RadioStates]
  BY DEF Init, RadioStates
<1> QED BY <1>1, <1>2, <1>3, <1>4, <1>5 DEF Init, TypeOK

\* All variables keep their types in every behaviour.
THEOREM TypeCorrect == Spec => []TypeOK
  BY InitType, TypeStep, PTL DEF Spec

-----------------------------------------------------------------------------
(* The steps of a call, by what they do to its variables. *)

EndsStep(m) ==
    \/ Commit(m)
    \/ Retry(m)
    \/ \E err \in {"ctx", "failed"} : Fail(m, err)
    \/ \E p \in Inside \ {"waitPacing"} : MoveTo(m, p)

\* A step of a call that holds the gate commits, retries, fails or moves on;
\* only LockGate, TakeSnapshot and Register do something else.
LEMMA SenderShapes ==
    ASSUME NEW m \in Msgs, SenderStep(m)
    PROVE  \/ LockGate(m) \/ TakeSnapshot(m) \/ Register(m)
           \/ UNCHANGED msgVars
           \/ pc[m] \in Inside /\ EndsStep(m)
<1> USE DEF EndsStep, Inside
<1>1. CASE ChannelUnavailable(m) \/ StopWaitingReady(m) \/ StopPacing(m) \/ CannotBuild(m)
  BY <1>1 DEF ChannelUnavailable, StopWaitingReady, StopPacing, CannotBuild
<1>2. CASE WriteBytes(m) \/ QuietWindowEnds(m) \/ AcceptanceExpires(m)
  BY <1>2 DEF WriteBytes, QuietWindowEnds, AcceptanceExpires
<1>3. CASE SendReturns(m) \/ RetryZeroBytes(m)
  BY <1>3 DEF SendReturns, RetryZeroBytes
<1>4. CASE SendFails(m)
  BY <1>4 DEF SendFails, AfterSendError
<1>5. CASE Dispatch(m)
  BY <1>5 DEF Dispatch
<1>6. CASE QueueRecovers(m) \/ DelayEnds(m) \/ StopRecovery(m)
  BY <1>6 DEF QueueRecovers, DelayEnds, StopRecovery
<1> QED BY <1>1, <1>2, <1>3, <1>4, <1>5, <1>6 DEF SenderStep

\* Only CallSend and the steps of a call change its variables.
LEMMA CallFrame ==
    ASSUME [Next]_vars
    PROVE  \/ UNCHANGED msgVars
           \/ \E m \in Msgs : CallSend(m) \/ SenderStep(m)
  BY DEF Next, vars, CancelSend, LinkStep, FrameStep, RadioNext, NewAttempt,
         PublishReady, Reboot, EndAttempt, Invalidate, FailPending, RecordQueueLevel,
         RecordQueueOK, RecordQueueRefusal, RecordRoutingError, RecordEcho,
         ClearRunning, EndRun, RadioTakes, RadioTransmits, RadioGivesUp, RadioStep

LEMMA GateStep == TypeOK /\ GateInv /\ [Next]_vars => GateInv'
<1> SUFFICES ASSUME TypeOK, GateInv, [Next]_vars PROVE GateInv'
  OBVIOUS
<1> USE DEF TypeOK, CallTypeOK, GateInv, Inside
<1>1. CASE UNCHANGED msgVars
  BY <1>1 DEF msgVars
<1>2. ASSUME NEW m \in Msgs, CallSend(m) PROVE GateInv'
  BY <1>2 DEF CallSend, MoveTo, GoTo
<1>3. ASSUME NEW m \in Msgs, SenderStep(m) PROVE GateInv'
  <2>1. CASE LockGate(m)
    BY <2>1 DEF LockGate, GoTo
  <2>2. CASE TakeSnapshot(m)
    BY <2>2 DEF TakeSnapshot, GoTo
  <2>3. CASE Register(m)
    BY <2>3 DEF Register, GoTo
  <2>4. CASE pc[m] \in Inside /\ EndsStep(m)
    BY <2>4 DEF EndsStep, Commit, Retry, Fail, MoveTo, GoTo, Forget
  <2> QED BY <1>1, <1>3, <2>1, <2>2, <2>3, <2>4, SenderShapes
<1> QED BY <1>1, <1>2, <1>3, CallFrame

-----------------------------------------------------------------------------
(* The table and the radio. *)

\* Only these steps change the table.
TableChange ==
    \/ FailPending
    \/ \E i \in Ids : \/ RecordQueueOK(i) \/ RecordQueueRefusal(i)
                      \/ RecordRoutingError(i) \/ RecordEcho(i)
    \/ \E m \in Msgs : \/ Register(m) \/ SendFails(m) \/ Dispatch(m)
                       \/ QuietWindowEnds(m) \/ AcceptanceExpires(m)

LEMMA TableFrame == [Next]_vars => UNCHANGED <<pending, owner>> \/ TableChange
  BY DEF Next, vars, otherVars, tableVars, TableChange, CallSend, CancelSend, SenderStep,
         LockGate, TakeSnapshot, ChannelUnavailable, StopWaitingReady, StopPacing,
         CannotBuild, WriteBytes, SendReturns, RetryZeroBytes, QueueRecovers,
         DelayEnds, StopRecovery, LinkStep, FrameStep, RadioNext, NewAttempt,
         PublishReady, Reboot, EndAttempt, Invalidate, RecordQueueLevel,
         ClearRunning, EndRun, RadioTakes, RadioTransmits, RadioGivesUp, RadioStep

\* Only these steps change what has become of a packet.
RadioChange ==
    \/ \E m \in Msgs : WriteBytes(m)
    \/ \E i \in Ids : RadioTakes(i) \/ RadioTransmits(i) \/ RadioGivesUp(i)

LEMMA RadioFrame == [Next]_vars => UNCHANGED radio \/ RadioChange
  BY DEF Next, vars, otherVars, tableVars, RadioChange, CallSend, CancelSend, SenderStep,
         LockGate, TakeSnapshot, ChannelUnavailable, StopWaitingReady, StopPacing,
         CannotBuild, Register, SendReturns, SendFails, Dispatch, QuietWindowEnds,
         AcceptanceExpires, RetryZeroBytes, QueueRecovers,
         DelayEnds, StopRecovery, LinkStep, FrameStep, RadioNext, NewAttempt,
         PublishReady, Reboot, EndAttempt, Invalidate, FailPending, RecordQueueLevel,
         RecordQueueOK, RecordQueueRefusal, RecordRoutingError, RecordEcho,
         ClearRunning, EndRun

\* A packet moves from the wire to a verdict and never back.
LEMMA RadioMoves ==
    ASSUME TypeOK, TableInv, [Next]_vars, NEW i \in Ids
    PROVE  /\ radio[i] \in Queued => radio'[i] \in Queued
           /\ radio[i] \in {"full", "error", "rate", "duty", "dropped"} => radio'[i] = radio[i]
           /\ radio[i] = "none" /\ radio'[i] # "none" =>
                \E m \in Msgs : WriteBytes(m) /\ packet[m] = i /\ owner[i] # None
           /\ radio'[i] \in Dead \/ radio[i] \notin Dead \/
                \E m \in Msgs : WriteBytes(m) /\ packet[m] = i /\ owner[i] # None
<1> USE DEF TypeOK, Queued, Dead, RadioStates
<1>1. CASE UNCHANGED radio
  BY <1>1
<1>2. ASSUME NEW m \in Msgs, WriteBytes(m) PROVE radio' = [radio EXCEPT ![packet[m]] = "wire"]
                                               /\ radio[packet[m]] = "none"
                                               /\ packet[m] \in Ids /\ owner[packet[m]] # None
  <2>1. packet[m] \in Ids /\ owner[packet[m]] = [msg |-> m, chunk |-> chunk[m]]
    BY <1>2 DEF WriteBytes, TableInv
  <2>2. [msg |-> m, chunk |-> chunk[m]] \in [msg : Msgs, chunk : Chunks]
    BY DEF CallTypeOK
  <2> QED BY <1>2, <2>1, <2>2, NoneAssumption DEF WriteBytes
<1>3. ASSUME NEW j \in Ids, RadioTakes(j) \/ RadioTransmits(j) \/ RadioGivesUp(j)
      PROVE  \/ radio[j] = "wire" /\ \E state \in {"full", "error", "held"} :
                    radio' = [radio EXCEPT ![j] = state]
             \/ radio[j] = "held" /\ \E state \in {"sent", "rate", "duty", "dropped"} :
                    radio' = [radio EXCEPT ![j] = state]
  BY <1>3 DEF RadioTakes, RadioTransmits, RadioGivesUp, RadioStep
<1> QED BY <1>1, <1>2, <1>3, RadioFrame DEF RadioChange

\* Steps that only write in entries of the table.
Mark ==
    \/ FailPending
    \/ \E i \in Ids : \/ RecordQueueOK(i) \/ RecordQueueRefusal(i)
                      \/ RecordRoutingError(i) \/ RecordEcho(i)
    \/ \E m \in Msgs : QuietWindowEnds(m) \/ AcceptanceExpires(m)

\* They make and remove no entry, and write no entry that is decided.
LEMMA MarkKeepsEntries ==
    ASSUME TypeOK, Mark
    PROVE  /\ UNCHANGED <<msgVars, owner>>
           /\ \A i \in Ids : pending[i].terminal # "pending" =>
                    pending'[i].terminal = pending[i].terminal
           /\ \A i \in Ids : pending[i].terminal = "none" => pending'[i] = pending[i]
           /\ \A i \in Ids : pending'[i].terminal = "none" => pending[i].terminal = "none"
           /\ \A i \in Ids : pending'[i].attempt = pending[i].attempt
<1> USE DEF TypeOK, IsPending
<1> DEFINE Kept ==
           /\ \A i \in Ids : pending[i].terminal # "pending" =>
                    pending'[i].terminal = pending[i].terminal
           /\ \A i \in Ids : pending[i].terminal = "none" => pending'[i] = pending[i]
           /\ \A i \in Ids : pending'[i].terminal = "none" => pending[i].terminal = "none"
           /\ \A i \in Ids : pending'[i].attempt = pending[i].attempt
<1>1. UNCHANGED <<msgVars, owner>>
  BY DEF Mark, FailPending, RecordQueueOK, RecordQueueRefusal, RecordRoutingError,
         RecordEcho, QuietWindowEnds, AcceptanceExpires
<1>2. ASSUME NEW i, NEW kind \in Terminals, pending' = Finish(i, kind) PROVE Kept
  BY <1>2 DEF Finish, Acceptance, Terminals
<1>3. ASSUME FailPending PROVE Kept
  BY <1>3 DEF FailPending, Acceptance
<1>4. ASSUME NEW i \in Ids, RecordQueueOK(i) \/ RecordEcho(i) PROVE Kept
  <2>1. ASSUME NEW w \in Acceptance, w.terminal = "pending", w.attempt = pending[i].attempt,
               pending[i].terminal = "pending", pending' = Confirm(i, w)
        PROVE  Kept
    <3>1. [w EXCEPT !.terminal = "accepted"].attempt = w.attempt
      BY DEF Acceptance
    <3>2. [w EXCEPT !.terminal = "accepted"].terminal = "accepted"
      BY DEF Acceptance
    <3> QED BY <2>1, <3>1, <3>2 DEF Confirm
  <2>2. pending' # pending =>
            /\ pending[i].terminal = "pending"
            /\ \/ pending' = Confirm(i, [pending[i] EXCEPT !.queueOK = TRUE])
               \/ pending' = Confirm(i, [pending[i] EXCEPT !.echoOK = TRUE])
    BY <1>4 DEF RecordQueueOK, RecordEcho
  <2>3. ASSUME NEW v \in Acceptance
        PROVE  /\ [v EXCEPT !.queueOK = TRUE].attempt = v.attempt
               /\ [v EXCEPT !.echoOK = TRUE].attempt = v.attempt
               /\ [v EXCEPT !.queueOK = TRUE].terminal = v.terminal
               /\ [v EXCEPT !.echoOK = TRUE].terminal = v.terminal
    BY DEF Acceptance
  <2> QED BY <2>1, <2>2, <2>3, TableTypes
<1>5. ASSUME NEW i \in Ids, RecordQueueRefusal(i) \/ RecordRoutingError(i) PROVE Kept
  BY <1>5, <1>2 DEF RecordQueueRefusal, RecordRoutingError, Terminals
<1>6. ASSUME NEW m \in Msgs, QuietWindowEnds(m) \/ AcceptanceExpires(m) PROVE Kept
  BY <1>6, <1>2 DEF QuietWindowEnds, AcceptanceExpires, Terminals
<1> QED BY <1>1, <1>3, <1>4, <1>5, <1>6 DEF Mark

\* Steps of a call that leave the table alone and are not waiting in it.
Elsewhere(m) ==
    /\ UNCHANGED <<pending, owner>>
    /\ pc[m] \notin {"send", "waitAcceptance"} /\ pc'[m] \notin {"send", "waitAcceptance"}
    /\ \A n \in Msgs \ {m} : /\ pc'[n] = pc[n] /\ packet'[n] = packet[n]
                             /\ chunk'[n] = chunk[n]

LEMMA SenderCases ==
    ASSUME TypeOK, NEW m \in Msgs, SenderStep(m)
    PROVE  \/ Elsewhere(m) \/ Register(m) \/ SendFails(m) \/ Dispatch(m)
           \/ SendReturns(m) \/ WriteBytes(m) \/ Mark
<1> USE DEF TypeOK, CallTypeOK, Elsewhere, otherVars, tableVars, GoTo, MoveTo, Fail, Retry, Forget
<1>1. CASE LockGate(m)
  BY <1>1 DEF LockGate
<1>2. CASE TakeSnapshot(m)
  BY <1>2 DEF TakeSnapshot
<1>3. CASE ChannelUnavailable(m) \/ StopWaitingReady(m) \/ StopPacing(m) \/ CannotBuild(m)
  BY <1>3 DEF ChannelUnavailable, StopWaitingReady, StopPacing, CannotBuild
<1>4. CASE RetryZeroBytes(m)
  BY <1>4 DEF RetryZeroBytes
<1>5. CASE QueueRecovers(m) \/ DelayEnds(m) \/ StopRecovery(m)
  BY <1>5 DEF QueueRecovers, DelayEnds, StopRecovery
<1> QED BY <1>1, <1>2, <1>3, <1>4, <1>5 DEF SenderStep, Mark

LEMMA OtherCases ==
    [Next]_vars => \/ \E m \in Msgs : CallSend(m) \/ SenderStep(m)
                   \/ Mark
                   \/ UNCHANGED <<msgVars, pending, owner>>
  BY DEF Next, vars, otherVars, tableVars, Mark, CancelSend, LinkStep, FrameStep, RadioNext,
         NewAttempt, PublishReady, Reboot, EndAttempt, Invalidate, RecordQueueLevel,
         ClearRunning, EndRun, RadioTakes, RadioTransmits, RadioGivesUp, RadioStep

LEMMA TableStep == TypeOK /\ GateInv /\ TableInv /\ [Next]_vars => TableInv'
<1> SUFFICES ASSUME TypeOK, GateInv, TableInv, [Next]_vars PROVE TableInv'
  OBVIOUS
<1> USE DEF TypeOK, CallTypeOK, TableInv, Waits
<1>1. CASE UNCHANGED <<msgVars, pending, owner>>
  BY <1>1 DEF msgVars
<1>2. CASE Mark
  BY <1>2, MarkKeepsEntries DEF msgVars
<1>3. ASSUME NEW m \in Msgs, CallSend(m) PROVE TableInv'
  BY <1>3 DEF CallSend, MoveTo, GoTo, otherVars, tableVars
<1>4. ASSUME NEW m \in Msgs, Elsewhere(m) PROVE TableInv'
  BY <1>4 DEF Elsewhere
<1>5. ASSUME NEW m \in Msgs, Register(m) PROVE TableInv'
  <2>1. PICK i \in NewPacketIds :
            /\ packet' = [packet EXCEPT ![m] = i]
            /\ owner' = [owner EXCEPT ![i] = [msg |-> m, chunk |-> chunk[m]]]
            /\ pending' = [pending EXCEPT ![i] =
                    [attempt |-> snapshot[m], queueOK |-> FALSE,
                     echoOK |-> FALSE, terminal |-> "pending"]]
    BY <1>5 DEF Register
  <2>2. pc[m] = "waitPacing" /\ pc' = [pc EXCEPT ![m] = "send"] /\ chunk' = chunk
    BY <1>5 DEF Register, GoTo
  <2>3. \A n \in Msgs \ {m} : pc[n] \notin {"send", "waitAcceptance"}
    BY <2>2 DEF GateInv, Inside
  <2> QED BY <2>1, <2>2, <2>3 DEF NewPacketIds
<1>6. ASSUME NEW m \in Msgs, SendFails(m) \/ Dispatch(m) PROVE TableInv'
  <2>1. pc[m] \in {"send", "waitAcceptance"} /\ pc'[m] \notin {"send", "waitAcceptance"}
    BY <1>6 DEF SendFails, AfterSendError, Dispatch, Commit, Fail, MoveTo, GoTo
  <2>2. pending' = [pending EXCEPT ![packet[m]] = NoAcceptance] /\ owner' = owner
    BY <1>6 DEF SendFails, Dispatch, Delete
  <2>3. \A n \in Msgs \ {m} : pc[n] \notin {"send", "waitAcceptance"} /\ pc'[n] = pc[n]
    <3>1. \A n \in Msgs \ {m} : pc[n] \notin {"send", "waitAcceptance"}
      BY <2>1 DEF GateInv, Inside
    <3>2. \A n \in Msgs \ {m} : pc'[n] = pc[n]
      BY <1>6 DEF SendFails, AfterSendError, Dispatch, Commit, Fail, MoveTo, GoTo
    <3> QED BY <3>1, <3>2
  <2>4. \A n \in Msgs : pc'[n] \notin {"send", "waitAcceptance"}
    BY <2>1, <2>3
  <2>5. \A i \in Ids : pending'[i] = NoAcceptance
    BY <2>1, <2>2, <2>3
  <2> QED BY <2>4, <2>5 DEF NoAcceptance
<1>7. ASSUME NEW m \in Msgs, SendReturns(m) PROVE TableInv'
  BY <1>7 DEF SendReturns, MoveTo, GoTo, otherVars, tableVars
<1>8. ASSUME NEW m \in Msgs, WriteBytes(m) PROVE TableInv'
  BY <1>8 DEF WriteBytes, msgVars, tableVars
<1> QED BY <1>1, <1>2, <1>3, <1>4, <1>5, <1>6, <1>7, <1>8, OtherCases, SenderCases

LEMMA VerdictStep == TypeOK /\ TableInv /\ VerdictInv /\ [Next]_vars => VerdictInv'
<1> SUFFICES ASSUME TypeOK, TableInv, VerdictInv, [Next]_vars PROVE VerdictInv'
  OBVIOUS
<1> USE DEF TypeOK
\* One entry at a time: its packet, and what the entry says of it.
<1> DEFINE Says(w, state) ==
        /\ w.queueOK => state \in Queued
        /\ w.terminal = "accepted" => state \in Queued
        /\ w.terminal = "queueFull" => state = "full"
        /\ w.terminal \in {"rate", "duty"} => state = w.terminal
<1>1. \A i \in Ids : \A w \in Acceptance : Says(w, radio[i]) => Says(w, radio'[i])
  BY RadioMoves DEF Queued
<1>2. ASSUME NEW i \in Ids PROVE owner'[i] = None => radio'[i] = "none"
  <2>1. owner'[i] = None => owner[i] = None
    <3>1. CASE UNCHANGED owner
      BY <3>1
    <3>2. ASSUME NEW m \in Msgs, Register(m) PROVE owner'[i] = None => owner[i] = None
      BY <3>2 DEF Register, CallTypeOK
    <3> QED BY <3>1, <3>2, TableFrame DEF TableChange, FailPending, RecordQueueOK,
               RecordQueueRefusal, RecordRoutingError, RecordEcho, SendFails, Dispatch,
               QuietWindowEnds, AcceptanceExpires
  <2>2. owner[i] = None => radio[i] = "none"
    BY DEF VerdictInv
  <2> QED BY <2>1, <2>2, RadioMoves
<1>3. ASSUME NEW i \in Ids
      PROVE  Says(pending'[i], radio[i])
  <2> USE DEF VerdictInv
  <2>1. CASE UNCHANGED pending
    BY <2>1
  <2>2. CASE FailPending
    BY <2>2 DEF FailPending, Acceptance
  <2>3. ASSUME NEW j \in Ids, RecordQueueOK(j) \/ RecordEcho(j)
        PROVE  Says(pending'[i], radio[i])
    <3>1. ASSUME NEW v \in Acceptance
          PROVE  /\ [v EXCEPT !.queueOK = TRUE].queueOK
                 /\ [v EXCEPT !.queueOK = TRUE].terminal = v.terminal
                 /\ [v EXCEPT !.echoOK = TRUE].queueOK = v.queueOK
                 /\ [v EXCEPT !.echoOK = TRUE].terminal = v.terminal
                 /\ [v EXCEPT !.terminal = "accepted"].queueOK = v.queueOK
                 /\ [v EXCEPT !.terminal = "accepted"].terminal = "accepted"
      BY DEF Acceptance
    <3>2. radio[j] \in Queued
      BY <2>3 DEF RecordQueueOK, RecordEcho, Queued
    <3>3. ASSUME NEW w \in Acceptance, w.terminal = "pending", pending' = Confirm(j, w)
          PROVE  Says(pending'[i], radio[i])
      BY <3>1, <3>2, <3>3 DEF Confirm
    <3>4. pending' # pending =>
            /\ pending[j].terminal = "pending"
            /\ \/ pending' = Confirm(j, [pending[j] EXCEPT !.queueOK = TRUE])
               \/ pending' = Confirm(j, [pending[j] EXCEPT !.echoOK = TRUE])
      BY <2>3 DEF RecordQueueOK, RecordEcho, IsPending
    <3> QED BY <3>1, <3>3, <3>4, TableTypes
  <2>4. ASSUME NEW j, NEW kind \in Terminals, pending' = Finish(j, kind),
               kind = "accepted" => pending[j].queueOK,
               kind = "queueFull" => radio[j] = "full",
               kind \in {"rate", "duty"} => radio[j] = kind
        PROVE  Says(pending'[i], radio[i])
    BY <2>4 DEF Finish, IsPending, Acceptance
  <2>5. ASSUME NEW j \in Ids, RecordQueueRefusal(j) \/ RecordRoutingError(j)
        PROVE  Says(pending'[i], radio[i])
    BY <2>5, <2>4 DEF RecordQueueRefusal, RecordRoutingError, Terminals
  <2>6. ASSUME NEW m \in Msgs, QuietWindowEnds(m) \/ AcceptanceExpires(m)
        PROVE  Says(pending'[i], radio[i])
    BY <2>6, <2>4 DEF QuietWindowEnds, AcceptanceExpires, Terminals
  <2>7. ASSUME NEW m \in Msgs, SendFails(m) \/ Dispatch(m)
        PROVE  Says(pending'[i], radio[i])
    BY <2>7 DEF SendFails, Dispatch, Delete, NoAcceptance
  <2>8. ASSUME NEW m \in Msgs, Register(m)
        PROVE  Says(pending'[i], radio[i])
    BY <2>8 DEF Register
  <2> QED BY <2>1, <2>2, <2>3, <2>5, <2>6, <2>7, <2>8, TableFrame DEF TableChange
<1>4. \A i \in Ids : pending'[i] \in Acceptance
  BY TypeStep
<1> QED BY <1>1, <1>2, <1>3, <1>4 DEF VerdictInv

-----------------------------------------------------------------------------
(* Which packets can still reach the air. *)

\* A packet that a call lets go without a commit or a plain failure is dead.
LEMMA ReleasedIsDead ==
    ASSUME TypeOK, TableInv, VerdictInv, NEW m \in Msgs, SendFails(m) \/ Dispatch(m)
    PROVE  \/ Commit(m) /\ radio[packet[m]] \in Queued
           \/ Fail(m, "failed")
           \/ /\ radio[packet[m]] \in Dead
              /\ Fail(m, "ctx") \/ \E p \in Inside \ {"waitPacing", "send", "waitAcceptance"} : MoveTo(m, p)
<1> USE DEF Dead, Inside
<1>1. packet[m] \in Ids
  BY DEF TableInv, SendFails, Dispatch
<1>2. CASE SendFails(m)
  BY <1>1, <1>2 DEF SendFails, AfterSendError, Finish, IsPending, VerdictInv, TypeOK, Acceptance
<1>3. CASE Dispatch(m)
  BY <1>1, <1>3 DEF Dispatch, VerdictInv
<1> QED BY <1>2, <1>3

\* The packets of a chunk change only when one is registered.
LEMMA OwnerFrame ==
    ASSUME TypeOK, TableInv, [Next]_vars, NEW i \in Ids
    PROVE  owner'[i] = owner[i] \/ \E m \in Msgs : /\ Register(m) /\ packet'[m] = i
                                                   /\ owner[i] = None
                                                   /\ owner'[i] = [msg |-> m, chunk |-> chunk[m]]
<1>1. CASE UNCHANGED owner
  BY <1>1
<1>2. ASSUME NEW m \in Msgs, Register(m)
      PROVE  owner'[i] = owner[i] \/ /\ packet'[m] = i /\ owner[i] = None
                                     /\ owner'[i] = [msg |-> m, chunk |-> chunk[m]]
  BY <1>2 DEF Register, NewPacketIds, TypeOK, CallTypeOK
<1> QED BY <1>1, <1>2, TableFrame DEF TableChange, FailPending, RecordQueueOK,
       RecordQueueRefusal, RecordRoutingError, RecordEcho, SendFails, Dispatch,
       QuietWindowEnds, AcceptanceExpires

LEMMA SpentStep ==
    TypeOK /\ GateInv /\ TableInv /\ VerdictInv /\ SpentInv /\ [Next]_vars => SpentInv'
<1> DEFINE Spent(m, k, i) ==
        /\ k <= chunk[m]
        /\ pc[m] \notin {"idle", "gate"} /\ result[m] # "notRunning"
        /\ k = chunk[m] /\ result[m] \in {"none", "ctx"} /\ ~Waits(m, i)
           => radio[i] \in Dead
<1> SUFFICES ASSUME TypeOK, GateInv, TableInv, VerdictInv, SpentInv, [Next]_vars,
                    NEW m \in Msgs, NEW k \in Chunks, NEW i \in Ids,
                    owner'[i] = [msg |-> m, chunk |-> k]
             PROVE  Spent(m, k, i)'
  BY DEF SpentInv, PacketsOf
<1>1. owner[i] = [msg |-> m, chunk |-> k] => Spent(m, k, i)
  BY DEF SpentInv, PacketsOf
<1> USE DEF TypeOK, CallTypeOK, Waits
\* A dead packet comes alive only when the call that waits for it writes it.
<1>2. radio[i] \in Dead => \/ radio'[i] \in Dead
                           \/ UNCHANGED msgVars /\ Waits(m, i)
  <2>1. ASSUME NEW n \in Msgs, WriteBytes(n), packet[n] = i
        PROVE  UNCHANGED msgVars /\ Waits(m, i)
    <3>1. pc[n] = "send" /\ UNCHANGED <<msgVars, owner>>
      BY <2>1 DEF WriteBytes
    <3>2. owner[i] = [msg |-> n, chunk |-> chunk[n]]
      BY <2>1, <3>1 DEF TableInv
    <3> QED BY <2>1, <3>1, <3>2
  <2> QED BY <2>1, RadioMoves
<1>3. CASE UNCHANGED <<msgVars, owner>>
  BY <1>1, <1>2, <1>3 DEF msgVars
<1>4. ASSUME NEW n \in Msgs, CallSend(n) PROVE Spent(m, k, i)'
  BY <1>1, <1>4 DEF CallSend, MoveTo, GoTo, otherVars
<1>5. ASSUME NEW n \in Msgs, SenderStep(n), Elsewhere(n) PROVE Spent(m, k, i)'
  <2>1. CASE LockGate(n)
    BY <1>1, <2>1 DEF LockGate, GoTo, otherVars
  <2>2. CASE TakeSnapshot(n)
    BY <1>1, <2>2 DEF TakeSnapshot, GoTo, otherVars
  <2>3. CASE UNCHANGED msgVars
    BY <1>3, <1>5, <2>3 DEF Elsewhere
  <2>4. CASE ~(UNCHANGED msgVars) /\ pc[n] \in Inside /\ EndsStep(n)
    <3>1. owner' = owner /\ pc[n] \notin {"send", "waitAcceptance"}
      BY <1>5 DEF Elsewhere
    <3>2. result[n] = "none"
      BY <2>4 DEF GateInv, Inside
    <3>3. radio[i] \in Dead => radio'[i] \in Dead
      BY <1>2, <2>4
    <3>4. CASE n # m
      BY <1>1, <2>4, <3>1, <3>3, <3>4 DEF EndsStep, Commit, Retry, Fail, MoveTo, GoTo, Forget
    <3>5. CASE n = m
      <4>1. k <= chunk[m] /\ (k = chunk[m] => radio[i] \in Dead)
        BY <1>1, <3>1, <3>2, <3>5
      <4>2. pc'[m] \notin {"idle", "gate"} /\ result'[m] # "notRunning" /\ chunk'[m] \in {chunk[m], chunk[m] + 1}
        BY <2>4, <3>2, <3>5 DEF EndsStep, Commit, Retry, Fail, MoveTo, GoTo, Inside, Chunks
      <4>3. k \in Nat /\ chunk[m] \in Nat
        BY DEF Chunks
      <4> QED BY <3>3, <4>1, <4>2, <4>3
    <3> QED BY <3>4, <3>5
  <2>5. ~Register(n)
    BY <1>5 DEF Elsewhere, Register, GoTo
  <2> QED BY <1>5, <2>1, <2>2, <2>3, <2>4, <2>5, SenderShapes
<1>6. ASSUME NEW n \in Msgs, Register(n) PROVE Spent(m, k, i)'
  <2>1. pc' = [pc EXCEPT ![n] = "send"] /\ radio' = radio /\ chunk' = chunk /\ result' = result
    BY <1>6 DEF Register, GoTo
  <2>2. pc[n] = "waitPacing" /\ result[n] = "none"
    BY <1>6 DEF Register, GateInv
  <2>3. \A j \in Msgs \ {n} : packet'[j] = packet[j]
    BY <1>6 DEF Register
  <2>4. CASE owner'[i] = owner[i]
    BY <1>1, <2>1, <2>2, <2>3, <2>4
  <2>5. ASSUME NEW j \in Msgs, Register(j), packet'[j] = i, owner[i] = None,
               owner'[i] = [msg |-> j, chunk |-> chunk[j]]
        PROVE  Spent(m, k, i)'
    <3>1. j = m /\ k = chunk[m]
      BY <2>5
    <3>2. pc[m] = "waitPacing" /\ pc'[m] = "send" /\ chunk' = chunk /\ result' = result
      BY <2>5, <3>1 DEF Register, GoTo
    <3>3. result[m] = "none"
      BY <3>2 DEF GateInv
    <3> QED BY <2>5, <3>1, <3>2, <3>3 DEF Chunks
  <2> QED BY <2>4, <2>5, OwnerFrame
<1>7. ASSUME NEW n \in Msgs, SendFails(n) \/ Dispatch(n) PROVE Spent(m, k, i)'
  <2>1. owner' = owner /\ radio' = radio
    BY <1>7 DEF SendFails, Dispatch
  <2>2. pc[n] \in {"send", "waitAcceptance"}
    BY <1>7 DEF SendFails, Dispatch
  <2>3. result[n] = "none"
    BY <2>2 DEF GateInv
  <2>4. CASE n # m
    BY <1>1, <1>7, <2>1, <2>4, ReleasedIsDead DEF Commit, Fail, MoveTo, GoTo, Forget
  <2>5. CASE n = m
    <3>1. k <= chunk[m] /\ (k = chunk[m] /\ i # packet[m] => radio[i] \in Dead)
      BY <1>1, <2>1, <2>3, <2>5
    <3>2. CASE Commit(m) \/ Fail(m, "failed")
      BY <2>3, <2>5, <3>1, <3>2 DEF Commit, Fail, GoTo, Chunks
    <3>3. CASE radio[packet[m]] \in Dead /\ (Fail(m, "ctx") \/
                    \E p \in Inside \ {"waitPacing", "send", "waitAcceptance"} : MoveTo(m, p))
      <4>1. k = chunk[m] => radio'[i] \in Dead
        BY <2>1, <3>1, <3>3
      <4>2. chunk' = chunk /\ pc'[m] \notin {"idle", "gate"} /\ result'[m] # "notRunning"
        BY <2>3, <2>5, <3>3 DEF Fail, MoveTo, GoTo, Inside
      <4> QED BY <3>1, <4>1, <4>2
    <3> QED BY <1>7, <2>5, <3>2, <3>3, ReleasedIsDead
  <2> QED BY <2>4, <2>5
<1>8. ASSUME NEW n \in Msgs, SendReturns(n) PROVE Spent(m, k, i)'
  BY <1>1, <1>8 DEF SendReturns, MoveTo, GoTo, otherVars
<1>9. ASSUME NEW n \in Msgs, WriteBytes(n) PROVE Spent(m, k, i)'
  BY <1>3, <1>9 DEF WriteBytes
<1> QED BY <1>3, <1>4, <1>5, <1>6, <1>7, <1>8, <1>9, OtherCases, SenderCases, MarkKeepsEntries

LEMMA AliveStep ==
    TypeOK /\ GateInv /\ TableInv /\ VerdictInv /\ SpentInv /\ OneAlive /\ [Next]_vars
        => OneAlive'
<1> SUFFICES ASSUME TypeOK, GateInv, TableInv, VerdictInv, SpentInv, OneAlive, [Next]_vars,
                    NEW m \in Msgs, NEW k \in Chunks, NEW i \in Ids, NEW j \in Ids, i # j,
                    owner'[i] = [msg |-> m, chunk |-> k], owner'[j] = [msg |-> m, chunk |-> k]
             PROVE  radio'[i] \in Dead \/ radio'[j] \in Dead
  BY DEF OneAlive, PacketsOf
<1> USE DEF TypeOK, CallTypeOK
<1>1. CASE \E n \in Msgs : Register(n)
  <2>1. radio' = radio /\ \A l \in Ids : owner[l] = None => radio[l] = "none"
    BY <1>1 DEF Register, VerdictInv
  <2>2. CASE owner'[i] = owner[i] /\ owner'[j] = owner[j]
    BY <2>1, <2>2 DEF OneAlive, PacketsOf
  <2> QED BY <2>1, <2>2, OwnerFrame DEF Dead
<1>2. CASE ~ \E n \in Msgs : Register(n)
  <2>1. owner'[i] = owner[i] /\ owner'[j] = owner[j]
    BY <1>2, OwnerFrame
  <2>2. radio[i] \in Dead \/ radio[j] \in Dead
    BY <2>1 DEF OneAlive, PacketsOf
  <2>3. CASE \E n \in Msgs : WriteBytes(n)
    <3>1. PICK n \in Msgs : WriteBytes(n)
      BY <2>3
    <3>2. pc[n] = "send" /\ radio' = [radio EXCEPT ![packet[n]] = "wire"] /\ radio[packet[n]] = "none"
      BY <3>1 DEF WriteBytes
    <3>3. owner[packet[n]] = [msg |-> n, chunk |-> chunk[n]] /\ result[n] = "none"
      BY <3>2 DEF TableInv, GateInv
    <3>4. ASSUME NEW l \in PacketsOf(n, chunk[n]), l # packet[n] PROVE radio[l] \in Dead
      BY <3>3, <3>4 DEF SpentInv, Waits
    <3> QED BY <2>1, <2>2, <3>2, <3>3, <3>4 DEF PacketsOf
  <2>4. CASE ~ \E n \in Msgs : WriteBytes(n)
    BY <2>2, <2>4, RadioMoves
  <2> QED BY <2>3, <2>4
<1> QED BY <1>1, <1>2

\* A chunk is over, or Send successful, only by a commit after SendToRadio
\* failed or waitAcceptance returned.
LEMMA CommitCases ==
    ASSUME TypeOK, NEW n \in Msgs, SenderStep(n), NEW m \in Msgs,
           chunk'[m] # chunk[m] \/ (result'[m] = "ok" /\ result[m] # "ok")
    PROVE  n = m /\ Commit(m) /\ (SendFails(m) \/ Dispatch(m))
<1> USE DEF TypeOK, CallTypeOK
<1>1. CASE SendFails(n) \/ Dispatch(n)
  <2>1. Commit(n) \/ \E err \in {"ctx", "failed"} : Fail(n, err)
                  \/ \E p \in Inside : MoveTo(n, p)
    BY <1>1 DEF SendFails, AfterSendError, Dispatch, Inside
  <2>2. Commit(n) /\ n = m
    BY <2>1 DEF Commit, Fail, MoveTo, Forget
  <2> QED BY <1>1, <2>2
<1>2. CASE \/ ChannelUnavailable(n) \/ StopWaitingReady(n) \/ StopPacing(n) \/ CannotBuild(n)
           \/ RetryZeroBytes(n) \/ StopRecovery(n)
  <2>1. (\E err \in {"ctx", "failed"} : Fail(n, err)) \/ Retry(n)
    BY <1>2 DEF ChannelUnavailable, StopWaitingReady, StopPacing, CannotBuild, RetryZeroBytes,
                StopRecovery
  <2> QED BY <2>1 DEF Fail, Retry
<1>3. CASE QueueRecovers(n) \/ DelayEnds(n) \/ SendReturns(n)
  BY <1>3 DEF QueueRecovers, DelayEnds, SendReturns, Retry, MoveTo
<1>4. CASE \/ LockGate(n) \/ TakeSnapshot(n) \/ Register(n) \/ WriteBytes(n)
           \/ QuietWindowEnds(n) \/ AcceptanceExpires(n)
  BY <1>4 DEF LockGate, TakeSnapshot, Register, WriteBytes, QuietWindowEnds,
              AcceptanceExpires, msgVars
<1> QED BY <1>1, <1>2, <1>3, <1>4 DEF SenderStep

\* What is over stays over: chunks only advance, at a commit.
LEMMA AcceptedStep ==
    TypeOK /\ GateInv /\ TableInv /\ VerdictInv /\ AcceptedInv /\ [Next]_vars => AcceptedInv'
<1> SUFFICES ASSUME TypeOK, GateInv, TableInv, VerdictInv, AcceptedInv, [Next]_vars,
                    NEW m \in Msgs, NEW k \in Chunks, k < chunk'[m] \/ result'[m] = "ok"
             PROVE  \E i \in PacketsOf(m, k)' : radio'[i] \in Queued
  BY DEF AcceptedInv
<1> USE DEF TypeOK, CallTypeOK
<1>1. ASSUME NEW i \in PacketsOf(m, k), radio[i] \in Queued
      PROVE  i \in PacketsOf(m, k)' /\ radio'[i] \in Queued
  <2>1. owner[i] # None
    BY <1>1, NoneAssumption DEF PacketsOf
  <2> QED BY <1>1, <2>1, OwnerFrame, RadioMoves DEF PacketsOf
<1>2. CASE k < chunk[m] \/ result[m] = "ok"
  BY <1>1, <1>2 DEF AcceptedInv
<1>3. CASE ~(k < chunk[m] \/ result[m] = "ok")
  <2>1. chunk'[m] # chunk[m] \/ (result'[m] = "ok" /\ result[m] # "ok")
    BY <1>3
  <2>2. Commit(m) /\ (SendFails(m) \/ Dispatch(m))
    <3>1. ~ UNCHANGED msgVars
      BY <2>1 DEF msgVars
    <3>2. ASSUME NEW n \in Msgs, CallSend(n) PROVE FALSE
      BY <2>1, <3>2 DEF CallSend, MoveTo
    <3> QED BY <2>1, <3>1, <3>2, CallFrame, CommitCases
  <2>3. pc[m] \in {"send", "waitAcceptance"}
    BY <2>2 DEF SendFails, Dispatch
  <2>4. packet[m] \in Ids /\ owner[packet[m]] = [msg |-> m, chunk |-> chunk[m]]
    BY <2>3 DEF TableInv
  <2>5. k = chunk[m]
    <3>1. k \in Nat /\ chunk[m] \in Nat /\ NumChunks \in Nat
          /\ k <= NumChunks /\ chunk[m] <= NumChunks
      BY DEF Chunks
    <3>2. CASE chunk[m] < NumChunks
      <4>1. chunk'[m] = chunk[m] + 1 /\ result' = result
        BY <2>2, <3>2 DEF Commit
      <4>2. k < chunk[m] + 1 /\ ~(k < chunk[m])
        BY <1>3, <4>1
      <4>3. QED
        <5> HIDE DEF TypeOK, CallTypeOK
        <5> QED BY <3>1, <4>2
    <3>3. CASE ~(chunk[m] < NumChunks)
      <4>1. chunk' = chunk
        BY <2>2, <3>3 DEF Commit
      <4>2. ~(k < chunk[m])
        BY <1>3
      <4>3. chunk[m] = NumChunks
        <5> HIDE DEF TypeOK, CallTypeOK
        <5> QED BY <3>1, <3>3
      <4>4. QED
        <5> HIDE DEF TypeOK, CallTypeOK
        <5> QED BY <3>1, <4>2, <4>3
    <3> QED BY <3>2, <3>3
  <2>6. radio[packet[m]] \in Queued
    <3>1. ~ (\E err \in {"ctx", "failed"} : Fail(m, err)) /\ ~ \E p \in Inside : MoveTo(m, p)
      BY <2>1 DEF Fail, MoveTo
    <3> QED BY <2>2, <3>1, ReleasedIsDead
  <2> QED BY <1>1, <2>4, <2>5, <2>6 DEF PacketsOf
<1> QED BY <1>2, <1>3

-----------------------------------------------------------------------------
(* Attempts. *)

\* Only these steps change an attempt, and what a call or an entry of the
\* table knows of one.
LEMMA LinkFrame ==
    ASSUME TypeOK, [Next]_vars
    PROVE  \/ LinkStep
           \/ UNCHANGED <<attempt, ended, link, published>>
           \/ \E m \in Msgs : SendFails(m)
  BY DEF Next, vars, otherVars, linkVars, CallSend, CancelSend, SenderStep,
         LockGate, TakeSnapshot, ChannelUnavailable, StopWaitingReady, StopPacing,
         CannotBuild, Register, WriteBytes, SendReturns, Dispatch, QuietWindowEnds,
         AcceptanceExpires, RetryZeroBytes, QueueRecovers, DelayEnds, StopRecovery,
         FrameStep, RadioNext, RecordQueueLevel, RecordQueueOK, RecordQueueRefusal,
         RecordRoutingError, RecordEcho, ClearRunning, EndRun, RadioTakes,
         RadioTransmits, RadioGivesUp, RadioStep

\* The attempts themselves: made one after the other, each over before the next.
AttemptsInv ==
    /\ \A a \in 1 .. MaxAttempts : a < attempt => a \in ended
    /\ link # "between" => attempt > 0
    /\ link \in {"between", "ending", "failing"} /\ attempt > 0 => attempt \in ended
    /\ published # "no" => attempt > 0

\* What calls and waiters know of them.
SnapshotInv ==
    /\ \A m \in Msgs :
        /\ snapshot[m] <= attempt
        /\ pc[m] \in {"waitPacing", "send", "waitAcceptance"} => snapshot[m] > 0
    /\ \A i \in Ids : pending[i].terminal # "none" =>
            pending[i].attempt > 0 /\ pending[i].attempt <= attempt

LEMMA AttemptsStep ==
    ASSUME TypeOK, AttemptsInv, [Next]_vars
    PROVE  AttemptsInv' /\ attempt \in Nat /\ attempt' \in Nat /\ attempt <= attempt'
<1> USE DEF TypeOK, CallTypeOK, AttemptsInv
<1>0. attempt \in Nat
  OBVIOUS
<1>1. CASE UNCHANGED <<attempt, ended, link, published>>
  BY <1>0, <1>1
<1>2. ASSUME NEW m \in Msgs, SendFails(m) PROVE AttemptsInv' /\ attempt' = attempt
  BY <1>2 DEF SendFails
<1>3. CASE NewAttempt
  <2>1. /\ attempt' = attempt + 1 /\ link = "between" /\ link' = "receiving"
        /\ ended' = ended /\ published' = published
    BY <1>3 DEF NewAttempt
  <2>2. ASSUME NEW a \in 1 .. MaxAttempts, a < attempt + 1 PROVE a \in ended
    <3>1. a < attempt \/ a = attempt
      BY <1>0, <2>2
    <3> QED BY <2>1, <3>1
  <2> QED BY <1>0, <2>1, <2>2
<1>4. CASE PublishReady \/ Reboot \/ EndAttempt \/ Invalidate
  BY <1>0, <1>4 DEF PublishReady, Reboot, EndAttempt, Invalidate
<1>5. CASE FailPending
  BY <1>0, <1>5 DEF FailPending
<1> QED BY <1>0, <1>1, <1>2, <1>3, <1>4, <1>5, LinkFrame DEF LinkStep

LEMMA SnapshotStep ==
    ASSUME TypeOK, TableInv, VerdictInv, AttemptsInv, SnapshotInv, [Next]_vars
    PROVE  SnapshotInv'
<1> USE DEF TypeOK, CallTypeOK, SnapshotInv
<1>1. attempt \in Nat /\ attempt' \in Nat /\ attempt <= attempt'
  BY AttemptsStep
<1>2. CASE UNCHANGED <<msgVars, pending, owner>>
  <2>1. \A m \in Msgs : snapshot[m] \in Nat
    OBVIOUS
  <2>2. \A i \in Ids : pending[i].attempt \in Nat
    BY DEF Acceptance
  <2> QED BY <1>1, <1>2, <2>1, <2>2 DEF msgVars
<1>3. CASE Mark
  <2>1. UNCHANGED msgVars
    BY <1>3, MarkKeepsEntries
  <2>2. \A i \in Ids : pending'[i].terminal # "none" => pending[i].terminal # "none"
    BY <1>3, MarkKeepsEntries DEF TableInv
  <2>3. \A i \in Ids : pending'[i].attempt = pending[i].attempt
    BY <1>3, MarkKeepsEntries
  <2>4. \A i \in Ids : pending[i].attempt \in Nat
    BY DEF Acceptance
  <2> QED BY <1>1, <2>1, <2>2, <2>3, <2>4 DEF msgVars
<1>4. ASSUME NEW m \in Msgs, CallSend(m) PROVE SnapshotInv'
  BY <1>4 DEF CallSend, MoveTo, GoTo, otherVars, tableVars, linkVars
<1>5. ASSUME NEW m \in Msgs, TakeSnapshot(m) PROVE SnapshotInv'
  <2>1. attempt > 0 /\ attempt' = attempt
    BY <1>5 DEF TakeSnapshot, AttemptsInv, otherVars, linkVars
  <2> QED BY <1>1, <1>5, <2>1 DEF TakeSnapshot, GoTo, otherVars, tableVars
<1>6. ASSUME NEW m \in Msgs, Register(m) PROVE SnapshotInv'
  <2>1. PICK i \in NewPacketIds : pending' = [pending EXCEPT ![i] =
                    [attempt |-> snapshot[m], queueOK |-> FALSE,
                     echoOK |-> FALSE, terminal |-> "pending"]]
    BY <1>6 DEF Register
  <2>2. attempt' = attempt /\ snapshot' = snapshot /\ snapshot[m] > 0 /\ snapshot[m] <= attempt
    BY <1>6 DEF Register, linkVars
  <2>3. pc' = [pc EXCEPT ![m] = "send"] /\ pc[m] = "waitPacing"
    BY <1>6 DEF Register, GoTo
  <2> QED BY <2>1, <2>2, <2>3
<1>7. ASSUME NEW m \in Msgs, SendFails(m) \/ Dispatch(m) PROVE SnapshotInv'
  <2>1. \A i \in Ids : pending'[i] \in {pending[i], NoAcceptance}
    BY <1>7 DEF SendFails, Dispatch, Delete
  <2>2. attempt' = attempt
    BY <1>7 DEF SendFails, Dispatch, linkVars
  <2>3. \A n \in Msgs : snapshot'[n] \in {snapshot[n], 0}
    BY <1>7, ReleasedIsDead DEF Commit, Fail, MoveTo, Forget
  <2>4. \A n \in Msgs : pc'[n] \in {"waitPacing", "send", "waitAcceptance"} =>
                            pc'[n] = pc[n] /\ snapshot'[n] = snapshot[n]
    BY <1>7, ReleasedIsDead DEF Commit, Fail, MoveTo, Forget, GoTo, Inside
  <2> QED BY <1>1, <2>1, <2>2, <2>3, <2>4 DEF NoAcceptance
<1>8. ASSUME NEW m \in Msgs, SendReturns(m) \/ WriteBytes(m) PROVE SnapshotInv'
  BY <1>8 DEF SendReturns, WriteBytes, MoveTo, GoTo, otherVars, tableVars, linkVars, msgVars
<1>9. ASSUME NEW m \in Msgs, SenderStep(m), Elsewhere(m) PROVE SnapshotInv'
  <2>1. pending' = pending
    BY <1>9 DEF Elsewhere
  <2>2. CASE LockGate(m)
    BY <1>1, <2>1, <2>2 DEF LockGate, GoTo, otherVars, linkVars
  <2>3. CASE UNCHANGED msgVars
    BY <1>2, <1>9, <2>3 DEF Elsewhere
  <2>4. CASE pc[m] \in Inside /\ EndsStep(m)
    <3>1. \A n \in Msgs : snapshot'[n] \in {snapshot[n], 0}
      BY <2>4 DEF EndsStep, Commit, Retry, Fail, MoveTo, Forget
    <3>2. \A n \in Msgs : pc'[n] \in {"waitPacing", "send", "waitAcceptance"} =>
                              snapshot'[n] > 0
      <4>1. CASE \E p \in Inside \ {"waitPacing"} : MoveTo(m, p)
        BY <1>9, <4>1 DEF Elsewhere, MoveTo, GoTo
      <4>2. CASE Commit(m) \/ Retry(m) \/ \E err \in {"ctx", "failed"} : Fail(m, err)
        BY <4>2 DEF Commit, Retry, Fail, Forget, GoTo
      <4> QED BY <2>4, <4>1, <4>2 DEF EndsStep
    <3> QED BY <1>1, <2>1, <3>1, <3>2 DEF Acceptance
  <2> QED BY <1>5, <1>6, <1>9, <2>2, <2>3, <2>4, SenderShapes
<1> QED BY <1>2, <1>3, <1>4, <1>6, <1>7, <1>8, <1>9, OtherCases, SenderCases

-----------------------------------------------------------------------------
(* The inductive invariant, and the properties that follow from it. *)

LEMMA InitInv == Init => IInv
<1> SUFFICES ASSUME Init PROVE IInv
  OBVIOUS
<1>1. TypeOK
  BY InitType
<1>2. GateInv
  BY NoneAssumption DEF Init, GateInv, Inside
<1>3. TableInv
  BY DEF Init, TableInv, Waits, NoAcceptance
<1>4. VerdictInv
  BY DEF Init, VerdictInv, NoAcceptance
<1>5. \A m \in Msgs, k \in Chunks : PacketsOf(m, k) = {}
  <2>1. \A m \in Msgs, k \in Chunks : [msg |-> m, chunk |-> k] # None
    BY NoneAssumption
  <2> QED BY <2>1 DEF Init, PacketsOf
<1>6. SpentInv /\ OneAlive
  BY <1>5 DEF SpentInv, OneAlive
<1>7. AcceptedInv
  BY DEF Init, AcceptedInv, Chunks
<1>8. LinkInv
  BY DEF Init, LinkInv, NoAcceptance
<1> QED BY <1>1, <1>2, <1>3, <1>4, <1>6, <1>7, <1>8 DEF IInv

LEMMA StepInv == IInv /\ [Next]_vars => IInv'
<1> SUFFICES ASSUME IInv, [Next]_vars PROVE IInv'
  OBVIOUS
<1>1. LinkInv <=> AttemptsInv /\ SnapshotInv
  BY DEF LinkInv, AttemptsInv, SnapshotInv
<1>2. LinkInv' <=> AttemptsInv' /\ SnapshotInv'
  BY DEF LinkInv, AttemptsInv, SnapshotInv
<1> QED BY <1>1, <1>2, TypeStep, GateStep, TableStep, VerdictStep, SpentStep, AliveStep,
           AcceptedStep, AttemptsStep, SnapshotStep DEF IInv

\* IInv holds in every behaviour.
THEOREM Invariant == Spec => []IInv
  BY InitInv, StepInv, PTL DEF Spec

\* No chunk of a message is transmitted twice, whatever the attempts, the
\* frames and the timers do.
THEOREM TransmittedAtMostOnce == Spec => []AtMostOnce
<1>1. IInv => AtMostOnce
  BY DEF IInv, OneAlive, AtMostOnce, Dead
<1> QED BY <1>1, Invariant, PTL

\* The acceptance table holds the packet of the call that waits, and no other.
THEOREM TableIsExact == Spec => []NoLeakedWaiter
<1>1. IInv => NoLeakedWaiter
  <2> SUFFICES ASSUME IInv PROVE NoLeakedWaiter
    OBVIOUS
  <2>1. \A i \in Ids : pending[i] # NoAcceptance <=> pending[i].terminal # "none"
    BY DEF IInv, TableInv, NoAcceptance
  <2>2. \A i \in Ids : pending[i].terminal # "none" <=> \E m \in Msgs : Waits(m, i)
    BY DEF IInv, TableInv
  <2>3. \A m \in Msgs : pc[m] \in {"send", "waitAcceptance"} => packet[m] \in Ids
    BY DEF IInv, TableInv
  <2>4. \A m \in Msgs : pc[m] \in {"send", "waitAcceptance"} => gate = m
    BY DEF IInv, GateInv, Inside
  <2> QED BY <2>1, <2>2, <2>3, <2>4 DEF NoLeakedWaiter, Waits
<1> QED BY <1>1, Invariant, PTL

\* Every pending waiter is on the current attempt or on one that is over.
THEOREM WaitersHaveAnAttempt == Spec => []NoOrphanWaiter
<1>1. IInv => NoOrphanWaiter
  <2> SUFFICES ASSUME IInv, NEW i \in Ids, IsPending(i)
               PROVE  pending[i].attempt = attempt \/ AttemptDone(pending[i].attempt)
    BY DEF NoOrphanWaiter
  <2>1. pending[i].attempt > 0 /\ pending[i].attempt <= attempt
    BY DEF IInv, LinkInv, IsPending
  <2>2. pending[i].attempt \in 0 .. MaxAttempts /\ attempt \in 0 .. MaxAttempts
    BY DEF IInv, TypeOK, Acceptance
  <2>3. \A a \in 1 .. MaxAttempts : a < attempt => a \in ended
    BY DEF IInv, LinkInv
  <2> QED BY <2>1, <2>2, <2>3 DEF AttemptDone
<1> QED BY <1>1, Invariant, PTL

\* After a bare context error no packet of the message reaches the air.
THEOREM ContextErrorIsSafe == Spec => []ContextErrorMeansNothingSent
<1>1. IInv => ContextErrorMeansNothingSent
  <2> SUFFICES ASSUME IInv, NEW m \in Msgs, result[m] = "ctx", NEW k \in Chunks,
                      NEW i \in PacketsOf(m, k)
               PROVE  radio[i] \notin {"wire", "held", "sent"}
    BY DEF ContextErrorMeansNothingSent
  <2>1. chunk[m] = 1 /\ pc[m] = "done"
    BY DEF IInv, GateInv
  <2>2. k <= chunk[m]
    BY DEF IInv, SpentInv
  <2>3. k = chunk[m]
    BY <2>1, <2>2 DEF Chunks
  <2>4. radio[i] \in Dead
    BY <2>1, <2>3 DEF IInv, SpentInv, Waits
  <2> QED BY <2>4 DEF Dead
<1> QED BY <1>1, Invariant, PTL

\* Success means that the radio queued a packet of every chunk.
THEOREM SuccessIsAcceptance == Spec => []SuccessMeansQueued
<1>1. IInv => SuccessMeansQueued
  BY DEF IInv, AcceptedInv, SuccessMeansQueued
<1> QED BY <1>1, Invariant, PTL

\* A chunk is written only after the radio has queued all chunks before it.
THEOREM InOrder == Spec => []ChunksInOrder
<1>1. IInv => ChunksInOrder
  <2> SUFFICES ASSUME IInv, NEW m \in Msgs, NEW k \in Chunks, NEW i \in PacketsOf(m, k),
                      NEW before \in 1 .. k - 1
               PROVE  \E j \in PacketsOf(m, before) : radio[j] \in Queued
    BY DEF ChunksInOrder
  <2>1. k <= chunk[m] /\ chunk[m] \in Nat
    BY DEF IInv, SpentInv, TypeOK, CallTypeOK, Chunks
  <2>2. before \in Chunks /\ before < chunk[m]
    BY <2>1 DEF Chunks
  <2> QED BY <2>2 DEF IInv, AcceptedInv
<1> QED BY <1>1, Invariant, PTL

\* The terminal kind of a waiter never changes once it is decided.
THEOREM DecidedOnce == Spec => TerminalDecidedOnce
<1> DEFINE Decided == \A i \in Ids : pending[i].terminal \in Terminals =>
                        pending'[i].terminal \in {pending[i].terminal, "none"}
<1>1. IInv /\ [Next]_vars => [Decided]_vars
  <2> SUFFICES ASSUME IInv, [Next]_vars, NEW i \in Ids, pending[i].terminal \in Terminals
               PROVE  pending'[i].terminal \in {pending[i].terminal, "none"}
    OBVIOUS
  <2>1. pending[i].terminal # "pending"
    BY DEF Terminals
  <2>2. CASE UNCHANGED pending
    BY <2>2
  <2>3. CASE Mark
    BY <2>1, <2>3, MarkKeepsEntries DEF IInv
  <2>4. ASSUME NEW m \in Msgs, SendFails(m) \/ Dispatch(m)
        PROVE  pending'[i].terminal \in {pending[i].terminal, "none"}
    BY <2>4 DEF SendFails, Dispatch, Delete, NoAcceptance, IInv, TypeOK
  <2>5. ASSUME NEW m \in Msgs, Register(m)
        PROVE  pending'[i].terminal \in {pending[i].terminal, "none"}
    <3>1. PICK j \in NewPacketIds : pending' = [pending EXCEPT ![j] =
                    [attempt |-> snapshot[m], queueOK |-> FALSE,
                     echoOK |-> FALSE, terminal |-> "pending"]]
      BY <2>5 DEF Register
    <3>2. \E n \in Msgs : Waits(n, i)
      BY DEF IInv, TableInv, Terminals
    <3>3. owner[i] # None
      <4>1. PICK n \in Msgs : Waits(n, i)
        BY <3>2
      <4>2. owner[i] = [msg |-> n, chunk |-> chunk[n]]
        BY <4>1 DEF IInv, TableInv, Waits
      <4>3. [msg |-> n, chunk |-> chunk[n]] \in [msg : Msgs, chunk : Chunks]
        BY DEF IInv, TypeOK, CallTypeOK
      <4> QED BY <4>2, <4>3, NoneAssumption
    <3> QED BY <3>1, <3>3 DEF NewPacketIds, IInv, TypeOK
  <2> QED BY <2>2, <2>3, <2>4, <2>5, TableFrame DEF TableChange, Mark
<1> QED BY <1>1, Invariant, PTL DEF Spec, TerminalDecidedOnce
=============================================================================
