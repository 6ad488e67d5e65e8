--------------------------- MODULE DeliveryProofs ---------------------------
(* Submission implements Delivery: under the inductive invariant of        *)
(* Submission every step is one of Delivery's, or changes nothing that     *)
(* Delivery speaks of.                                                     *)
EXTENDS SubmissionProofs

\* The packets of a chunk that have gone out, as the refinement mapping of
\* Promise counts them, and the rest of that mapping.
Sent(m, k) == {i \in PacketsOf(m, k) : radio[i] = "sent"}
Air == [m \in Msgs |-> [k \in Chunks |-> Sent(m, k)]]
Accepted == [m \in Msgs |-> IF result[m] = "ok" THEN NumChunks ELSE chunk[m] - 1]

Stutter == UNCHANGED <<Air, Accepted, result>>

USE ChunksAssumption

-----------------------------------------------------------------------------
(* What has gone out. *)

\* Registering a packet puts nothing on the air, and of the radio's steps
\* only a transmission does.
LEMMA AirFrame ==
    ASSUME IInv, [Next]_vars, ~ \E i \in Ids : RadioTransmits(i)
    PROVE  Air' = Air
<1>1. ASSUME NEW i \in Ids PROVE radio'[i] = "sent" <=> radio[i] = "sent"
  <2>1. CASE UNCHANGED radio
    BY <2>1
  <2>2. ASSUME NEW m \in Msgs, WriteBytes(m) PROVE radio'[i] = "sent" <=> radio[i] = "sent"
    BY <2>2 DEF WriteBytes, IInv, TypeOK
  <2>3. ASSUME NEW j \in Ids, RadioTakes(j) \/ RadioGivesUp(j)
        PROVE  radio'[i] = "sent" <=> radio[i] = "sent"
    BY <2>3 DEF RadioTakes, RadioGivesUp, RadioStep, IInv, TypeOK
  <2> QED BY <2>1, <2>2, <2>3, RadioFrame DEF RadioChange
<1>2. ASSUME NEW i \in Ids PROVE radio[i] = "sent" => owner'[i] = owner[i]
  BY OwnerFrame DEF IInv, VerdictInv
<1>3. ASSUME NEW m \in Msgs, NEW k \in Chunks PROVE Sent(m, k)' = Sent(m, k)
  BY <1>1, <1>2 DEF Sent, PacketsOf
<1> QED BY <1>3 DEF Air

\* A packet the radio transmits is the first of its chunk, the chunks before
\* it are accepted, and Send has not denied it.
LEMMA TransmitStep ==
    ASSUME IInv, NEW i \in Ids, RadioTransmits(i)
    PROVE  \E m \in Msgs, k \in Chunks : Promise!Transmit(m, k, i)
<1>1. radio[i] = "held" /\ radio' = [radio EXCEPT ![i] = "sent"]
      /\ UNCHANGED <<result, chunk, owner>>
  BY DEF RadioTransmits, RadioStep, msgVars
<1>2. owner[i] # None
  BY <1>1 DEF IInv, VerdictInv
<1>3. PICK m \in Msgs, k \in Chunks : owner[i] = [msg |-> m, chunk |-> k]
  BY <1>2 DEF IInv, TypeOK
<1>4. i \in PacketsOf(m, k) /\ radio[i] \notin Dead
  BY <1>1, <1>3 DEF PacketsOf, Dead
<1>5. k <= chunk[m] /\ pc[m] \notin {"idle", "gate"} /\ result[m] # "notRunning"
  BY <1>4 DEF IInv, SpentInv
<1>6. result[m] \in {"none", "ok", "failed"}
  <2>1. ASSUME result[m] = "ctx" PROVE FALSE
    <3>1. chunk[m] = 1 /\ pc[m] = "done"
      BY <2>1 DEF IInv, GateInv
    <3>2. k = chunk[m]
      BY <1>5, <3>1 DEF Chunks
    <3> QED BY <1>4, <2>1, <3>1, <3>2 DEF IInv, SpentInv, Waits
  <2> QED BY <1>5, <2>1 DEF IInv, TypeOK, CallTypeOK
<1>7. k <= Accepted[m] + 1
  BY <1>5 DEF Accepted, Chunks, IInv, TypeOK, CallTypeOK
<1>8. Sent(m, k) = {}
  <2>1. ASSUME NEW j \in PacketsOf(m, k), radio[j] = "sent" PROVE FALSE
    BY <1>1, <1>4, <2>1 DEF IInv, OneAlive, Dead
  <2> QED BY <2>1 DEF Sent
<1>9. ASSUME NEW n \in Msgs, NEW l \in Chunks
      PROVE  Sent(n, l)' = IF n = m /\ l = k THEN {i} ELSE Sent(n, l)
  <2>1. \A j \in Ids : radio'[j] = IF j = i THEN "sent" ELSE radio[j]
    BY <1>1 DEF IInv, TypeOK
  <2>2. owner' = owner
    BY <1>1
  <2>3. CASE n = m /\ l = k
    BY <1>3, <1>8, <2>1, <2>2, <2>3 DEF Sent, PacketsOf
  <2>4. CASE ~(n = m /\ l = k)
    BY <1>3, <2>1, <2>2, <2>4 DEF Sent, PacketsOf
  <2> QED BY <2>3, <2>4
<1>10. Air' = [Air EXCEPT ![m][k] = {i}]
  BY <1>9 DEF Air
<1>11. Air[m][k] = {} /\ Accepted' = Accepted
  BY <1>1, <1>8 DEF Air, Accepted
<1> QED BY <1>1, <1>6, <1>7, <1>10, <1>11
       DEF Promise!Transmit, Air, Sent, Accepted

-----------------------------------------------------------------------------
(* What Send has done and returned. *)

\* commitAccepted is an acceptance.
LEMMA AcceptStep ==
    ASSUME IInv, NEW m \in Msgs, Commit(m), result[m] = "none", Air' = Air
    PROVE  Promise!Accept(m)
<1>1. chunk[m] \in 1 .. NumChunks /\ chunk \in [Msgs -> Chunks]
      /\ result \in [Msgs -> {"none", "ok", "ctx", "failed", "notRunning"}]
  BY DEF IInv, TypeOK, CallTypeOK, Chunks
<1>2. Accepted[m] = chunk[m] - 1 /\ Accepted[m] < NumChunks
  BY <1>1 DEF Accepted
<1>3. \A n \in Msgs \ {m} : chunk'[n] = chunk[n] /\ result'[n] = result[n]
  BY <1>1 DEF Commit
<1>4. ASSUME chunk[m] < NumChunks
      PROVE  /\ Accepted'[m] = Accepted[m] + 1
             /\ result' = [result EXCEPT ![m] = IF Accepted'[m] = NumChunks THEN "ok" ELSE "none"]
  <2>1. chunk' = [chunk EXCEPT ![m] = @ + 1] /\ result' = result
    BY <1>4 DEF Commit
  <2>2. chunk'[m] = chunk[m] + 1
    BY <1>1, <2>1
  <2>3. Accepted'[m] = Accepted[m] + 1 /\ Accepted'[m] < NumChunks
    BY <1>1, <1>2, <1>4, <2>1, <2>2 DEF Accepted
  <2> QED BY <1>1, <2>1, <2>3
<1>5. ASSUME ~(chunk[m] < NumChunks)
      PROVE  /\ Accepted'[m] = Accepted[m] + 1
             /\ result' = [result EXCEPT ![m] = IF Accepted'[m] = NumChunks THEN "ok" ELSE "none"]
  <2>1. chunk' = chunk /\ result' = [result EXCEPT ![m] = "ok"]
    BY <1>5 DEF Commit
  <2>2. chunk[m] = NumChunks
    BY <1>1, <1>5
  <2>3. Accepted'[m] = NumChunks
    BY <1>1, <2>1 DEF Accepted
  <2> QED BY <1>1, <1>2, <2>1, <2>2, <2>3
<1>6. /\ Accepted'[m] = Accepted[m] + 1
      /\ result' = [result EXCEPT ![m] = IF Accepted'[m] = NumChunks THEN "ok" ELSE "none"]
  BY <1>4, <1>5
<1>7. \A n \in Msgs \ {m} : Accepted'[n] = Accepted[n]
  BY <1>3 DEF Accepted
<1>8. Accepted' = [Accepted EXCEPT ![m] = @ + 1]
  <2>1. Accepted = [n \in Msgs |-> Accepted[n]] /\ Accepted' = [n \in Msgs |-> Accepted'[n]]
    BY DEF Accepted
  <2> QED BY <1>6, <1>7, <2>1
<1> QED BY <1>2, <1>6, <1>8 DEF Promise!Accept, Air, Sent, Accepted

\* A call that has not begun has submitted nothing.
LEMMA IdleIsUntouched ==
    ASSUME IInv, NEW m \in Msgs, pc[m] = "idle"
    PROVE  chunk[m] = 1 /\ \A k \in Chunks : PacketsOf(m, k) = {}
<1>1. \A k \in Chunks : PacketsOf(m, k) = {}
  BY DEF IInv, SpentInv
<1>2. chunk[m] \in Chunks /\ 1 \in Chunks
  BY DEF IInv, TypeOK, CallTypeOK, Chunks
<1>3. ~(1 < chunk[m])
  BY <1>1, <1>2 DEF IInv, AcceptedInv
<1> QED BY <1>1, <1>2, <1>3 DEF Chunks

\* An error of Send gives up; one that is not "failed" is returned only when
\* nothing is accepted and nothing went out.
LEMMA GiveUpStep ==
    ASSUME IInv, IInv', NEW m \in Msgs, NEW err \in {"ctx", "failed", "notRunning"},
           result[m] = "none", result' = [result EXCEPT ![m] = err],
           chunk' = chunk, Air' = Air,
           err = "notRunning" => pc[m] = "idle"
    PROVE  Promise!GiveUp(m, err)
<1>1. result \in [Msgs -> {"none", "ok", "ctx", "failed", "notRunning"}]
      /\ chunk \in [Msgs -> Chunks]
  BY DEF IInv, TypeOK, CallTypeOK
<1>2. err = "ctx" => chunk[m] = 1 /\ \A k \in Chunks : Air'[m][k] = {}
  <2> SUFFICES ASSUME err = "ctx"
               PROVE  chunk[m] = 1 /\ \A k \in Chunks : Air'[m][k] = {}
    OBVIOUS
  <2>1. result'[m] = "ctx"
    BY <1>1
  <2>2. chunk'[m] = 1 /\ pc'[m] = "done"
    BY <2>1 DEF IInv, GateInv
  <2>3. ASSUME NEW k \in Chunks, NEW i \in PacketsOf(m, k)' PROVE radio'[i] # "sent"
    <3>1. k = chunk'[m]
      BY <2>2 DEF IInv, SpentInv, Chunks
    <3>2. ~Waits(m, i)'
      BY <2>2 DEF Waits
    <3>3. radio'[i] \in Dead
      BY <2>1, <3>1, <3>2 DEF IInv, SpentInv
    <3> QED BY <3>3 DEF Dead
  <2>4. \A k \in Chunks : Sent(m, k)' = {}
    BY <2>3 DEF Sent
  <2> QED BY <2>2, <2>4 DEF Air
<1>3. err = "notRunning" => chunk[m] = 1 /\ \A k \in Chunks : Air[m][k] = {}
  BY IdleIsUntouched DEF Air, Sent
<1>4. err # "failed" => Accepted[m] = 0 /\ \A k \in Chunks : Air[m][k] = {}
  BY <1>2, <1>3 DEF Accepted
<1>5. Accepted' = Accepted
  BY <1>1 DEF Accepted
<1> QED BY <1>4, <1>5 DEF Promise!GiveUp, Promise!Chunks, Chunks, Air, Sent, Accepted

\* A step of a call accepts a chunk, gives up, or shows Delivery nothing.
LEMMA CallStep ==
    ASSUME IInv, IInv', Air' = Air, NEW m \in Msgs, CallSend(m) \/ SenderStep(m)
    PROVE  \/ Promise!Accept(m)
           \/ \E err \in {"ctx", "failed", "notRunning"} : Promise!GiveUp(m, err)
           \/ Stutter
<1>1. UNCHANGED <<chunk, result>> => Stutter
  BY DEF Stutter, Accepted
<1>2. CASE CallSend(m)
  <2>1. result[m] = "none"
    BY <1>2 DEF CallSend, IInv, GateInv
  <2>2. CASE running
    BY <1>1, <1>2, <2>2 DEF CallSend, MoveTo
  <2>3. CASE ~running
    BY <1>2, <2>1, <2>3, GiveUpStep DEF CallSend
  <2> QED BY <2>2, <2>3
<1>3. CASE SenderStep(m) /\ pc[m] \in Inside /\ EndsStep(m)
  <2>1. result[m] = "none"
    BY <1>3 DEF IInv, GateInv, Inside
  <2>2. CASE Commit(m)
    BY <2>1, <2>2, AcceptStep
  <2>3. CASE Retry(m) \/ \E p \in Inside \ {"waitPacing"} : MoveTo(m, p)
    BY <1>1, <2>3 DEF Retry, MoveTo
  <2>4. ASSUME NEW err \in {"ctx", "failed"}, Fail(m, err)
        PROVE  \E e \in {"ctx", "failed", "notRunning"} : Promise!GiveUp(m, e)
    <3>1. \E e \in {"ctx", "failed"} : result' = [result EXCEPT ![m] = e]
      BY <2>4 DEF Fail
    <3>2. chunk' = chunk
      BY <2>4 DEF Fail
    <3> QED BY <2>1, <3>1, <3>2, GiveUpStep
  <2> QED BY <1>3, <2>2, <2>3, <2>4 DEF EndsStep
<1>4. CASE LockGate(m) \/ TakeSnapshot(m) \/ Register(m) \/ UNCHANGED msgVars
  BY <1>1, <1>4 DEF LockGate, TakeSnapshot, Register, msgVars
<1> QED BY <1>2, <1>3, <1>4, SenderShapes

-----------------------------------------------------------------------------
(* The refinement. *)

LEMMA InitDelivers == Init => Promise!Init
<1> SUFFICES ASSUME Init PROVE Promise!Init
  OBVIOUS
<1>1. \A m \in Msgs, k \in Chunks : Sent(m, k) = {}
  <2>1. \A m \in Msgs, k \in Chunks : [msg |-> m, chunk |-> k] # None
    BY NoneAssumption
  <2> QED BY <2>1 DEF Init, Sent, PacketsOf
<1>2. Air = [m \in Msgs |-> [k \in Chunks |-> {}]]
  BY <1>1 DEF Air
<1>3. Accepted = [m \in Msgs |-> 0]
  BY DEF Init, Accepted
<1> QED BY <1>2, <1>3 DEF Promise!Init, Promise!Chunks, Chunks, Air, Sent, Accepted, Init

LEMMA StepDelivers == IInv /\ IInv' /\ [Next]_vars => [Promise!Next]_(Promise!vars)
<1> SUFFICES ASSUME IInv, IInv', [Next]_vars PROVE [Promise!Next]_(Promise!vars)
  OBVIOUS
<1>1. Stutter => UNCHANGED Promise!vars
  BY DEF Stutter, Promise!vars, Air, Sent, Accepted
<1>2. CASE \E i \in Ids : RadioTransmits(i)
  BY <1>2, TransmitStep DEF Promise!Next, Promise!Chunks, Chunks
<1>3. CASE ~ \E i \in Ids : RadioTransmits(i)
  <2>1. Air' = Air
    BY <1>3, AirFrame
  <2>2. CASE UNCHANGED msgVars
    BY <1>1, <2>1, <2>2 DEF Stutter, Accepted, msgVars
  <2>3. ASSUME NEW m \in Msgs, CallSend(m) \/ SenderStep(m)
        PROVE  [Promise!Next]_(Promise!vars)
    BY <1>1, <2>1, <2>3, CallStep DEF Promise!Next
  <2> QED BY <2>2, <2>3, CallFrame
<1> QED BY <1>2, <1>3

\* Send, the receive loop and the attempts keep Delivery's promise, for any
\* number of callers, chunks, packet ids and attempts: chunks in order, none
\* twice, and nothing on the air after a result that says nothing was sent.
THEOREM Delivers == Spec => KeepsPromise
<1>1. Init => Promise!Init
  BY InitDelivers
<1>2. IInv /\ IInv' /\ [Next]_vars => [Promise!Next]_(Promise!vars)
  BY StepDelivers
<1> QED BY <1>1, <1>2, Invariant, PTL DEF Spec, KeepsPromise, Promise!Spec
=============================================================================
