---------------------------- MODULE PacingProofs ----------------------------
(* Theorems about Pacing, for every delay, deadline and bound. *)
EXTENDS Pacing, TLAPS

USE DelayAssumption

Retried == {"queueFull", "rate", "duty"}

\* Pacing counts from a time at or after the last packet was written.
PacedInv ==
    /\ lastPacing <= now /\ written <= now
    /\ waiter.at <= now /\ waiter.queueAt <= now
    /\ handled \in Retried \cup {"accepted"} => lastPacing # 0 /\ written <= lastPacing
    /\ waiter.terminal \in Retried => waiter.at # 0 /\ written <= waiter.at
    /\ pc = "send" => lastPacing = 0 \/ lastPacing + SendDelay <= now
    /\ ~Registered => waiter = NewWaiter
    /\ pc = "send" => waiter.terminal \in {"pending", "ambiguous"}

\* An accepted packet was quiet, and one that is pending has been so since
\* before the start of its window and before waitAcceptance's copy of it.
QuietInv ==
    /\ waiter.terminal = "accepted" =>
            quietSince # 0 /\ (waiter.echoOK \/ now >= quietSince + RejectionGrace)
    /\ IsPending /\ waiter.queueOK => quietSince # 0 /\ quietSince <= waiter.queueAt
    /\ IsPending /\ queueAt # 0 => waiter.queueOK /\ quietSince # 0 /\ quietSince <= queueAt
    /\ quietSince <= now
    /\ ~Registered => quietSince = 0 /\ queueAt = 0

\* The minutes that are kept are no fewer than the least that were given.
MinutesInv ==
    /\ pc \in {"send", "written", "waitAcceptance"} => least <= waiter.minutes
    /\ pc = "waitDuty" => least <= duty

\* A queue that was full when the packet was refused is known to have room
\* only by a later report.
RoomInv ==
    /\ pc \in {"retry", "waitPacing", "send", "waitDuty"} => roomed
    /\ Registered /\ waiter.terminal # "queueFull" => roomed
    /\ queue = "room" => roomed

\* How far the clock can be when timers are served in time.
DeadlineInv == ~late =>
    /\ Registered => began <= now /\ now <= began + AcceptanceTimeout
    /\ Registered /\ waiter.terminal # "pending" => began <= waiter.at
    /\ Registered /\ waiter.queueOK => began <= waiter.queueAt
    /\ pc = "waitDuty" => now <= lastPacing + AtLeast(DutyCap, SendDelay)

IInv == TypeOK /\ PacedInv /\ QuietInv /\ MinutesInv /\ RoomInv /\ DeadlineInv

-----------------------------------------------------------------------------

LEMMA Largest ==
    ASSUME NEW a \in Nat, NEW b \in Nat
    PROVE  AtLeast(a, b) \in Nat /\ a <= AtLeast(a, b) /\ b <= AtLeast(a, b)
           /\ AtLeast(a, b) \in {a, b}
  BY DEF AtLeast

\* What an update of a waiter changes, field by field.
LEMMA WaiterFields ==
    ASSUME TypeOK, NEW w \in Waiter
    PROVE  /\ \A kind \in Kinds, t \in Times : LET v == Decide(w, kind, t)
              IN  /\ v \in Waiter /\ v.terminal = kind /\ v.at = t /\ v.queueOK = w.queueOK
                  /\ v.queueAt = w.queueAt /\ v.echoOK = w.echoOK /\ v.minutes = w.minutes
           /\ LET v == WithQueueOK(w)
              IN  /\ v \in Waiter /\ v.terminal = w.terminal /\ v.at = w.at /\ v.queueOK
                  /\ v.queueAt = now /\ v.echoOK = w.echoOK /\ v.minutes = w.minutes
           /\ LET v == WithEcho(w)
              IN  /\ v \in Waiter /\ v.terminal = w.terminal /\ v.at = w.at
                  /\ v.queueOK = w.queueOK /\ v.queueAt = w.queueAt /\ v.echoOK
                  /\ v.minutes = w.minutes
           /\ \A n \in Minutes : LET v == WithMinutes(w, n)
              IN  /\ v \in Waiter /\ v.terminal = w.terminal /\ v.at = w.at
                  /\ v.queueOK = w.queueOK /\ v.queueAt = w.queueAt /\ v.echoOK = w.echoOK
                  /\ v.minutes = n
<1>1. \A kind \in Kinds, t \in Times : LET v == Decide(w, kind, t)
      IN  /\ v \in Waiter /\ v.terminal = kind /\ v.at = t /\ v.queueOK = w.queueOK
          /\ v.queueAt = w.queueAt /\ v.echoOK = w.echoOK /\ v.minutes = w.minutes
  BY DEF Waiter, Decide
<1>2. LET v == WithQueueOK(w)
      IN  /\ v \in Waiter /\ v.terminal = w.terminal /\ v.at = w.at /\ v.queueOK
          /\ v.queueAt = now /\ v.echoOK = w.echoOK /\ v.minutes = w.minutes
  <2>1. now \in Times
    BY DEF TypeOK, Times
  <2> QED BY <2>1 DEF Waiter, WithQueueOK
<1>3. LET v == WithEcho(w)
      IN  /\ v \in Waiter /\ v.terminal = w.terminal /\ v.at = w.at
          /\ v.queueOK = w.queueOK /\ v.queueAt = w.queueAt /\ v.echoOK
          /\ v.minutes = w.minutes
  BY DEF Waiter, WithEcho
<1>4. \A n \in Minutes : LET v == WithMinutes(w, n)
      IN  /\ v \in Waiter /\ v.terminal = w.terminal /\ v.at = w.at
          /\ v.queueOK = w.queueOK /\ v.queueAt = w.queueAt /\ v.echoOK = w.echoOK
          /\ v.minutes = n
  BY DEF Waiter, WithMinutes
<1> QED BY <1>1, <1>2, <1>3, <1>4

\* finishLocked decides a waiter that is pending, and leaves any other alone.
LEMMA FinishFields ==
    ASSUME TypeOK, NEW kind \in Kinds, NEW t \in Times
    PROVE  LET v == Finish(kind, t)
           IN  /\ v \in Waiter /\ v.queueOK = waiter.queueOK /\ v.queueAt = waiter.queueAt
               /\ v.echoOK = waiter.echoOK /\ v.minutes = waiter.minutes
               /\ IsPending => v.terminal = kind /\ v.at = t
               /\ ~IsPending => v = waiter
<1>1. waiter \in Waiter
  BY DEF TypeOK
<1>2. CASE IsPending
  <2>1. Finish(kind, t) = Decide(waiter, kind, t)
    BY <1>2 DEF Finish
  <2>2. LET v == Decide(waiter, kind, t)
        IN  /\ v \in Waiter /\ v.terminal = kind /\ v.at = t /\ v.queueOK = waiter.queueOK
            /\ v.queueAt = waiter.queueAt /\ v.echoOK = waiter.echoOK
            /\ v.minutes = waiter.minutes
    BY <1>1 DEF Waiter, Decide
  <2> QED BY <1>2, <2>1, <2>2
<1>3. CASE ~IsPending
  BY <1>1, <1>3 DEF Finish
<1> QED BY <1>2, <1>3

\* What a confirmation of the packet makes of its waiter.
LEMMA ConfirmFields ==
    ASSUME TypeOK, RecordQueueOK \/ RecordEcho
    PROVE  /\ IsPending /\ waiter' \in Waiter /\ waiter'.minutes = waiter.minutes
           /\ waiter'.queueAt \in {now, waiter.queueAt} /\ waiter'.at \in {now, waiter.at}
           /\ waiter'.queueOK => waiter'.queueAt = now \/
                    (waiter.queueOK /\ waiter'.queueAt = waiter.queueAt)
           /\ waiter'.terminal \in {"accepted", "pending"}
           /\ waiter'.terminal = "accepted" =>
                    waiter'.queueOK /\ waiter'.echoOK /\ waiter'.at = now
<1>1. /\ waiter \in Waiter /\ IsPending /\ waiter.terminal = "pending"
      /\ now \in Times /\ "accepted" \in Kinds
  BY DEF RecordQueueOK, RecordEcho, IsPending, TypeOK, Times, Kinds
<1>2. PICK w \in {WithQueueOK(waiter), WithEcho(waiter)} : waiter' = Confirm(w)
  BY DEF RecordQueueOK, RecordEcho, Report
<1>3. /\ w \in Waiter /\ w.minutes = waiter.minutes /\ w.terminal = "pending"
      /\ w.queueAt \in {now, waiter.queueAt} /\ w.at = waiter.at
      /\ w.queueOK => w.queueAt = now \/ (waiter.queueOK /\ w.queueAt = waiter.queueAt)
  BY <1>1, WaiterFields
<1>4. CASE w.queueOK /\ w.echoOK
  <2>1. waiter' = Decide(w, "accepted", now)
    BY <1>2, <1>4 DEF Confirm
  <2>2. LET v == Decide(w, "accepted", now)
        IN  /\ v \in Waiter /\ v.terminal = "accepted" /\ v.at = now /\ v.queueOK = w.queueOK
            /\ v.queueAt = w.queueAt /\ v.echoOK = w.echoOK /\ v.minutes = w.minutes
    BY <1>1, <1>3, WaiterFields
  <2> QED BY <1>1, <1>3, <1>4, <2>1, <2>2
<1>5. CASE ~(w.queueOK /\ w.echoOK)
  <2>1. waiter' = w
    BY <1>2, <1>5 DEF Confirm
  <2> QED BY <1>1, <1>3, <2>1
<1> QED BY <1>4, <1>5

\* Only a QueueStatus, and not the echo, moves the start of the quiet window.
LEMMA WindowFields ==
    ASSUME TypeOK
    PROVE  /\ RecordQueueOK => waiter'.queueOK /\ waiter'.queueAt = now
           /\ RecordEcho => waiter'.queueOK = waiter.queueOK /\ waiter'.queueAt = waiter.queueAt
<1>1. waiter \in Waiter /\ now \in Times /\ "accepted" \in Kinds
  BY DEF TypeOK, Times, Kinds
<1>2. ASSUME NEW w \in Waiter PROVE Confirm(w).queueOK = w.queueOK /\ Confirm(w).queueAt = w.queueAt
  <2>1. LET v == Decide(w, "accepted", now)
        IN  v.queueOK = w.queueOK /\ v.queueAt = w.queueAt
    BY DEF Waiter, Decide
  <2> QED BY <2>1 DEF Confirm
<1>3. /\ RecordQueueOK => waiter' = Confirm(WithQueueOK(waiter))
      /\ RecordEcho => waiter' = Confirm(WithEcho(waiter))
  BY DEF RecordQueueOK, RecordEcho, Report
<1> QED BY <1>1, <1>2, <1>3, WaiterFields

\* What a duty notification makes of it.
LEMMA NotificationFields ==
    ASSUME TypeOK, RecordNotification
    PROVE  \E n \in Minutes :
            /\ least' = (IF n < least THEN n ELSE least)
            /\ duty' = (IF pc = "waitDuty" THEN n ELSE duty)
            /\ waiter' \in Waiter /\ waiter'.terminal = waiter.terminal /\ waiter'.at = waiter.at
            /\ waiter'.queueOK = waiter.queueOK /\ waiter'.queueAt = waiter.queueAt
            /\ waiter'.echoOK = waiter.echoOK
            /\ waiter'.minutes = (IF IsPending THEN n ELSE waiter.minutes)
            /\ waiter' = waiter \/ IsPending
<1>1. PICK n \in Minutes :
            /\ least' = (IF n < least THEN n ELSE least)
            /\ duty' = (IF pc = "waitDuty" THEN n ELSE duty)
            /\ waiter' = (IF IsPending THEN WithMinutes(waiter, n) ELSE waiter)
  BY DEF RecordNotification
<1>2. waiter \in Waiter
  BY DEF TypeOK
<1>3. CASE IsPending
  BY <1>1, <1>2, <1>3, WaiterFields
<1>4. CASE ~IsPending
  BY <1>1, <1>2, <1>4
<1> QED BY <1>3, <1>4

\* What failPending makes of it.
LEMMA FailFields ==
    ASSUME TypeOK, FailPending
    PROVE  /\ waiter' \in Waiter /\ waiter'.queueOK = waiter.queueOK
           /\ waiter'.queueAt = waiter.queueAt /\ waiter'.echoOK = waiter.echoOK
           /\ waiter'.minutes = waiter.minutes
           /\ IsPending => waiter'.terminal = "ambiguous" /\ waiter'.at = now
           /\ ~IsPending => waiter' = waiter
  <1>1. "ambiguous" \in Kinds /\ now \in Times
    BY DEF TypeOK, Kinds, Times
  <1>2. waiter' = Finish("ambiguous", now)
    BY DEF FailPending
  <1> QED BY <1>1, <1>2, FinishFields

LEMMA TypeStep == TypeOK /\ [Next]_vars => TypeOK'
<1> SUFFICES ASSUME TypeOK, [Next]_vars PROVE TypeOK'
  OBVIOUS
<1> USE FinishFields, ConfirmFields, NotificationFields DEF TypeOK, Times, Minutes, Kinds, Waiter, NewWaiter, clock, callVars, radioVars, Report,
           IsPending, Registered
<1>1. CASE StartChunk
  BY <1>1 DEF StartChunk
<1>2. CASE NotBeforeReached
  BY <1>2 DEF NotBeforeReached
<1>3. CASE Register
  BY <1>3 DEF Register
<1>4. CASE WriteBytes
  BY <1>4 DEF WriteBytes
<1>5. CASE SendReturns
  BY <1>5 DEF SendReturns
<1>6. CASE SendFails
  <2>1. /\ pc' \in {"retry", "idle"} /\ notBefore' \in {notBefore, 0}
        /\ lastPacing' \in {lastPacing, now} /\ handled' \in {handled, "ambiguous", "accepted"}
        /\ duty' = duty /\ roomed' = roomed
    BY <1>6 DEF SendFails, CommitAccepted, GiveUp
  <2>2. waiter' = NewWaiter /\ began' = 0 /\ queueAt' = 0 /\ quietSince' = 0
        /\ UNCHANGED <<now, late, packets, written, queue, least>>
    BY <1>6 DEF SendFails, Remove
  <2>3. NewWaiter \in Waiter
    OBVIOUS
  <2>4. notBefore' \in 0 .. MaxTime + SendDelay /\ lastPacing' \in Times /\ began' \in Times
        /\ queueAt' \in Times /\ quietSince' \in Times
    <3>1. 0 \in 0 .. MaxTime + SendDelay /\ 0 \in Times /\ now \in Times
      OBVIOUS
    <3>2. notBefore \in 0 .. MaxTime + SendDelay /\ lastPacing \in Times
      OBVIOUS
    <3> QED BY <2>1, <2>2, <3>1, <3>2
  <2> QED BY <2>1, <2>2, <2>3, <2>4
<1>7. CASE QuietWindowEnds
  BY <1>7 DEF QuietWindowEnds, EndRound
<1>8. CASE AcceptanceExpires
  BY <1>8 DEF AcceptanceExpires, EndRound
<1>9. CASE Dispatch
  BY <1>9 DEF Dispatch, CommitAccepted, GiveUp, Remove, QueueFull, RateLimited, DutyLimited, RetryAfter
<1>10. CASE QueueRecovers
  BY <1>10 DEF QueueRecovers
<1>11. CASE DutyRecovers
  BY <1>11 DEF DutyRecovers
<1>12. CASE Interrupt
  BY <1>12 DEF Interrupt
<1>13. CASE RecordQueueOK
  BY <1>13 DEF RecordQueueOK
<1>14. CASE RecordQueueFull
  <2>1. waiter' \in Waiter
    <3>1. "queueFull" \in Kinds /\ now \in Times
      OBVIOUS
    <3> QED BY <1>14, <3>1, FinishFields DEF RecordQueueFull, Refuse
  <2>2. 0 \in Times
    OBVIOUS
  <2> QED BY <1>14, <2>1, <2>2 DEF RecordQueueFull, Refuse
<1>15. CASE RecordQueueError
  BY <1>15 DEF RecordQueueError, Refuse
<1>16. CASE RecordQueueLevel
  BY <1>16 DEF RecordQueueLevel
<1>17. CASE RecordRoutingError
  BY <1>17 DEF RecordRoutingError, Refuse
<1>18. CASE RecordEcho
  BY <1>18 DEF RecordEcho
<1>19. CASE RecordNotification
  BY <1>19 DEF RecordNotification
<1>20. CASE FailPending
  BY <1>20 DEF FailPending
<1>21. CASE Tick
  BY <1>21 DEF Tick
<1>22. CASE UNCHANGED vars
  BY <1>22 DEF vars
<1>23. CASE LookAtQueueStatus
  BY <1>23 DEF LookAtQueueStatus
<1> QED BY <1>1, <1>2, <1>3, <1>4, <1>5, <1>6, <1>7, <1>8, <1>9, <1>10, <1>11, <1>12, <1>13, <1>14, <1>15, <1>16, <1>17, <1>18, <1>19, <1>20, <1>21, <1>22, <1>23 DEF Next, Call, Receive

\* Pacing counts from the last verdict.
LEMMA PacedStep == TypeOK /\ PacedInv /\ [Next]_vars => PacedInv'
<1> SUFFICES ASSUME TypeOK, PacedInv, [Next]_vars PROVE PacedInv'
  OBVIOUS
<1> USE DEF TypeOK, Times, Minutes, NewWaiter, clock, callVars, radioVars, IsPending, Registered,
            Retried, PacedInv
<1>1. CASE StartChunk
  BY <1>1 DEF StartChunk
<1>2. CASE NotBeforeReached
  BY <1>2 DEF NotBeforeReached
<1>3. CASE Register
  BY <1>3 DEF Register
<1>4. CASE WriteBytes
  BY <1>4 DEF WriteBytes
<1>5. CASE SendReturns
  BY <1>5 DEF SendReturns
<1>6. CASE SendFails
  BY <1>6 DEF SendFails, CommitAccepted, GiveUp, Remove
<1>7. CASE QuietWindowEnds
  BY <1>7, FinishFields DEF QuietWindowEnds, EndRound, Kinds, Waiter, Report
<1>8. CASE AcceptanceExpires
  BY <1>8, FinishFields DEF AcceptanceExpires, EndRound, Kinds, Waiter, Report
<1>9. CASE Dispatch
  BY <1>9 DEF Dispatch, CommitAccepted, GiveUp, Remove, QueueFull, RateLimited, DutyLimited, RetryAfter
<1>10. CASE QueueRecovers
  BY <1>10 DEF QueueRecovers
<1>11. CASE DutyRecovers
  BY <1>11 DEF DutyRecovers
<1>12. CASE Interrupt
  BY <1>12 DEF Interrupt
<1>13. CASE RecordQueueOK
  BY <1>13, ConfirmFields DEF RecordQueueOK, Waiter, Report
<1>14. CASE RecordQueueFull
  BY <1>14, FinishFields DEF RecordQueueFull, Refuse, Kinds, Waiter, Report
<1>15. CASE RecordQueueError
  BY <1>15, FinishFields DEF RecordQueueError, Refuse, Kinds, Waiter, Report
<1>16. CASE RecordQueueLevel
  BY <1>16 DEF RecordQueueLevel
<1>17. CASE RecordRoutingError
  BY <1>17, FinishFields DEF RecordRoutingError, Refuse, Kinds, Waiter, Report
<1>18. CASE RecordEcho
  BY <1>18, ConfirmFields DEF RecordEcho, Waiter, Report
<1>19. CASE RecordNotification
  BY <1>19, NotificationFields DEF RecordNotification, Waiter
<1>20. CASE FailPending
  BY <1>20, FailFields DEF FailPending, Waiter
<1>21. CASE Tick
  BY <1>21 DEF Tick, Waiter
<1>22. CASE UNCHANGED vars
  BY <1>22 DEF vars
<1>23. CASE LookAtQueueStatus
  BY <1>23 DEF LookAtQueueStatus
<1> QED
  BY <1>1, <1>2, <1>3, <1>4, <1>5, <1>6, <1>7, <1>8, <1>9, <1>10, <1>11, <1>12, <1>13, <1>14, <1>15, <1>16, <1>17, <1>18, <1>19, <1>20, <1>21, <1>22, <1>23 DEF Next, Call, Receive

\* Nothing is accepted before its quiet window is over, or its echo is there.
LEMMA QuietStep == TypeOK /\ PacedInv /\ QuietInv /\ [Next]_vars => QuietInv'
<1> SUFFICES ASSUME TypeOK, PacedInv, QuietInv, [Next]_vars PROVE QuietInv'
  OBVIOUS
<1> USE DEF TypeOK, Times, Minutes, NewWaiter, clock, callVars, radioVars, IsPending, Registered,
            Retried, QuietInv
<1>1. CASE StartChunk
  BY <1>1 DEF StartChunk
<1>2. CASE NotBeforeReached
  BY <1>2 DEF NotBeforeReached
<1>3. CASE Register
  BY <1>3 DEF Register
<1>4. CASE WriteBytes
  BY <1>4 DEF WriteBytes
<1>5. CASE SendReturns
  BY <1>5 DEF SendReturns
<1>6. CASE SendFails
  BY <1>6 DEF SendFails, CommitAccepted, GiveUp, Remove
<1>7. CASE QuietWindowEnds
  <2>0. "accepted" \in Kinds /\ waiter.queueAt \in Times
    BY DEF Kinds, Waiter
  <2>1. /\ waiter' = Finish("accepted", waiter.queueAt) /\ IsPending
        /\ queueAt # 0 /\ queueAt + RejectionGrace <= now
        /\ UNCHANGED <<now, pc, quietSince>> /\ queueAt' = 0
    BY <1>7 DEF QuietWindowEnds, EndRound, QuietWindowOver
  <2>2. waiter'.terminal = "accepted"
    BY <2>0, <2>1, FinishFields
  <2>3. quietSince # 0 /\ quietSince + RejectionGrace <= now
    BY <2>1
  <2> QED BY <2>1, <2>2, <2>3
<1>8. CASE AcceptanceExpires
  BY <1>8, FinishFields DEF AcceptanceExpires, EndRound, Kinds, Waiter, Report
<1>9. CASE Dispatch
  BY <1>9 DEF Dispatch, CommitAccepted, GiveUp, Remove, QueueFull, RateLimited, DutyLimited, RetryAfter
<1>10. CASE QueueRecovers
  BY <1>10 DEF QueueRecovers
<1>11. CASE DutyRecovers
  BY <1>11 DEF DutyRecovers
<1>12. CASE Interrupt
  BY <1>12 DEF Interrupt
<1>13. CASE RecordQueueOK
  <2>1. /\ IsPending /\ UNCHANGED <<now, pc, queueAt>> /\ now \in 1 .. MaxTime
        /\ quietSince' = IF quietSince = 0 THEN now ELSE quietSince
    BY <1>13 DEF RecordQueueOK, Report
  <2>2. /\ waiter'.terminal = "accepted" => waiter'.echoOK
        /\ waiter'.queueOK /\ waiter'.queueAt = now
    BY <1>13, ConfirmFields, WindowFields
  <2>3. quietSince' # 0 /\ quietSince' <= now /\ (quietSince # 0 => quietSince' = quietSince)
    BY <2>1
  <2> QED BY <2>1, <2>2, <2>3
<1>14. CASE RecordQueueFull
  BY <1>14, FinishFields DEF RecordQueueFull, Refuse, Kinds, Waiter, Report
<1>15. CASE RecordQueueError
  BY <1>15, FinishFields DEF RecordQueueError, Refuse, Kinds, Waiter, Report
<1>16. CASE RecordQueueLevel
  BY <1>16 DEF RecordQueueLevel
<1>17. CASE RecordRoutingError
  BY <1>17, FinishFields DEF RecordRoutingError, Refuse, Kinds, Waiter, Report
<1>18. CASE RecordEcho
  <2>1. IsPending /\ UNCHANGED <<now, pc, queueAt, quietSince>>
    BY <1>18 DEF RecordEcho, Report
  <2>2. /\ waiter'.queueOK = waiter.queueOK /\ waiter'.queueAt = waiter.queueAt
        /\ waiter'.terminal = "accepted" => waiter'.queueOK /\ waiter'.echoOK
    BY <1>18, ConfirmFields, WindowFields
  <2> QED BY <2>1, <2>2
<1>19. CASE RecordNotification
  BY <1>19, NotificationFields DEF RecordNotification, Waiter
<1>20. CASE FailPending
  BY <1>20, FailFields DEF FailPending, Waiter
<1>21. CASE Tick
  BY <1>21 DEF Tick, Waiter
<1>22. CASE UNCHANGED vars
  BY <1>22 DEF vars
<1>23. CASE LookAtQueueStatus
  BY <1>23 DEF LookAtQueueStatus
<1> QED
  BY <1>1, <1>2, <1>3, <1>4, <1>5, <1>6, <1>7, <1>8, <1>9, <1>10, <1>11, <1>12, <1>13, <1>14, <1>15, <1>16, <1>17, <1>18, <1>19, <1>20, <1>21, <1>22, <1>23 DEF Next, Call, Receive

\* The least minutes are kept.
LEMMA MinutesStep == TypeOK /\ PacedInv /\ MinutesInv /\ [Next]_vars => MinutesInv'
<1> SUFFICES ASSUME TypeOK, PacedInv, MinutesInv, [Next]_vars PROVE MinutesInv'
  OBVIOUS
<1> USE DEF TypeOK, Times, Minutes, NewWaiter, clock, callVars, radioVars, IsPending, Registered,
            Retried, MinutesInv
<1>1. CASE StartChunk
  BY <1>1 DEF StartChunk
<1>2. CASE NotBeforeReached
  BY <1>2 DEF NotBeforeReached
<1>3. CASE Register
  BY <1>3 DEF Register
<1>4. CASE WriteBytes
  BY <1>4 DEF WriteBytes
<1>5. CASE SendReturns
  BY <1>5 DEF SendReturns
<1>6. CASE SendFails
  BY <1>6 DEF SendFails, CommitAccepted, GiveUp, Remove
<1>7. CASE QuietWindowEnds
  BY <1>7, FinishFields DEF QuietWindowEnds, EndRound, Kinds, Waiter, Report
<1>8. CASE AcceptanceExpires
  BY <1>8, FinishFields DEF AcceptanceExpires, EndRound, Kinds, Waiter, Report
<1>9. CASE Dispatch
  BY <1>9 DEF Dispatch, CommitAccepted, GiveUp, Remove, QueueFull, RateLimited, DutyLimited, RetryAfter
<1>10. CASE QueueRecovers
  BY <1>10 DEF QueueRecovers
<1>11. CASE DutyRecovers
  BY <1>11 DEF DutyRecovers
<1>12. CASE Interrupt
  BY <1>12 DEF Interrupt
<1>13. CASE RecordQueueOK
  BY <1>13, ConfirmFields DEF RecordQueueOK, Waiter, Report
<1>14. CASE RecordQueueFull
  BY <1>14, FinishFields DEF RecordQueueFull, Refuse, Kinds, Waiter, Report
<1>15. CASE RecordQueueError
  BY <1>15, FinishFields DEF RecordQueueError, Refuse, Kinds, Waiter, Report
<1>16. CASE RecordQueueLevel
  BY <1>16 DEF RecordQueueLevel
<1>17. CASE RecordRoutingError
  BY <1>17, FinishFields DEF RecordRoutingError, Refuse, Kinds, Waiter, Report
<1>18. CASE RecordEcho
  BY <1>18, ConfirmFields DEF RecordEcho, Waiter, Report
<1>19. CASE RecordNotification
  BY <1>19, NotificationFields DEF RecordNotification, Waiter
<1>20. CASE FailPending
  BY <1>20, FailFields DEF FailPending, Waiter
<1>21. CASE Tick
  BY <1>21 DEF Tick, Waiter
<1>22. CASE UNCHANGED vars
  BY <1>22 DEF vars
<1>23. CASE LookAtQueueStatus
  BY <1>23 DEF LookAtQueueStatus
<1> QED
  BY <1>1, <1>2, <1>3, <1>4, <1>5, <1>6, <1>7, <1>8, <1>9, <1>10, <1>11, <1>12, <1>13, <1>14, <1>15, <1>16, <1>17, <1>18, <1>19, <1>20, <1>21, <1>22, <1>23 DEF Next, Call, Receive

\* Room is known only from a report.
LEMMA RoomStep == TypeOK /\ PacedInv /\ RoomInv /\ [Next]_vars => RoomInv'
<1> SUFFICES ASSUME TypeOK, PacedInv, RoomInv, [Next]_vars PROVE RoomInv'
  OBVIOUS
<1> USE DEF TypeOK, Times, Minutes, NewWaiter, clock, callVars, radioVars, IsPending, Registered,
            Retried, RoomInv
<1>1. CASE StartChunk
  BY <1>1 DEF StartChunk
<1>2. CASE NotBeforeReached
  BY <1>2 DEF NotBeforeReached
<1>3. CASE Register
  BY <1>3 DEF Register
<1>4. CASE WriteBytes
  BY <1>4 DEF WriteBytes
<1>5. CASE SendReturns
  BY <1>5 DEF SendReturns
<1>6. CASE SendFails
  BY <1>6 DEF SendFails, CommitAccepted, GiveUp, Remove
<1>7. CASE QuietWindowEnds
  BY <1>7, FinishFields DEF QuietWindowEnds, EndRound, Kinds, Waiter, Report
<1>8. CASE AcceptanceExpires
  BY <1>8, FinishFields DEF AcceptanceExpires, EndRound, Kinds, Waiter, Report
<1>9. CASE Dispatch
  BY <1>9 DEF Dispatch, CommitAccepted, GiveUp, Remove, QueueFull, RateLimited, DutyLimited, RetryAfter
<1>10. CASE QueueRecovers
  BY <1>10 DEF QueueRecovers
<1>11. CASE DutyRecovers
  BY <1>11 DEF DutyRecovers
<1>12. CASE Interrupt
  BY <1>12 DEF Interrupt
<1>13. CASE RecordQueueOK
  BY <1>13, ConfirmFields DEF RecordQueueOK, Waiter, Report
<1>14. CASE RecordQueueFull
  BY <1>14, FinishFields DEF RecordQueueFull, Refuse, Kinds, Waiter, Report
<1>15. CASE RecordQueueError
  BY <1>15, FinishFields DEF RecordQueueError, Refuse, Kinds, Waiter, Report
<1>16. CASE RecordQueueLevel
  BY <1>16 DEF RecordQueueLevel
<1>17. CASE RecordRoutingError
  BY <1>17, FinishFields DEF RecordRoutingError, Refuse, Kinds, Waiter, Report
<1>18. CASE RecordEcho
  BY <1>18, ConfirmFields DEF RecordEcho, Waiter, Report
<1>19. CASE RecordNotification
  BY <1>19, NotificationFields DEF RecordNotification, Waiter
<1>20. CASE FailPending
  BY <1>20, FailFields DEF FailPending, Waiter
<1>21. CASE Tick
  BY <1>21 DEF Tick, Waiter
<1>22. CASE UNCHANGED vars
  BY <1>22 DEF vars
<1>23. CASE LookAtQueueStatus
  BY <1>23 DEF LookAtQueueStatus
<1> QED
  BY <1>1, <1>2, <1>3, <1>4, <1>5, <1>6, <1>7, <1>8, <1>9, <1>10, <1>11, <1>12, <1>13, <1>14, <1>15, <1>16, <1>17, <1>18, <1>19, <1>20, <1>21, <1>22, <1>23 DEF Next, Call, Receive

\* Timers that are served in time keep the clock before the deadlines.
LEMMA DeadlineStep == TypeOK /\ PacedInv /\ QuietInv /\ DeadlineInv /\ [Next]_vars => DeadlineInv'
<1> SUFFICES ASSUME TypeOK, PacedInv, QuietInv, DeadlineInv, [Next]_vars PROVE DeadlineInv'
  OBVIOUS
<1> SUFFICES ASSUME ~late' PROVE DeadlineInv'
  BY DEF DeadlineInv
<1>0. ~late
  BY DEF Next, Call, Receive, vars, clock, StartChunk, NotBeforeReached, Register, WriteBytes,
         SendReturns, SendFails, LookAtQueueStatus, QuietWindowEnds, AcceptanceExpires, Dispatch, QueueRecovers,
         DutyRecovers, Interrupt, RecordQueueOK, RecordQueueFull, RecordQueueError,
         RecordQueueLevel, RecordRoutingError, RecordEcho, RecordNotification, FailPending, Tick,
         Report, Refuse, EndRound
<1> USE <1>0 DEF TypeOK, Times, Minutes, NewWaiter, clock, callVars, radioVars, IsPending, Registered,
            PacedInv, DeadlineInv
<1>1. CASE StartChunk
  BY <1>1 DEF StartChunk
<1>2. CASE NotBeforeReached
  BY <1>2 DEF NotBeforeReached
<1>3. CASE Register
  BY <1>3 DEF Register
<1>4. CASE WriteBytes
  BY <1>4 DEF WriteBytes
<1>5. CASE SendReturns
  BY <1>5 DEF SendReturns
<1>6. CASE SendFails
  BY <1>6 DEF SendFails, CommitAccepted, GiveUp, Remove
<1>7. CASE QuietWindowEnds
  <2>0. "accepted" \in Kinds /\ waiter.queueAt \in Times
    BY DEF Kinds, Waiter
  <2>1. /\ waiter' = Finish("accepted", waiter.queueAt) /\ waiter.queueOK
        /\ IsPending /\ UNCHANGED <<now, pc, began, lastPacing>>
    BY <1>7 DEF QuietWindowEnds, EndRound, QuietWindowOver, QuietInv
  <2>2. /\ waiter'.queueOK = waiter.queueOK /\ waiter'.queueAt = waiter.queueAt
        /\ waiter'.at = waiter.queueAt
    <3> HIDE DEF IsPending, TypeOK, PacedInv, DeadlineInv
    <3>1. LET v == Finish("accepted", waiter.queueAt)
          IN  v.queueOK = waiter.queueOK /\ v.queueAt = waiter.queueAt /\ v.at = waiter.queueAt
      BY <2>0, <2>1, FinishFields
    <3> QED BY <2>1, <3>1
  <2> QED BY <2>1, <2>2
<1>8. CASE AcceptanceExpires
  BY <1>8, FinishFields DEF AcceptanceExpires, EndRound, Kinds, Waiter, Report
<1>9. CASE Dispatch
  <2>1. ~Registered' /\ (pc' = "waitDuty" => lastPacing' = waiter.at) /\ now' = now
    BY <1>9 DEF Dispatch, CommitAccepted, GiveUp, QueueFull, RateLimited, DutyLimited, RetryAfter
  <2>2. Registered /\ waiter.terminal # "pending"
    BY <1>9 DEF Dispatch
  <2>3. /\ began <= waiter.at /\ now <= began + AcceptanceTimeout
        /\ began \in Nat /\ now \in Nat /\ waiter.at \in Nat
    BY <2>2 DEF Waiter
  <2>4. AtLeast(DutyCap, SendDelay) \in Nat /\ DutyCap <= AtLeast(DutyCap, SendDelay)
    BY Largest
  <2>5. now <= waiter.at + AtLeast(DutyCap, SendDelay)
    BY <2>3, <2>4
  <2> QED BY <2>1, <2>5
<1>10. CASE QueueRecovers
  BY <1>10 DEF QueueRecovers
<1>11. CASE DutyRecovers
  BY <1>11 DEF DutyRecovers
<1>12. CASE Interrupt
  BY <1>12 DEF Interrupt
<1>13. CASE RecordQueueOK
  BY <1>13, ConfirmFields DEF RecordQueueOK, Waiter, Report
<1>14. CASE RecordQueueFull
  BY <1>14, FinishFields DEF RecordQueueFull, Refuse, Kinds, Waiter, Report
<1>15. CASE RecordQueueError
  BY <1>15, FinishFields DEF RecordQueueError, Refuse, Kinds, Waiter, Report
<1>16. CASE RecordQueueLevel
  BY <1>16 DEF RecordQueueLevel
<1>17. CASE RecordRoutingError
  BY <1>17, FinishFields DEF RecordRoutingError, Refuse, Kinds, Waiter, Report
<1>18. CASE RecordEcho
  BY <1>18, ConfirmFields DEF RecordEcho, Waiter, Report
<1>19. CASE RecordNotification
  BY <1>19, NotificationFields DEF RecordNotification, Waiter
<1>20. CASE FailPending
  BY <1>20, FailFields DEF FailPending, Waiter
<1>21. CASE Tick
  <2>1. now' = now + 1 /\ ~TimerDue /\ UNCHANGED <<pc, lastPacing, began, waiter>>
    BY <1>21 DEF Tick
  <2>2. now \in Nat /\ began \in Nat /\ lastPacing \in Nat /\ duty \in Nat /\ duty <= DutyCap
    OBVIOUS
  <2>3. Registered => now < began + AcceptanceTimeout
    BY <2>1, <2>2 DEF TimerDue
  <2>4. pc = "waitDuty" => now < lastPacing + AtLeast(DutyCap, SendDelay)
    <3>1. pc = "waitDuty" => now < lastPacing + AtLeast(duty, SendDelay)
      BY <2>1, <2>2, Largest DEF TimerDue, DutyDeadline
    <3>2. AtLeast(duty, SendDelay) <= AtLeast(DutyCap, SendDelay)
      BY <2>2 DEF AtLeast
    <3> QED BY <2>2, <3>1, <3>2, Largest
  <2>5. Registered' => began' <= now' /\ now' <= began' + AcceptanceTimeout
    BY <2>1, <2>2, <2>3
  <2>6. /\ Registered' /\ waiter'.terminal # "pending" => began' <= waiter'.at
        /\ Registered' /\ waiter'.queueOK => began' <= waiter'.queueAt
    BY <2>1
  <2>7. pc' = "waitDuty" => now' <= lastPacing' + AtLeast(DutyCap, SendDelay)
    <3> HIDE DEF TypeOK, PacedInv, DeadlineInv
    <3>1. AtLeast(DutyCap, SendDelay) \in Nat
      BY Largest
    <3> QED BY <2>1, <2>2, <2>4, <3>1
  <2> QED BY <2>5, <2>6, <2>7
<1>22. CASE UNCHANGED vars
  BY <1>22 DEF vars
<1>23. CASE LookAtQueueStatus
  BY <1>23 DEF LookAtQueueStatus
<1> QED
  BY <1>1, <1>2, <1>3, <1>4, <1>5, <1>6, <1>7, <1>8, <1>9, <1>10, <1>11, <1>12, <1>13, <1>14, <1>15, <1>16, <1>17, <1>18, <1>19, <1>20, <1>21, <1>22, <1>23 DEF Next, Call, Receive

-----------------------------------------------------------------------------

LEMMA InitInv == Init => IInv
<1> SUFFICES ASSUME Init PROVE IInv
  OBVIOUS
<1> USE DEF Init, NewWaiter
<1>1. TypeOK
  <2>1. now \in 1 .. MaxTime
    OBVIOUS
  <2>4. late \in BOOLEAN /\ roomed \in BOOLEAN
    OBVIOUS
  <2>5. pc = "idle" /\ queue = "unknown" /\ handled = "none"
    OBVIOUS
  <2>2. waiter \in Waiter
    BY DEF Waiter, Times, Minutes, Kinds
  <2>3. /\ lastPacing \in Times /\ notBefore \in 0 .. MaxTime + SendDelay /\ began \in Times
        /\ duty \in Minutes /\ packets \in 0 .. MaxSubmissions /\ written \in Times
        /\ least \in Minutes /\ quietSince \in Times /\ queueAt \in Times
    BY DEF Times, Minutes
  <2> HIDE DEF Init
  <2> QED BY <2>1, <2>2, <2>3, <2>4, <2>5 DEF TypeOK
<1>2. PacedInv /\ QuietInv /\ MinutesInv /\ RoomInv /\ DeadlineInv
  BY DEF PacedInv, QuietInv, MinutesInv, RoomInv, DeadlineInv, Registered, Retried
<1> QED BY <1>1, <1>2 DEF IInv

\* The invariant holds in every behaviour.
THEOREM Invariant == Spec => []IInv
<1>1. IInv /\ [Next]_vars => IInv'
  BY TypeStep, PacedStep, QuietStep, MinutesStep, RoomStep, DeadlineStep DEF IInv
<1> QED BY InitInv, <1>1, PTL DEF Spec

\* All variables keep their types in every behaviour.
THEOREM TypeCorrect == Spec => []TypeOK
<1>1. IInv => TypeOK
  BY DEF IInv
<1> QED BY <1>1, Invariant, PTL

\* After TX queue full a chunk waits for room that was reported since.
THEOREM RetryHasRoom == Spec => []RoomBeforeRetry
<1>1. IInv => RoomBeforeRetry
  BY DEF IInv, RoomInv, RoomBeforeRetry
<1> QED BY <1>1, Invariant, PTL

\* No flow of frames puts off the deadlines of a call.
THEOREM WaitsAreBounded == Spec => []BoundedWaits
<1>1. IInv => BoundedWaits
  BY DEF IInv, DeadlineInv, BoundedWaits, Registered
<1> QED BY <1>1, Invariant, PTL

\* The delay is kept after every packet that was accepted or refused with a
\* retry.
THEOREM PacedAfterEveryVerdict == Spec => PacedAfterVerdict
<1>1. IInv /\ [Next]_vars =>
        [pc = "send" /\ pc' = "written" /\ handled \in {"accepted", "queueFull", "rate", "duty"}
            => now >= written + SendDelay]_vars
  <2> SUFFICES ASSUME IInv, pc = "send",
                      handled \in {"accepted", "queueFull", "rate", "duty"}
               PROVE  now >= written + SendDelay
    OBVIOUS
  <2>1. lastPacing # 0 /\ written <= lastPacing
    BY DEF IInv, PacedInv, Retried
  <2>2. lastPacing + SendDelay <= now
    BY <2>1 DEF IInv, PacedInv
  <2> QED BY <2>1, <2>2 DEF IInv, TypeOK, Times
<1> QED BY <1>1, Invariant, PTL DEF Spec, PacedAfterVerdict

\* A retry after a duty-cycle limit is never earlier than the radio said.
THEOREM DutyIsRespected == Spec => DutyRetryNotEarly
<1>1. IInv /\ [Next]_vars =>
        [pc = "waitDuty" /\ pc' = "retry" => now >= lastPacing + least]_vars
  <2> SUFFICES ASSUME IInv, [Next]_vars, pc = "waitDuty", pc' = "retry"
               PROVE  now >= lastPacing + least
    OBVIOUS
  <2>1. DutyRecovers
    BY DEF Next, Call, Receive, vars, clock, callVars, StartChunk, NotBeforeReached, Register, WriteBytes,
           SendReturns, SendFails, LookAtQueueStatus, QuietWindowEnds, AcceptanceExpires, Dispatch, QueueRecovers,
           Interrupt, RecordQueueOK, RecordQueueFull, RecordQueueError, RecordQueueLevel,
           RecordRoutingError, RecordEcho, RecordNotification, FailPending, Tick, Report,
           Refuse, EndRound
  <2>2. least <= duty /\ duty \in Nat /\ least \in Nat /\ lastPacing \in Nat /\ now \in Nat
    BY DEF IInv, MinutesInv, TypeOK, Minutes, Times
  <2>3. duty <= AtLeast(duty, SendDelay) /\ AtLeast(duty, SendDelay) \in Nat
    BY <2>2, Largest
  <2>4. lastPacing + AtLeast(duty, SendDelay) <= now
    BY <2>1 DEF DutyRecovers, DutyDeadline
  <2> QED BY <2>2, <2>3, <2>4
<1> QED BY <1>1, Invariant, PTL DEF Spec, DutyRetryNotEarly

\* Send commits a packet only after a success that no refusal followed, and after
\* its echo or the whole quiet window from that success.
THEOREM AcceptedIsQuiet == Spec => AcceptedMeansQuiet
<1>1. IInv /\ [Next]_vars =>
        [pc' = "idle" /\ handled' = "accepted" /\ handled # "accepted" =>
            quietSince # 0 /\ (waiter.echoOK \/ now >= quietSince + RejectionGrace)]_vars
  <2> SUFFICES ASSUME IInv, [Next]_vars, handled' = "accepted", handled # "accepted"
               PROVE  waiter.terminal = "accepted"
    BY DEF IInv, QuietInv
  <2> QED
    BY DEF Next, Call, Receive, vars, clock, callVars, StartChunk, NotBeforeReached, Register, WriteBytes,
           SendReturns, SendFails, LookAtQueueStatus, QuietWindowEnds, AcceptanceExpires, Dispatch, QueueRecovers,
           DutyRecovers, Interrupt, RecordQueueOK, RecordQueueFull, RecordQueueError,
           RecordQueueLevel, RecordRoutingError, RecordEcho, RecordNotification, FailPending, Tick,
           Report, Refuse, EndRound, GiveUp, QueueFull, RateLimited, DutyLimited, RetryAfter
<1> QED BY <1>1, Invariant, PTL DEF Spec, AcceptedMeansQuiet
=============================================================================
