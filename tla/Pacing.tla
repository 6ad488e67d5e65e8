------------------------------- MODULE Pacing -------------------------------
(***************************************************************************)
(* The timed waits of sendPhysical: pacing between submissions, the quiet  *)
(* window of waitAcceptance, and the delays before a retry after TX queue  *)
(* full, a rate limit or a duty-cycle limit.                               *)
(*                                                                         *)
(* sendGate lets one call in at a time, so the module follows one thread   *)
(* of chunks.  The clock counts from 1; time 0 is the zero time.Time.      *)
(* Submission.tla models the rest of the same functions, without time.     *)
(***************************************************************************)
EXTENDS Naturals

CONSTANTS
    SendDelay,          \* send_delay_ms
    RejectionGrace,     \* localRejectGrace
    AcceptanceTimeout,  \* acceptanceTimeout
    DutyCap,            \* the 60 minutes of waitDutyRecovery
    MaxTime,            \* bound: the clock stops here
    MaxSubmissions      \* bound: packets registered

ASSUME DelayAssumption ==
    /\ SendDelay \in Nat \ {0} /\ RejectionGrace \in Nat \ {0}
    /\ AcceptanceTimeout \in Nat \ {0} /\ DutyCap \in Nat \ {0}
    /\ AcceptanceTimeout <= DutyCap
    /\ MaxTime \in Nat \ {0} /\ MaxSubmissions \in Nat

VARIABLES
    now,
    late,        \* history: the clock once passed a timer that was due, or the
                 \* deadline of the context SendToRadio was given
    pc,          \* where the call that holds sendGate is, "idle" without one
    lastPacing,  \* Channel.lastPacing
    notBefore,   \* sendPhysical's local
    waiter,      \* the acceptance record of the packet
    began,       \* when submitCtx was made
    queueAt,     \* waitAcceptance's copy of the waiter's queueAt, 0 without one
    queue,       \* queueKnown and queueFree: "unknown", "full" or "room"
    duty,        \* Channel.dutyMinutes
    packets,     \* packets registered so far
    written,     \* when the last packet was written, 0 before the first
    handled,     \* what sendPhysical made of it
    roomed,      \* history: room was reported since the chunk's last TX queue full
    least,       \* history: the least duty minutes the radio gave for the packet
    quietSince   \* history: the first success reported for the packet that no
                 \* refusal followed, 0 without one

clock == <<now, late>>
callVars == <<pc, lastPacing, notBefore, began, queueAt, packets, written, handled>>
radioVars == <<waiter, queue, duty, roomed, least, quietSince>>
vars == <<clock, callVars, radioVars>>

Times == 0 .. MaxTime

\* nil minutes count as DutyCap: both give the same deadline.
Minutes == 0 .. DutyCap

Kinds == {"accepted", "queueFull", "rate", "duty", "permanent", "ambiguous"}

Waiter == [terminal : Kinds \cup {"pending"}, at : Times, queueOK : BOOLEAN,
           queueAt : Times, echoOK : BOOLEAN, minutes : Minutes]

NewWaiter == [terminal |-> "pending", at |-> 0, queueOK |-> FALSE,
              queueAt |-> 0, echoOK |-> FALSE, minutes |-> DutyCap]

Init ==
    /\ now = 1 /\ late = FALSE
    /\ pc = "idle"
    /\ lastPacing = 0 /\ notBefore = 0
    /\ waiter = NewWaiter /\ began = 0 /\ queueAt = 0
    /\ queue = "unknown" /\ duty = DutyCap
    /\ packets = 0 /\ written = 0 /\ handled = "none"
    /\ roomed = TRUE /\ least = DutyCap /\ quietSince = 0

\* The packet is in the table.
Registered == pc \in {"send", "written", "waitAcceptance"}
IsPending == Registered /\ waiter.terminal = "pending"

\* removeAcceptance and removeExact: the packet leaves the table, and the
\* locals of the iteration go out of scope.
Remove == waiter' = NewWaiter /\ began' = 0 /\ queueAt' = 0 /\ quietSince' = 0

Decide(w, kind, at) == [w EXCEPT !.terminal = kind, !.at = at]

\* finishLocked: the first terminal kind stays.
Finish(kind, at) == IF IsPending THEN Decide(waiter, kind, at) ELSE waiter

WithQueueOK(w) == [w EXCEPT !.queueOK = TRUE, !.queueAt = now]
WithEcho(w) == [w EXCEPT !.echoOK = TRUE]
WithMinutes(w, n) == [w EXCEPT !.minutes = n]

\* A waiter that has both its QueueStatus and its echo is accepted at once.
Confirm(w) == IF w.queueOK /\ w.echoOK THEN Decide(w, "accepted", now) ELSE w

AtLeast(a, b) == IF a < b THEN b ELSE a

\* Mutant: the delay is counted anew from each look at the clock.
DutyDeadlineFromNow == now + AtLeast(duty, SendDelay)

\* waitDutyRecovery's deadline; rejectedAt is the lastPacing of the rejection.
DutyDeadline == lastPacing + AtLeast(duty, SendDelay)

\* The window is over by the copy; the waiter's own may have started anew.
QuietWindowOver == queueAt # 0 /\ queueAt + RejectionGrace <= now

\* A timer of the call has fired and the call has not looked yet.
TimerDue ==
    \/ pc = "retry" /\ notBefore <= now
    \/ pc = "waitDuty" /\ DutyDeadline <= now
    \/ pc = "waitQueue" /\ queue = "room" /\ lastPacing + SendDelay <= now
    \/ pc \in {"send", "written"} /\ began + AcceptanceTimeout <= now
    \/ pc = "waitAcceptance" /\ \/ waiter.terminal # "pending"
                                \/ QuietWindowOver
                                \/ began + AcceptanceTimeout <= now

-----------------------------------------------------------------------------
(* The call. *)

\* sendPhysical starts on the next chunk of this or a later message.
StartChunk ==
    /\ pc = "idle"
    /\ pc' = "retry" /\ notBefore' = 0
    /\ roomed' = TRUE
    /\ UNCHANGED <<clock, lastPacing, began, queueAt, packets, written, handled, waiter,
                   queue, duty, least, quietSince>>

\* The wait for notBefore is over; waitReady and waitPacing come next.
NotBeforeReached ==
    /\ pc = "retry" /\ notBefore <= now
    /\ pc' = "waitPacing"
    /\ UNCHANGED <<clock, lastPacing, notBefore, began, queueAt, packets, written, handled, radioVars>>

\* waitPacing is over, and the packet is registered.
Register ==
    /\ pc = "waitPacing" /\ packets < MaxSubmissions
    /\ lastPacing = 0 \/ lastPacing + SendDelay <= now
    /\ pc' = "send"
    /\ waiter' = NewWaiter /\ began' = now
    /\ packets' = packets + 1
    /\ least' = DutyCap
    /\ UNCHANGED <<clock, lastPacing, notBefore, queueAt, written, handled, queue, duty, roomed,
                   quietSince>>

\* SendToRadio writes the packet.
WriteBytes ==
    /\ pc = "send"
    /\ pc' = "written" /\ written' = now /\ handled' = "none"
    /\ UNCHANGED <<clock, lastPacing, notBefore, began, queueAt, packets, radioVars>>

SendReturns ==
    /\ pc = "written"
    /\ pc' = "waitAcceptance"
    /\ UNCHANGED <<clock, lastPacing, notBefore, began, queueAt, packets, written, handled, radioVars>>

\* Send is over for this chunk, and pacing stays as it is.
GiveUp(kind) ==
    /\ pc' = "idle" /\ handled' = kind /\ notBefore' = 0
    /\ UNCHANGED <<lastPacing, duty, roomed>>

\* Mutant: an accepted packet does not pace the next one.
CommitUnpaced ==
    /\ pc' = "idle" /\ handled' = "accepted"
    /\ notBefore' = 0
    /\ UNCHANGED <<lastPacing, duty, roomed>>

CommitAccepted ==
    /\ pc' = "idle" /\ handled' = "accepted"
    /\ lastPacing' = now /\ notBefore' = 0
    /\ UNCHANGED <<duty, roomed>>

\* SendToRadio fails: with no byte written sendPhysical tries again.
SendFails ==
    /\ \/ pc = "send" /\ pc' = "retry"
                      /\ UNCHANGED <<lastPacing, notBefore, duty, roomed, handled>>
       \/ pc = "written" /\ IF waiter.terminal = "accepted"
                            THEN CommitAccepted ELSE GiveUp("ambiguous")
    /\ Remove
    /\ UNCHANGED <<clock, packets, written, queue, least>>

\* waitAcceptance copies when the QueueStatus came, and unlocks.
LookAtQueueStatus ==
    /\ pc = "waitAcceptance" /\ IsPending /\ waiter.queueOK
    /\ queueAt' = waiter.queueAt
    /\ UNCHANGED <<clock, pc, lastPacing, notBefore, began, packets, written, handled, radioVars>>

\* The round of waitAcceptance's loop ends, and with it the copy.
EndRound ==
    /\ queueAt' = 0
    /\ UNCHANGED <<clock, pc, lastPacing, notBefore, began, packets, written, handled,
                   queue, duty, roomed, least, quietSince>>

\* Mutant: waitAcceptance does not look again whether the packet is pending.
QuietWindowEndsUnchecked ==
    /\ pc = "waitAcceptance" /\ QuietWindowOver
    /\ waiter' = Decide(waiter, "accepted", waiter.queueAt)
    /\ EndRound

\* By the copy the quiet window is over.  Under the lock waitAcceptance only
\* looks again whether the packet is still pending.
QuietWindowEnds ==
    /\ pc = "waitAcceptance" /\ IsPending /\ QuietWindowOver
    /\ waiter' = Finish("accepted", waiter.queueAt)
    /\ EndRound

\* waitAcceptance: the context, its timeout or the attempt ends the wait.
AcceptanceExpires ==
    /\ pc = "waitAcceptance" /\ IsPending
    /\ waiter' = Finish("ambiguous", now)
    /\ EndRound

\* A refusal that may be tried again: pacing counts from its time.
RetryAfter(kind, place) ==
    /\ waiter.terminal = kind
    /\ pc' = place /\ handled' = kind
    /\ lastPacing' = waiter.at

QueueFull ==
    /\ RetryAfter("queueFull", "waitQueue")
    /\ UNCHANGED <<notBefore, duty, roomed>>

\* Mutant: the delay is added to a time that holds it already.
RateLimitedTwice ==
    /\ RetryAfter("rate", "retry")
    /\ notBefore' = waiter.at + SendDelay + SendDelay
    /\ UNCHANGED <<duty, roomed>>

RateLimited ==
    /\ RetryAfter("rate", "retry")
    /\ notBefore' = waiter.at + SendDelay
    /\ UNCHANGED <<duty, roomed>>

\* Mutant: unknown minutes count as none.
DutyLimitedNoMinutes ==
    /\ RetryAfter("duty", "waitDuty")
    /\ duty' = IF waiter.minutes = DutyCap THEN 0 ELSE waiter.minutes
    /\ UNCHANGED <<notBefore, roomed>>

\* waitDutyRecovery starts from the minutes the waiter has.
DutyLimited ==
    /\ RetryAfter("duty", "waitDuty")
    /\ duty' = waiter.minutes
    /\ UNCHANGED <<notBefore, roomed>>

\* sendPhysical's switch on the kind waitAcceptance returns.
Dispatch ==
    /\ pc = "waitAcceptance" /\ ~IsPending
    /\ \/ waiter.terminal = "accepted" /\ CommitAccepted
       \/ QueueFull \/ RateLimited \/ DutyLimited
       \/ waiter.terminal \in {"permanent", "ambiguous"} /\ GiveUp(waiter.terminal)
    /\ Remove
    /\ UNCHANGED <<clock, packets, written, queue, least>>

\* waitQueueRecovery returns: there is room, and pacing is over.
QueueRecovers ==
    /\ pc = "waitQueue" /\ queue = "room" /\ lastPacing + SendDelay <= now
    /\ pc' = "retry" /\ notBefore' = 0
    /\ UNCHANGED <<clock, lastPacing, began, queueAt, packets, written, handled, radioVars>>

\* waitDutyRecovery returns, and clears the minutes.
DutyRecovers ==
    /\ pc = "waitDuty" /\ DutyDeadline <= now
    /\ pc' = "retry" /\ notBefore' = 0
    /\ duty' = DutyCap /\ least' = DutyCap
    /\ UNCHANGED <<clock, lastPacing, began, queueAt, packets, written, handled, waiter,
                   queue, roomed, quietSince>>

\* The context or the channel ends a wait that no packet is registered in.
Interrupt ==
    /\ pc \in {"retry", "waitPacing", "waitQueue", "waitDuty"}
    /\ pc' = "idle" /\ notBefore' = 0
    /\ duty' = DutyCap
    /\ UNCHANGED <<clock, lastPacing, began, queueAt, packets, written, handled, waiter,
                   queue, roomed, least, quietSince>>

-----------------------------------------------------------------------------
(* The receive loop. *)

\* A frame about the packet changes its waiter.
Report(w) ==
    /\ pc \in {"written", "waitAcceptance"}
    /\ waiter' = w
    /\ UNCHANGED <<clock, callVars>>

Refuse(kind) == Report(Finish(kind, now)) /\ quietSince' = 0

\* recordQueueStatus of a success.  Each one starts the quiet window anew.
RecordQueueOK ==
    /\ IsPending
    /\ queue' \in {"full", "room"}
    /\ roomed' = (roomed \/ queue' = "room")
    /\ Report(Confirm(WithQueueOK(waiter)))
    /\ quietSince' = IF quietSince = 0 THEN now ELSE quietSince
    /\ UNCHANGED <<duty, least>>

\* Mutant: a refusal leaves the free places known so far.
RecordQueueFullKeepingRoom ==
    /\ IsPending
    /\ roomed' = FALSE
    /\ Refuse("queueFull")
    /\ UNCHANGED <<queue, duty, least>>

\* recordQueueStatus of TX queue full.
RecordQueueFull ==
    /\ IsPending
    /\ queue' = "full" /\ roomed' = FALSE
    /\ Refuse("queueFull")
    /\ UNCHANGED <<duty, least>>

\* recordQueueStatus about no registered packet.
RecordQueueLevel ==
    /\ queue' \in {"full", "room"}
    /\ roomed' = (roomed \/ queue' = "room")
    /\ UNCHANGED <<clock, callVars, waiter, duty, least, quietSince>>

\* recordQueueStatus of any other result.
RecordQueueError ==
    /\ IsPending
    /\ queue' \in {"full", "room"}
    /\ roomed' = (roomed \/ queue' = "room")
    /\ Refuse("permanent")
    /\ UNCHANGED <<duty, least>>

\* recordPacketControl of a routing error.
RecordRoutingError ==
    /\ IsPending
    /\ \E kind \in {"rate", "duty", "permanent"} : Refuse(kind)
    /\ UNCHANGED <<queue, duty, roomed, least>>

\* recordPacketControl of the local echo.
RecordEcho ==
    /\ IsPending
    /\ Report(Confirm(WithEcho(waiter)))
    /\ UNCHANGED <<queue, duty, roomed, least, quietSince>>

\* recordNotification: minutes for the pending packet, or for the one that
\* waitDutyRecovery waits for.  In between they are lost.
RecordNotification ==
    /\ pc \in {"written", "waitAcceptance", "waitDuty"}
    /\ \E n \in Minutes :
        /\ least' = IF n < least THEN n ELSE least
        /\ waiter' = IF IsPending THEN WithMinutes(waiter, n) ELSE waiter
        /\ duty' = IF pc = "waitDuty" THEN n ELSE duty
    /\ UNCHANGED <<clock, callVars, queue, roomed, quietSince>>

\* failPending, when the attempt ends or the radio reboots.
FailPending ==
    /\ queue' = "unknown"
    /\ waiter' = Finish("ambiguous", now)
    /\ UNCHANGED <<clock, callVars, duty, roomed, least, quietSince>>

\* Time passes, also while a timer waits to be served.
Tick ==
    /\ now < MaxTime
    /\ now' = now + 1
    /\ late' = (late \/ TimerDue)
    /\ UNCHANGED <<callVars, radioVars>>

-----------------------------------------------------------------------------

Call ==
    \/ StartChunk \/ NotBeforeReached \/ Register \/ WriteBytes \/ SendReturns
    \/ SendFails \/ LookAtQueueStatus \/ QuietWindowEnds \/ AcceptanceExpires
    \/ Dispatch \/ QueueRecovers \/ DutyRecovers \/ Interrupt

Receive ==
    \/ RecordQueueOK \/ RecordQueueFull \/ RecordQueueError \/ RecordQueueLevel
    \/ RecordRoutingError \/ RecordEcho \/ RecordNotification \/ FailPending

Next == Call \/ Receive \/ Tick

Spec == Init /\ [][Next]_vars

-----------------------------------------------------------------------------

TypeOK ==
    /\ now \in 1 .. MaxTime /\ late \in BOOLEAN
    /\ pc \in {"idle", "retry", "waitPacing", "send", "written", "waitAcceptance",
               "waitQueue", "waitDuty"}
    /\ lastPacing \in Times /\ notBefore \in 0 .. MaxTime + SendDelay
    /\ waiter \in Waiter /\ began \in Times /\ queueAt \in Times
    /\ queue \in {"unknown", "full", "room"} /\ duty \in Minutes
    /\ packets \in 0 .. MaxSubmissions /\ written \in Times
    /\ handled \in Kinds \cup {"none"}
    /\ roomed \in BOOLEAN /\ least \in Minutes /\ quietSince \in Times

\* send_delay_ms is the "Minimum interval between physical text submissions
\* for this channel instance": two packets are never written closer together.
MinimumInterval ==
    [][written' # written /\ written # 0 => written' >= written + SendDelay]_vars

\* What the code does keep: after a packet that sendPhysical committed, or
\* will retry after a refusal, the next one is not written before the delay.
PacedAfterVerdict ==
    [][pc = "send" /\ pc' = "written" /\ handled \in {"accepted", "queueFull", "rate", "duty"}
        => now >= written + SendDelay]_vars

\* After TX queue full the chunk is not submitted again until the radio has
\* reported room since; room reported before the refusal does not count.
RoomBeforeRetry == pc \in {"retry", "waitPacing", "send"} => roomed

\* A retry after a duty-cycle limit keeps to what the radio said: it comes no
\* sooner than the least number of minutes given for the packet.
DutyRetryNotEarly ==
    [][pc = "waitDuty" /\ pc' = "retry" => now >= lastPacing + least]_vars

\* "Accepted delivery means the attached firmware reported local queue success
\* and no correlated local rejection arrived during a four-second window. A
\* valid local echo ... completes that boundary immediately."  The window is any
\* whole one after a success that no refusal followed: not the latest, since a
\* repeated success may restart the window after waitAcceptance looked at it.
AcceptedMeansQuiet ==
    [][pc' = "idle" /\ handled' = "accepted" /\ handled # "accepted" =>
        quietSince # 0 /\ (waiter.echoOK \/ now >= quietSince + RejectionGrace)]_vars

\* As long as timers were served in time the call never waits beyond its deadlines:
\* repeated QueueStatus frames and duty notifications do not put them off.
BoundedWaits == ~late =>
    /\ pc \in {"send", "written", "waitAcceptance"} => now <= began + AcceptanceTimeout
    /\ pc = "waitDuty" => now <= lastPacing + AtLeast(DutyCap, SendDelay)
=============================================================================
