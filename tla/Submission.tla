----------------------------- MODULE Submission -----------------------------
(***************************************************************************)
(* Outbound text of the Meshtastic channel: Channel.Send, sendPhysical and *)
(* waitAcceptance in the caller's goroutine, the acceptance table that the *)
(* receive loop fills from the radio's frames, and the connection attempts *)
(* of the lifecycle goroutine.  Time is left out: a timer may fire at any  *)
(* moment.  Pacing.tla models the timed waits of the same code.            *)
(*                                                                         *)
(* Each message is one call of Send in a goroutine of its own.  A message  *)
(* is split into the chunks 1..NumChunks; each chunk is submitted in one   *)
(* or more packets, and each packet has a random id.                       *)
(***************************************************************************)
EXTENDS Naturals

CONSTANTS
    Msgs,         \* the calls of Channel.Send
    NumChunks,    \* physical chunks of a message (at most 8 in the code)
    Ids,          \* packet ids newPacketID may draw
    MaxAttempts,  \* bound: connection attempts in one lifecycle
    None          \* no message, no packet

ASSUME ChunksAssumption == NumChunks \in Nat \ {0}
ASSUME AttemptsAssumption == MaxAttempts \in Nat \ {0}

Chunks == 1 .. NumChunks

ASSUME NoneAssumption ==
    None \notin Ids /\ None \notin Msgs /\ None \notin [msg : Msgs, chunk : Chunks]

VARIABLES
    pc,         \* where each Send call is
    chunk,      \* the chunk it submits
    packet,     \* the packet of the current sendPhysical iteration
    snapshot,   \* the attempt of the readySnapshot it took
    cancelled,  \* messages whose context has ended
    result,     \* what Send returned
    gate,       \* the message that holds sendGate
    owner,      \* the message and chunk each id was drawn for
    pending,    \* Channel.pending: the acceptance record of each id
    queue,      \* queueKnown and queueFree: "unknown", "full" or "room"
    attempt,    \* the latest connection attempt, 0 before the first
    ended,      \* attempts whose context was cancelled
    link,       \* where the lifecycle goroutine is
    published,  \* channelState.ready, and whether the route's channel is usable
    running,    \* BaseChannel.IsRunning
    runDone,    \* runCtx is done
    radio       \* what the radio has done with each packet

msgVars  == <<pc, chunk, packet, snapshot, result, gate>>
linkVars == <<attempt, ended, link, published>>
runVars  == <<running, runDone>>
tableVars == <<pending, queue>>
otherVars == <<cancelled, owner, tableVars, linkVars, runVars, radio>>
vars == <<msgVars, otherVars>>

Terminals == {"accepted", "queueFull", "rate", "duty", "permanent", "ambiguous"}

\* An entry of the table, its destination left out; terminal "none" stands
\* for an id that is not in the table.
Acceptance == [attempt : 0 .. MaxAttempts, queueOK : BOOLEAN, echoOK : BOOLEAN,
               terminal : Terminals \cup {"none", "pending"}]

NoAcceptance ==
    [attempt |-> 0, queueOK |-> FALSE, echoOK |-> FALSE, terminal |-> "none"]

(* What has become of a packet.  "wire": its bytes are with the transport; *)
(* "full" and "error": the radio refused it; "held": it is in the radio's  *)
(* queue; "sent": it was transmitted over LoRa; "rate", "duty", "dropped": *)
(* the radio gave it up without transmitting it.                           *)
RadioStates == {"none", "wire", "full", "error", "held", "sent", "rate", "duty", "dropped"}

Queued == {"held", "sent", "rate", "duty", "dropped"}

Init ==
    /\ pc = [m \in Msgs |-> "idle"]
    /\ chunk = [m \in Msgs |-> 1]
    /\ packet = [m \in Msgs |-> None]
    /\ snapshot = [m \in Msgs |-> 0]
    /\ cancelled = {}
    /\ result = [m \in Msgs |-> "none"]
    /\ gate = None
    /\ owner = [i \in Ids |-> None]
    /\ pending = [i \in Ids |-> NoAcceptance]
    /\ queue = "unknown"
    /\ attempt = 0 /\ ended = {} /\ link = "between" /\ published = "no"
    /\ running = TRUE /\ runDone = FALSE
    /\ radio = [i \in Ids |-> "none"]

AttemptDone(a) == runDone \/ a \in ended

(***************************************************************************)
(* The acceptance table.                                                   *)
(***************************************************************************)

IsPending(i) == pending[i].terminal = "pending"

\* Mutant: the last terminal kind wins.
FinishAnyway(i, kind) == [pending EXCEPT ![i].terminal = kind]

\* finishLocked: the first terminal kind stays.
Finish(i, kind) == IF IsPending(i)
                   THEN [pending EXCEPT ![i].terminal = kind]
                   ELSE pending

\* A waiter that has both its QueueStatus and its echo is accepted at once.
Confirm(i, w) ==
    [pending EXCEPT ![i] = IF w.queueOK /\ w.echoOK
                           THEN [w EXCEPT !.terminal = "accepted"] ELSE w]

\* Mutant: only a waiter still pending is removed.
DeletePendingOnly(i) == IF IsPending(i) THEN [pending EXCEPT ![i] = NoAcceptance] ELSE pending

Delete(i) == [pending EXCEPT ![i] = NoAcceptance]

\* newPacketID: a random nonzero id, not the previous one, not pending and
\* not in sentBot.  Drawn from 2^32, it is taken to be one never drawn before.
NewPacketIds == {i \in Ids : owner[i] = None}

(***************************************************************************)
(* Send and sendPhysical, in the caller's goroutine.                       *)
(***************************************************************************)

GoTo(m, place) == pc' = [pc EXCEPT ![m] = place]

\* sendPhysical's locals go out of scope.
Forget(m) ==
    /\ packet' = [packet EXCEPT ![m] = None]
    /\ snapshot' = [snapshot EXCEPT ![m] = 0]

\* Send returns an error and gives up sendGate.  A context error is returned
\* as it is only when no chunk was accepted before; everything else, also
\* ErrNotRunning, is wrapped in ErrSendFailed.
Fail(m, err) ==
    /\ GoTo(m, "done")
    /\ result' = [result EXCEPT ![m] = IF chunk[m] = 1 THEN err ELSE "failed"]
    /\ gate' = None
    /\ Forget(m)
    /\ UNCHANGED chunk

\* Mutant: one chunk too many.
CommitOneMore(m) ==
    /\ Forget(m)
    /\ GoTo(m, "waitReady")
    /\ chunk' = [chunk EXCEPT ![m] = @ + 1]
    /\ UNCHANGED <<result, gate>>

\* commitAccepted, then the next chunk of scanChunks or the end of Send.
Commit(m) ==
    /\ Forget(m)
    /\ IF chunk[m] < NumChunks
       THEN /\ GoTo(m, "waitReady")
            /\ chunk' = [chunk EXCEPT ![m] = @ + 1]
            /\ UNCHANGED <<result, gate>>
       ELSE /\ GoTo(m, "done")
            /\ result' = [result EXCEPT ![m] = "ok"]
            /\ gate' = None
            /\ UNCHANGED chunk

\* The next iteration of sendPhysical's loop, for the same chunk.
Retry(m) ==
    /\ GoTo(m, "waitReady")
    /\ Forget(m)
    /\ UNCHANGED <<chunk, result, gate>>

\* The call waits somewhere else, and nothing but its place changes.
MoveTo(m, place) == GoTo(m, place) /\ UNCHANGED <<chunk, packet, snapshot, result, gate>>

\* Send is called: refused unless the channel is running.  Route, reply id
\* and text are valid, and the message has at least one chunk.
CallSend(m) ==
    /\ pc[m] = "idle"
    /\ IF running
       THEN MoveTo(m, "gate")
       ELSE /\ GoTo(m, "done")
            /\ result' = [result EXCEPT ![m] = "notRunning"]
            /\ UNCHANGED <<chunk, packet, snapshot, gate>>
    /\ UNCHANGED otherVars

\* Mutant: the gate lets in a second call.
LockGateTwice(m) ==
    /\ pc[m] = "gate"
    /\ gate' = m
    /\ GoTo(m, "waitReady")
    /\ UNCHANGED <<chunk, packet, snapshot, result, otherVars>>

\* sendGate.Lock(), which no context can interrupt.
LockGate(m) ==
    /\ pc[m] = "gate" /\ gate = None
    /\ gate' = m
    /\ GoTo(m, "waitReady")
    /\ UNCHANGED <<chunk, packet, snapshot, result, otherVars>>

\* waitReady finds the attempt ready and copies it.
TakeSnapshot(m) ==
    /\ pc[m] = "waitReady" /\ published = "usable"
    /\ snapshot' = [snapshot EXCEPT ![m] = attempt]
    /\ GoTo(m, "waitPacing")
    /\ UNCHANGED <<chunk, packet, result, gate, otherVars>>

\* waitReady finds the attempt ready, without a usable channel for the route.
ChannelUnavailable(m) ==
    /\ pc[m] = "waitReady" /\ published = "unusable"
    /\ Fail(m, "failed")
    /\ UNCHANGED otherVars

\* Mutant: the wait ends with the channel only.
StopWaitingReadyByRunOnly(m) ==
    /\ pc[m] = "waitReady" /\ published = "no"
    /\ runDone /\ Fail(m, "failed")
    /\ UNCHANGED otherVars

\* Waiting for readiness ends with the context or with the channel.
StopWaitingReady(m) ==
    /\ pc[m] = "waitReady" /\ published = "no"
    /\ \/ m \in cancelled /\ Fail(m, "ctx")
       \/ runDone /\ Fail(m, "failed")
    /\ UNCHANGED otherVars

\* waitPacing is interrupted by the context.
StopPacing(m) ==
    /\ pc[m] = "waitPacing" /\ m \in cancelled
    /\ Fail(m, "ctx")
    /\ UNCHANGED otherVars

\* newPacketID, buildTextEnvelope or proto.Marshal fails.
CannotBuild(m) ==
    /\ pc[m] = "waitPacing"
    /\ Fail(m, "failed")
    /\ UNCHANGED otherVars

\* The packet gets its id and its acceptance record is registered, on the
\* attempt of the snapshot whatever has happened to that attempt since.
Register(m) ==
    /\ pc[m] = "waitPacing"
    /\ \E i \in NewPacketIds :
        /\ packet' = [packet EXCEPT ![m] = i]
        /\ owner' = [owner EXCEPT ![i] = [msg |-> m, chunk |-> chunk[m]]]
        /\ pending' = [pending EXCEPT ![i] =
                        [attempt |-> snapshot[m], queueOK |-> FALSE,
                         echoOK |-> FALSE, terminal |-> "pending"]]
    /\ GoTo(m, "send")
    /\ UNCHANGED <<chunk, snapshot, result, gate, cancelled, queue, linkVars,
                   runVars, radio>>

\* SendToRadio sees its context alive and writes the packet; its return comes
\* later.  context.AfterFunc passes the end of the attempt on from a goroutine of
\* its own, so the packet may still be written on an attempt that has ended.
WriteBytes(m) ==
    /\ pc[m] = "send" /\ radio[packet[m]] = "none"
    /\ m \notin cancelled
    /\ radio' = [radio EXCEPT ![packet[m]] = "wire"]
    /\ UNCHANGED <<msgVars, cancelled, owner, tableVars, linkVars, runVars>>

\* SendToRadio returns nil.
SendReturns(m) ==
    /\ pc[m] = "send" /\ radio[packet[m]] # "none"
    /\ MoveTo(m, "waitAcceptance")
    /\ UNCHANGED otherVars

\* Mutant: an error is retried whether or not a byte was written.
AfterAnySendError(m, kind, wrote) ==
    IF kind = "accepted" THEN Commit(m)
    ELSE IF m \in cancelled THEN Fail(m, "ctx")
    ELSE MoveTo(m, "zeroBytes")

\* What sendPhysical makes of SendToRadio's error, given the waiter's kind
\* and whether a byte was written.
AfterSendError(m, kind, wrote) ==
    IF kind = "accepted" THEN Commit(m)
    ELSE IF wrote THEN Fail(m, "failed")
    ELSE IF m \in cancelled THEN Fail(m, "ctx")
    ELSE MoveTo(m, "zeroBytes")

\* SendToRadio fails, before or after the first byte.  The waiter leaves the
\* table and the attempt of the snapshot is cancelled.
SendFails(m) ==
    /\ pc[m] = "send"
    /\ AfterSendError(m, Finish(packet[m], "ambiguous")[packet[m]].terminal,
                      radio[packet[m]] # "none")
    /\ pending' = Delete(packet[m])
    /\ ended' = ended \cup {snapshot[m]}
    /\ UNCHANGED <<cancelled, owner, queue, attempt, link, published, runVars, radio>>

\* No byte was written and the context was alive a moment ago: sendPhysical
\* looks at it again, and retries only when it still is.
RetryZeroBytes(m) ==
    /\ pc[m] = "zeroBytes"
    /\ IF m \in cancelled THEN Fail(m, "failed") ELSE Retry(m)
    /\ UNCHANGED otherVars

\* waitAcceptance: the quiet window after a successful QueueStatus is over.
QuietWindowEnds(m) ==
    /\ pc[m] = "waitAcceptance"
    /\ IsPending(packet[m]) /\ pending[packet[m]].queueOK
    /\ pending' = Finish(packet[m], "accepted")
    /\ UNCHANGED <<msgVars, cancelled, owner, queue, linkVars, runVars, radio>>

\* Mutant: silence counts as acceptance.
AcceptanceExpiresAccepted(m) ==
    /\ pc[m] = "waitAcceptance"
    /\ IsPending(packet[m])
    /\ pending' = Finish(packet[m], "accepted")
    /\ UNCHANGED <<msgVars, cancelled, owner, queue, linkVars, runVars, radio>>

\* waitAcceptance: the context, acceptanceTimeout or the attempt ends the wait.
AcceptanceExpires(m) ==
    /\ pc[m] = "waitAcceptance"
    /\ IsPending(packet[m])
    /\ pending' = Finish(packet[m], "ambiguous")
    /\ UNCHANGED <<msgVars, cancelled, owner, queue, linkVars, runVars, radio>>

\* sendPhysical's switch on the kind waitAcceptance returns.
Dispatch(m) ==
    /\ pc[m] = "waitAcceptance"
    /\ ~IsPending(packet[m])
    /\ LET kind == pending[packet[m]].terminal
       IN  CASE kind = "accepted"  -> Commit(m)
             [] kind = "queueFull" -> MoveTo(m, "waitQueue")
             [] kind = "rate"      -> MoveTo(m, "waitRate")
             [] kind = "duty"      -> MoveTo(m, "waitDuty")
             [] OTHER              -> Fail(m, "failed")
    /\ pending' = Delete(packet[m])
    /\ UNCHANGED <<cancelled, owner, queue, linkVars, runVars, radio>>

\* waitQueueRecovery: the radio has reported room.
QueueRecovers(m) ==
    /\ pc[m] = "waitQueue" /\ queue = "room"
    /\ Retry(m)
    /\ UNCHANGED otherVars

\* waitDutyRecovery's deadline, or notBefore after a rate limit, is reached.
DelayEnds(m) ==
    /\ pc[m] \in {"waitRate", "waitDuty"}
    /\ Retry(m)
    /\ UNCHANGED otherVars

\* Mutant: the wait ends with the context only.
StopRecoveryByContextOnly(m) ==
    /\ pc[m] \in {"waitQueue", "waitRate", "waitDuty"}
    /\ m \in cancelled /\ Fail(m, "ctx")
    /\ UNCHANGED otherVars

\* The wait before a retry is interrupted.  The rate-limit wait does not
\* look at runCtx.
StopRecovery(m) ==
    /\ pc[m] \in {"waitQueue", "waitRate", "waitDuty"}
    /\ \/ m \in cancelled /\ Fail(m, "ctx")
       \/ runDone /\ pc[m] # "waitRate" /\ Fail(m, "failed")
    /\ UNCHANGED otherVars

\* The caller's context ends.
CancelSend(m) ==
    /\ pc[m] \notin {"idle", "done"} /\ m \notin cancelled
    /\ cancelled' = cancelled \cup {m}
    /\ UNCHANGED <<msgVars, owner, tableVars, linkVars, runVars, radio>>

(***************************************************************************)
(* The lifecycle goroutine: attempts, and the frames they receive.         *)
(***************************************************************************)

\* lifecycle makes the next attempt; runAttempt publishes it as not ready,
\* opens its transport and asks for the configuration.
NewAttempt ==
    /\ link = "between" /\ ~runDone /\ attempt < MaxAttempts
    /\ attempt' = attempt + 1
    /\ link' = "receiving"
    /\ UNCHANGED <<msgVars, cancelled, owner, tableVars, ended, published, runVars, radio>>

\* The configuration is complete; the channel of the route is usable or not.
PublishReady ==
    /\ link = "receiving"
    /\ published' \in {"usable", "unusable"}
    /\ UNCHANGED <<msgVars, cancelled, owner, tableVars, attempt, ended, link, runVars, radio>>

\* A frame says the radio rebooted: invalidateAttempt clears the published
\* state first and fails the waiters later.
Reboot ==
    /\ link = "receiving"
    /\ link' = "rebooting"
    /\ published' = "no"
    /\ UNCHANGED <<msgVars, cancelled, owner, tableVars, attempt, ended, runVars, radio>>

\* Mutant: the context of the attempt stays alive.
EndAttemptUncancelled ==
    /\ link = "receiving"
    /\ link' = "ending"
    /\ UNCHANGED <<msgVars, cancelled, owner, tableVars, attempt, ended, published, runVars, radio>>

\* runAttempt returns, for an error of its own or because its context is
\* done: it cancels the context and closes the transport.
EndAttempt ==
    /\ link = "receiving"
    /\ link' = "ending"
    /\ ended' = ended \cup {attempt}
    /\ UNCHANGED <<msgVars, cancelled, owner, tableVars, attempt, published, runVars, radio>>

\* teardownAttempt clears the published state.
Invalidate ==
    /\ link = "ending"
    /\ link' = "failing"
    /\ published' = "no"
    /\ UNCHANGED <<msgVars, cancelled, owner, tableVars, attempt, ended, runVars, radio>>

\* failPending, the second half of invalidateAttempt.  After a reboot
\* sendWantConfig keeps the attempt going, or fails when its context is done.
FailPending ==
    /\ link \in {"rebooting", "failing"}
    /\ pending' = [i \in Ids |-> IF IsPending(i) /\ pending[i].attempt = attempt
                                 THEN [pending[i] EXCEPT !.terminal = "ambiguous"]
                                 ELSE pending[i]]
    /\ queue' = "unknown"
    /\ link' = IF link = "failing" THEN "between"
               ELSE IF AttemptDone(attempt) THEN "ending" ELSE "receiving"
    /\ ended' = IF link' = "ending" THEN ended \cup {attempt} ELSE ended
    /\ UNCHANGED <<msgVars, cancelled, owner, attempt, published, runVars, radio>>

\* recordQueueStatus, of a successful status about packet i.  It does not
\* look at the attempt.
RecordQueueOK(i) ==
    /\ link = "receiving" /\ radio[i] \in Queued
    /\ queue' \in {"full", "room"}
    /\ pending' = IF IsPending(i)
                  THEN Confirm(i, [pending[i] EXCEPT !.queueOK = TRUE])
                  ELSE pending
    /\ UNCHANGED <<msgVars, cancelled, owner, linkVars, runVars, radio>>

\* recordQueueStatus, of a refusal: TX queue full (result 32, no room), or
\* any other result.
RecordQueueRefusal(i) ==
    /\ link = "receiving" /\ radio[i] \in {"full", "error"}
    /\ queue' \in IF radio[i] = "full" THEN {"full"} ELSE {"full", "room"}
    /\ pending' = Finish(i, IF radio[i] = "full" THEN "queueFull" ELSE "permanent")
    /\ UNCHANGED <<msgVars, cancelled, owner, linkVars, runVars, radio>>

\* recordQueueStatus, of a status about no packet.
RecordQueueLevel ==
    /\ link = "receiving"
    /\ queue' \in {"full", "room"}
    /\ UNCHANGED <<msgVars, cancelled, owner, pending, linkVars, runVars, radio>>

\* recordPacketControl, of a routing error about packet i.
RecordRoutingError(i) ==
    /\ link = "receiving" /\ radio[i] \in {"rate", "duty", "dropped", "sent"}
    /\ pending[i].attempt = attempt
    /\ pending' = Finish(i, IF radio[i] \in {"rate", "duty"} THEN radio[i] ELSE "permanent")
    /\ UNCHANGED <<msgVars, cancelled, owner, queue, linkVars, runVars, radio>>

\* recordPacketControl, of the local echo of packet i.
RecordEcho(i) ==
    /\ link = "receiving" /\ radio[i] = "sent"
    /\ IsPending(i) /\ pending[i].attempt = attempt
    /\ pending' = Confirm(i, [pending[i] EXCEPT !.echoOK = TRUE])
    /\ UNCHANGED <<msgVars, cancelled, owner, queue, linkVars, runVars, radio>>

\* Stop, or the end of lifecycle, clears the running flag.
ClearRunning ==
    /\ running
    /\ running' = FALSE
    /\ UNCHANGED <<msgVars, cancelled, owner, tableVars, linkVars, runDone, radio>>

\* Stop, or the context given to Start, ends runCtx.
EndRun ==
    /\ ~runDone
    /\ runDone' = TRUE
    /\ UNCHANGED <<msgVars, cancelled, owner, tableVars, linkVars, running, radio>>

(***************************************************************************)
(* The radio, as the code relies on it: it says "queued" only of a packet  *)
(* it queued, echoes only what it transmits, and reports a rate or duty-   *)
(* cycle limit only for a packet it gives up.  What it says of a packet    *)
(* may be read late, more than once, in any order, or never.               *)
(***************************************************************************)

RadioStep(i, state) ==
    /\ radio' = [radio EXCEPT ![i] = state]
    /\ UNCHANGED <<msgVars, cancelled, owner, tableVars, linkVars, runVars>>

RadioTakes(i) ==
    radio[i] = "wire" /\ \E state \in {"full", "error", "held"} : RadioStep(i, state)

RadioTransmits(i) == radio[i] = "held" /\ RadioStep(i, "sent")

RadioGivesUp(i) ==
    radio[i] = "held" /\ \E state \in {"rate", "duty", "dropped"} : RadioStep(i, state)

(***************************************************************************)

SenderStep(m) ==
    \/ LockGate(m) \/ TakeSnapshot(m) \/ ChannelUnavailable(m)
    \/ StopWaitingReady(m) \/ StopPacing(m) \/ CannotBuild(m) \/ Register(m)
    \/ WriteBytes(m) \/ SendReturns(m) \/ SendFails(m) \/ RetryZeroBytes(m)
    \/ QuietWindowEnds(m) \/ AcceptanceExpires(m) \/ Dispatch(m)
    \/ QueueRecovers(m) \/ DelayEnds(m) \/ StopRecovery(m)

LinkStep ==
    NewAttempt \/ PublishReady \/ Reboot \/ EndAttempt \/ Invalidate \/ FailPending

FrameStep ==
    \/ RecordQueueLevel
    \/ \E i \in Ids : \/ RecordQueueOK(i) \/ RecordQueueRefusal(i)
                      \/ RecordRoutingError(i) \/ RecordEcho(i)

RadioNext == \E i \in Ids : RadioTakes(i) \/ RadioTransmits(i) \/ RadioGivesUp(i)

Next ==
    \/ \E m \in Msgs : CallSend(m) \/ CancelSend(m) \/ SenderStep(m)
    \/ LinkStep \/ FrameStep
    \/ ClearRunning \/ EndRun
    \/ RadioNext

Spec == Init /\ [][Next]_vars

\* Goroutines are scheduled, timers fire, and an attempt whose context is
\* done ends.  Nothing is assumed of the radio, the caller or Stop.
Fairness ==
    /\ \A m \in Msgs : WF_vars(SenderStep(m))
    /\ WF_vars(AttemptDone(attempt) /\ EndAttempt)
    /\ WF_vars(Invalidate)
    /\ WF_vars(FailPending)

FairSpec == Spec /\ Fairness

-----------------------------------------------------------------------------

CallTypeOK ==
    /\ pc \in [Msgs -> {"idle", "gate", "waitReady", "waitPacing", "send", "zeroBytes",
                        "waitAcceptance", "waitQueue", "waitRate", "waitDuty", "done"}]
    /\ chunk \in [Msgs -> Chunks]
    /\ packet \in [Msgs -> Ids \cup {None}]
    /\ snapshot \in [Msgs -> 0 .. MaxAttempts]
    /\ result \in [Msgs -> {"none", "ok", "ctx", "failed", "notRunning"}]
    /\ gate \in Msgs \cup {None}

\* Every variable keeps to its type.
TypeOK ==
    /\ CallTypeOK
    /\ cancelled \subseteq Msgs
    /\ owner \in [Ids -> [msg : Msgs, chunk : Chunks] \cup {None}]
    /\ pending \in [Ids -> Acceptance]
    /\ queue \in {"unknown", "full", "room"}
    /\ attempt \in 0 .. MaxAttempts
    /\ ended \subseteq 0 .. MaxAttempts
    /\ link \in {"between", "receiving", "rebooting", "ending", "failing"}
    /\ published \in {"no", "usable", "unusable"}
    /\ running \in BOOLEAN /\ runDone \in BOOLEAN
    /\ radio \in [Ids -> RadioStates]

PacketsOf(m, k) == {i \in Ids : owner[i] = [msg |-> m, chunk |-> k]}

\* No chunk of a message is transmitted twice: sendPhysical submits a chunk
\* again only after a failure that shows the radio will not transmit the
\* previous packet ("without duplicating LoRa submissions").
AtMostOnce ==
    \A m \in Msgs, k \in Chunks : \A i, j \in PacketsOf(m, k) :
        radio[i] = "sent" /\ radio[j] = "sent" => i = j

\* The acceptance table holds exactly the packet of the call that holds
\* sendGate, while that call is in SendToRadio or waitAcceptance: no path out
\* of sendPhysical leaves a waiter behind.
NoLeakedWaiter ==
    {i \in Ids : pending[i] # NoAcceptance} =
        {packet[m] : m \in {n \in Msgs : gate = n /\ pc[n] \in {"send", "waitAcceptance"}}}

\* A waiter is never left to nobody: a pending waiter is on the current
\* attempt, or on one whose context is done (failPending may have run before
\* the waiter was registered on a stale snapshot).
NoOrphanWaiter ==
    \A i \in Ids : IsPending(i) =>
        pending[i].attempt = attempt \/ AttemptDone(pending[i].attempt)

\* Send reports a bare context error, which a caller may retry, only when no
\* packet of the message has reached or can still reach the air.
ContextErrorMeansNothingSent ==
    \A m \in Msgs : result[m] = "ctx" =>
        \A k \in Chunks : \A i \in PacketsOf(m, k) : radio[i] \notin {"wire", "held", "sent"}

\* Send reports success only when the radio queued a packet of each chunk.
SuccessMeansQueued ==
    \A m \in Msgs : result[m] = "ok" =>
        \A k \in Chunks : \E i \in PacketsOf(m, k) : radio[i] \in Queued

\* Chunks go out in order: a chunk is written only when the radio has queued
\* a packet of each chunk before it.
ChunksInOrder ==
    \A m \in Msgs, k \in Chunks : \A i \in PacketsOf(m, k) : radio[i] # "none" =>
        \A before \in 1 .. k - 1 : \E j \in PacketsOf(m, before) : radio[j] \in Queued

\* The terminal kind of a waiter is decided once: whichever of the receive
\* loop, failPending, the timer and the sender comes first wins.
TerminalDecidedOnce ==
    [][\A i \in Ids : pending[i].terminal \in Terminals =>
            pending'[i].terminal \in {pending[i].terminal, "none"}]_vars

\* What a caller of Send sees of this module.
Promise == INSTANCE Delivery WITH
    air <- [m \in Msgs |-> [k \in Chunks |-> {i \in PacketsOf(m, k) : radio[i] = "sent"}]],
    accepted <- [m \in Msgs |-> IF result[m] = "ok" THEN NumChunks ELSE chunk[m] - 1],
    outcome <- result

\* Send, the receive loop and the attempts together keep Delivery's promise:
\* chunks in order, none twice, and no transmission after a result that says
\* nothing was sent.
KeepsPromise == Promise!Spec

\* Once runCtx is done every call of Send that was made returns, whatever it
\* was waiting for.
StopEndsSends ==
    \A m \in Msgs : runDone /\ pc[m] # "idle" ~> pc[m] = "done"

\* A call of Send that holds sendGate returns once its context ends, even if
\* the radio never answers again.
CancelEndsSend ==
    \A m \in Msgs : m \in cancelled /\ gate = m ~> pc[m] = "done"
=============================================================================
