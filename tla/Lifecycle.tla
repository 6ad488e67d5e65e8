------------------------------ MODULE Lifecycle ------------------------------
(***************************************************************************)
(* The life of a Meshtastic channel: Start and Stop, the lifecycle         *)
(* goroutine with its connection attempts and handshakes, the dispatcher,  *)
(* and the goroutines of an attempt: the one that closes the transport,    *)
(* the handshake watchdog and the serial heartbeat.                        *)
(*                                                                         *)
(* Time is left out: a timer may fire at any moment.  The transport is a   *)
(* serial port, or HTTP, which opens nothing before it is installed and    *)
(* has no heartbeat.  Submission.tla models what an attempt does to        *)
(* senders, SerialFraming.tla how a frame is read from a serial port.      *)
(***************************************************************************)
EXTENDS Naturals

CONSTANTS
    Transports,   \* of "serial" and "http"
    Starters,     \* calls of Start
    Stoppers,     \* calls of Stop
    MaxAttempts,  \* bound: connection attempts
    MaxConfigs    \* bound: want_config ids drawn

ASSUME BoundsAssumption ==
    /\ Transports \subseteq {"serial", "http"}
    /\ MaxAttempts \in Nat /\ MaxConfigs \in Nat

VARIABLES
    transport,         \* what newTransport makes
    started, stopped,  \* under lifecycleMu
    running,           \* BaseChannel.IsRunning
    runDone,           \* runCtx is done
    start, stop,       \* where each call is
    life,              \* where the lifecycle goroutine is
    dispatcher,        \* where the dispatcher goroutine is
    attempt,           \* the latest attempt, 0 before the first
    ended,             \* attempts whose context was cancelled
    closed,            \* attempts whose transport is closed
    port,              \* the serial port, or HTTP client, of each attempt
    watching,          \* attempts whose closing goroutine runs
    beating,           \* attempts whose heartbeat goroutine runs
    watchdog,          \* handshakeWatchdog, "none" for nil
    frame,             \* the frame runAttempt handles
    config,            \* attemptState.configID, drawn as 1, 2, ...
    gotMyInfo,         \* attemptState.gotMyInfo
    heard,             \* what the radio has answered to the current config id
    ready              \* channelState.ready, of the current attempt

callVars == <<transport, started, stopped, running, runDone, start, stop>>
transportVars == <<ended, closed, port, watching, beating>>
handshakeVars == <<config, gotMyInfo, heard, ready>>
attemptVars == <<attempt, transportVars, watchdog, frame, handshakeVars>>
vars == <<callVars, life, dispatcher, attemptVars>>

Attempts == 1 .. MaxAttempts
Configs == 1 .. MaxConfigs

\* The frames the handshake tells apart.  A config_complete_id may answer an
\* earlier want_config.
Frames == [kind : {"rebooted", "myInfo", "noNode", "other"}, id : {0}]
            \cup [kind : {"complete"}, id : Configs]
NoFrame == [kind |-> "none", id |-> 0]

Init ==
    /\ transport \in Transports
    /\ started = FALSE /\ stopped = FALSE /\ running = FALSE /\ runDone = FALSE
    /\ start = [c \in Starters |-> "idle"] /\ stop = [c \in Stoppers |-> "idle"]
    /\ life = "none" /\ dispatcher = "none"
    /\ attempt = 0 /\ ended = {} /\ closed = {}
    /\ port = [a \in Attempts |-> "none"]
    /\ watching = {} /\ beating = {} /\ watchdog = "none"
    /\ frame = NoFrame
    /\ config = 0 /\ gotMyInfo = FALSE /\ heard = {} /\ ready = FALSE

AttemptDone(a) == runDone \/ a \in ended

-----------------------------------------------------------------------------
(* Start and Stop. *)

\* Start, whole under lifecycleMu.
Start(c) ==
    /\ start[c] = "idle"
    /\ LET fresh == ~stopped /\ ~started
           again == ~stopped /\ started /\ ~runDone
       IN  /\ start' = [start EXCEPT ![c] = IF fresh \/ again THEN "ok" ELSE "refused"]
           /\ started' = (started \/ fresh)
           /\ running' = (running \/ fresh)
           /\ life' = IF fresh THEN "next" ELSE life
           /\ dispatcher' = IF fresh THEN "idle" ELSE dispatcher
           /\ stopped' = (stopped \/ (started /\ runDone))
    /\ UNCHANGED <<transport, runDone, stop, attemptVars>>

\* Stop's part under lifecycleMu.
Stop(c) ==
    /\ stop[c] = "idle"
    /\ stop' = [stop EXCEPT ![c] = IF ~stopped THEN "cancelling"
                                   ELSE IF started THEN "waiting" ELSE "returned"]
    /\ running' = (running /\ stopped)
    /\ stopped' = TRUE
    /\ UNCHANGED <<transport, started, runDone, start, life, dispatcher, attemptVars>>

\* Mutant: cancel is never called.
CancelNothing(c) ==
    /\ stop[c] = "cancelling"
    /\ stop' = [stop EXCEPT ![c] = IF started THEN "waiting" ELSE "returned"]
    /\ UNCHANGED <<transport, started, stopped, running, runDone, start, life, dispatcher,
                   attemptVars>>

\* Stop cancels runCtx, which exists once the channel was started.
CancelRun(c) ==
    /\ stop[c] = "cancelling"
    /\ runDone' = started
    /\ stop' = [stop EXCEPT ![c] = IF started THEN "waiting" ELSE "returned"]
    /\ UNCHANGED <<transport, started, stopped, running, start, life, dispatcher,
                   attemptVars>>

\* wg.Wait() is over.
StopReturns(c) ==
    /\ stop[c] = "waiting"
    /\ life = "gone" /\ dispatcher = "gone"
    /\ stop' = [stop EXCEPT ![c] = "returned"]
    /\ UNCHANGED <<transport, started, stopped, running, runDone, start, life, dispatcher,
                   attemptVars>>

\* The context given to Start ends.
EndRun ==
    /\ started /\ ~runDone
    /\ runDone' = TRUE
    /\ UNCHANGED <<transport, started, stopped, running, start, stop, life, dispatcher,
                   attemptVars>>

\* The dispatcher takes a prompt to the bus, and ends with runCtx.  A prompt
\* is taken only to be dropped when runCtx is done already.
Dispatch ==
    /\ \/ dispatcher = "idle" /\ ~runDone /\ dispatcher' = "busy"
       \/ dispatcher = "busy" /\ dispatcher' = "idle"
       \/ dispatcher = "idle" /\ runDone /\ dispatcher' = "gone"
    /\ UNCHANGED <<callVars, life, attemptVars>>

-----------------------------------------------------------------------------
(* The lifecycle goroutine. *)

GoTo(place) == life' = place

\* transport.Close, once: the port or client, if it is installed, is closed
\* with it.
Close(a) ==
    /\ closed' = closed \cup {a}
    /\ port' = IF a \notin closed /\ port[a] = "installed"
               THEN [port EXCEPT ![a] = "closed"] ELSE port

\* A new attempt gets its config id and its closing goroutine, and setAttempt
\* publishes it as not ready.
BeginAttempt ==
    /\ life = "next" /\ ~runDone
    /\ attempt < MaxAttempts /\ config < MaxConfigs
    /\ attempt' = attempt + 1
    /\ config' = config + 1 /\ gotMyInfo' = FALSE /\ heard' = {} /\ ready' = FALSE
    /\ watching' = watching \cup {attempt'}
    /\ GoTo("opening")
    /\ UNCHANGED <<callVars, dispatcher, ended, closed, port, beating, watchdog, frame>>

\* No random config id: lifecycle waits and tries again.
NoConfigID ==
    /\ life = "next" /\ ~runDone
    /\ GoTo("delay")
    /\ UNCHANGED <<callVars, dispatcher, attemptVars>>

\* The serial port is opened, or cannot be.
OpenPort ==
    /\ life = "opening" /\ transport = "serial"
    /\ \/ /\ ~AttemptDone(attempt)
          /\ port' = [port EXCEPT ![attempt] = "opened"] /\ GoTo("installing")
       \/ UNCHANGED port /\ GoTo("leaving")
    /\ UNCHANGED <<callVars, dispatcher, attempt, ended, closed, watching, beating,
                   watchdog, frame, handshakeVars>>

\* Mutant: a transport that is closed already gets its port.
InstallPortAnyway ==
    /\ life = "installing"
    /\ port' = [port EXCEPT ![attempt] = "installed"] /\ GoTo("asking")
    /\ UNCHANGED <<callVars, dispatcher, attempt, ended, closed, watching, beating,
                   watchdog, frame, handshakeVars>>

\* The opened port becomes the transport's, unless the context has ended or
\* the transport is closed already.  The context is looked at first.
InstallPort ==
    /\ life = "installing"
    /\ \/ /\ attempt \notin closed
          /\ port' = [port EXCEPT ![attempt] = "installed"] /\ GoTo("asking")
       \/ /\ AttemptDone(attempt) \/ attempt \in closed
          /\ port' = [port EXCEPT ![attempt] = "closed"] /\ GoTo("leaving")
    /\ UNCHANGED <<callVars, dispatcher, attempt, ended, closed, watching, beating,
                   watchdog, frame, handshakeVars>>

\* The HTTP client is made and installed at once, unless the transport is
\* closed already.  The context is looked at first.
InstallClient ==
    /\ life = "opening" /\ transport = "http"
    /\ \/ /\ attempt \notin closed
          /\ port' = [port EXCEPT ![attempt] = "installed"] /\ GoTo("asking")
       \/ /\ AttemptDone(attempt) \/ attempt \in closed
          /\ UNCHANGED port /\ GoTo("leaving")
    /\ UNCHANGED <<callVars, dispatcher, attempt, ended, closed, watching, beating,
                   watchdog, frame, handshakeVars>>

\* The heartbeat starts once in an attempt, over serial only.
Beats == life = "asking" /\ transport = "serial"

\* Mutant: no watchdog after a reboot.
AskConfigUnwatched ==
    /\ life \in {"asking", "askingAgain"} /\ attempt \notin closed
    /\ watchdog' = IF life = "asking" THEN "armed" ELSE watchdog
    /\ beating' = IF Beats THEN beating \cup {attempt} ELSE beating
    /\ GoTo("receiving")
    /\ UNCHANGED <<callVars, dispatcher, attempt, ended, closed, port, watching, frame,
                   handshakeVars>>

\* The wake preamble of serial and sendWantConfig, then the watchdog and the heartbeat;
\* or an error.  After a reboot only sendWantConfig, and a watchdog unless
\* there is one.
AskConfig ==
    /\ life \in {"asking", "askingAgain"}
    /\ \/ /\ attempt \notin closed
          /\ watchdog' = IF watchdog = "none" THEN "armed" ELSE watchdog
          /\ beating' = IF Beats THEN beating \cup {attempt} ELSE beating
          /\ GoTo("receiving")
       \/ UNCHANGED <<watchdog, beating>> /\ GoTo("leaving")
    /\ UNCHANGED <<callVars, dispatcher, attempt, ended, closed, port, watching, frame,
                   handshakeVars>>

\* ReceiveFromRadio returns a frame, which may answer any config asked for.
ReceiveFrame ==
    /\ life = "receiving" /\ attempt \notin closed
    /\ frame' \in {f \in Frames : f.id <= config}
    /\ GoTo("resetting")
    /\ UNCHANGED <<callVars, dispatcher, attempt, transportVars, watchdog, handshakeVars>>

\* ReceiveFromRadio returns an error.
ReceiveFails ==
    /\ life = "receiving"
    /\ GoTo("leaving")
    /\ UNCHANGED <<callVars, dispatcher, attemptVars>>

\* handshakeWatchdog.Reset, of a live watchdog.
ResetWatchdog ==
    /\ life = "resetting" /\ watchdog \in {"none", "armed"}
    /\ GoTo("handling")
    /\ UNCHANGED <<callVars, dispatcher, attemptVars>>

\* Reset finds the watchdog expired or done, or the context done.
ResetFails ==
    /\ life = "resetting" /\ watchdog # "none"
    /\ watchdog \in {"expiring", "expired", "ended"} \/ AttemptDone(attempt)
    /\ frame' = NoFrame
    /\ GoTo("leaving")
    /\ UNCHANGED <<callVars, dispatcher, attempt, transportVars, watchdog, handshakeVars>>

Handling(kind) ==
    /\ life = "handling" /\ frame.kind = kind
    /\ frame' = NoFrame
    /\ UNCHANGED <<callVars, dispatcher, attempt, transportVars, watchdog>>

\* Mutant: two config ids are drawn and only one is noticed.
HandleRebootTwoIds ==
    /\ Handling("rebooted")
    /\ config < MaxConfigs /\ config' = config + 2
    /\ gotMyInfo' = FALSE /\ heard' = {} /\ ready' = FALSE
    /\ GoTo("askingAgain")

\* The radio rebooted: the attempt is not ready, and asks again under a new
\* config id, or ends when none can be drawn.
HandleReboot ==
    /\ Handling("rebooted")
    /\ ready' = FALSE
    /\ \/ /\ config < MaxConfigs /\ config' = config + 1
          /\ gotMyInfo' = FALSE /\ heard' = {}
          /\ GoTo("askingAgain")
       \/ UNCHANGED <<config, gotMyInfo, heard>> /\ GoTo("leaving")

\* MyNodeInfo counts only with a node number.
HandleMyInfo ==
    /\ \/ Handling("myInfo") /\ gotMyInfo' = TRUE /\ heard' = heard \cup {"myInfo"}
       \/ Handling("noNode") /\ gotMyInfo' = FALSE /\ UNCHANGED heard
    /\ GoTo("receiving")
    /\ UNCHANGED <<config, ready>>

\* A frame the handshake does not look at.
HandleOther ==
    /\ Handling("other")
    /\ GoTo("receiving")
    /\ UNCHANGED handshakeVars

\* Mutant: any config_complete_id completes.
CompletesAny(id) == id \in Configs

\* A config_complete_id counts only for the current config id.
Completes(id) == id = config

\* config_complete_id: publishReady, and the watchdog is stopped when the
\* attempt was not ready before.  Without MyNodeInfo the attempt ends.
HandleComplete ==
    /\ Handling("complete")
    /\ IF Completes(frame.id)
       THEN /\ ready' = (ready \/ gotMyInfo)
            /\ GoTo(IF ~gotMyInfo THEN "leaving" ELSE IF ready THEN "receiving" ELSE "disarming")
       ELSE UNCHANGED ready /\ GoTo("receiving")
    /\ heard' = IF frame.id = config THEN heard \cup {"complete"} ELSE heard
    /\ UNCHANGED <<config, gotMyInfo>>

\* handshakeWatchdog.Stop() has seen the watchdog's goroutine end.
WatchdogStopped == watchdog \in {"ended", "expired"}

Disarm ==
    /\ life = "disarming" /\ WatchdogStopped
    /\ watchdog' = "none"
    /\ GoTo("receiving")
    /\ UNCHANGED <<callVars, dispatcher, attempt, transportVars, frame, handshakeVars>>

\* Mutant: the deferred cancel is missing.
LeaveUncancelled ==
    /\ life = "leaving"
    /\ GoTo("joining")
    /\ UNCHANGED <<callVars, dispatcher, attempt, transportVars, watchdog, frame, handshakeVars>>

\* runAttempt returns: its deferred calls first cancel the context for the
\* heartbeat, if there is one.
LeaveAttempt ==
    /\ life = "leaving"
    /\ ended' = IF transport = "serial" THEN ended \cup {attempt} ELSE ended
    /\ GoTo("joining")
    /\ UNCHANGED <<callVars, dispatcher, attempt, closed, port, watching, beating,
                   watchdog, frame, handshakeVars>>

\* Mutant: the heartbeat is not waited for.
JoinWatchdogOnly ==
    /\ life = "joining"
    /\ watchdog = "none" \/ WatchdogStopped
    /\ watchdog' = "none"
    /\ ended' = ended \cup {attempt}
    /\ Close(attempt)
    /\ GoTo("closing")
    /\ UNCHANGED <<callVars, dispatcher, attempt, watching, beating, frame, handshakeVars>>

\* The heartbeat and the watchdog have ended; the context is cancelled and the
\* transport closed.
JoinHelpers ==
    /\ life = "joining"
    /\ attempt \notin beating
    /\ watchdog = "none" \/ WatchdogStopped
    /\ watchdog' = "none"
    /\ ended' = ended \cup {attempt}
    /\ Close(attempt)
    /\ GoTo("closing")
    /\ UNCHANGED <<callVars, dispatcher, attempt, watching, beating, frame, handshakeVars>>

\* The closing goroutine has ended; teardownAttempt clears the state.
Teardown ==
    /\ life = "closing" /\ attempt \notin watching
    /\ ready' = FALSE
    /\ GoTo("delay")
    /\ UNCHANGED <<callVars, dispatcher, attempt, transportVars, watchdog, frame,
                   config, gotMyInfo, heard>>

\* reconnectDelay is over.
Reconnect ==
    /\ life = "delay" /\ ~runDone
    /\ GoTo("next")
    /\ UNCHANGED <<callVars, dispatcher, attemptVars>>

\* lifecycle returns: its deferred calls clear the running flag ...
EndLifecycle ==
    /\ life \in {"next", "delay"} /\ runDone
    /\ running' = FALSE
    /\ GoTo("exiting")
    /\ UNCHANGED <<transport, started, stopped, runDone, start, stop, dispatcher,
                   attemptVars>>

\* ... and then, under lifecycleMu, make the channel one-shot.
MarkStopped ==
    /\ life = "exiting"
    /\ stopped' = TRUE
    /\ GoTo("gone")
    /\ UNCHANGED <<transport, started, running, runDone, start, stop, dispatcher,
                   attemptVars>>

-----------------------------------------------------------------------------
(* The goroutines of an attempt. *)

\* The goroutine that closes the transport when the context is done.
WatchContext(a) ==
    /\ a \in watching /\ AttemptDone(a)
    /\ watching' = watching \ {a}
    /\ Close(a)
    /\ UNCHANGED <<callVars, life, dispatcher, attempt, ended, beating, watchdog, frame,
                   handshakeVars>>

\* heartbeatLoop ends with the context, or cancels it when a heartbeat fails.
EndHeartbeat(a) ==
    /\ a \in beating
    /\ \/ AttemptDone(a) /\ UNCHANGED ended
       \/ ended' = ended \cup {a}
    /\ beating' = beating \ {a}
    /\ UNCHANGED <<callVars, life, dispatcher, attempt, closed, port, watching, watchdog,
                   frame, handshakeVars>>

\* runAttempt waits in handshakeWatchdog.Stop().
Stopping == life \in {"disarming", "joining"}

WatchdogStep ==
    /\ \/ \* the context is done, or Stop was called
          /\ watchdog = "armed"
          /\ AttemptDone(attempt) \/ Stopping
          /\ watchdog' = "ended" /\ UNCHANGED <<closed, port>>
       \/ \* the timer fires
          /\ watchdog = "armed"
          /\ watchdog' = "expiring" /\ UNCHANGED <<closed, port>>
       \/ \* the expiry closes the transport
          /\ watchdog = "expiring"
          /\ watchdog' = "expired" /\ Close(attempt)
    /\ UNCHANGED <<callVars, life, dispatcher, attempt, ended, watching, beating, frame,
                   handshakeVars>>

-----------------------------------------------------------------------------

LifecycleStep ==
    \/ BeginAttempt \/ OpenPort \/ InstallPort \/ InstallClient \/ AskConfig
    \/ ResetWatchdog \/ ResetFails
    \/ HandleReboot \/ HandleMyInfo \/ HandleOther \/ HandleComplete
    \/ Disarm \/ LeaveAttempt \/ JoinHelpers \/ Teardown
    \/ Reconnect \/ EndLifecycle \/ MarkStopped

Next ==
    \/ \E c \in Starters : Start(c)
    \/ \E c \in Stoppers : Stop(c) \/ CancelRun(c) \/ StopReturns(c)
    \/ EndRun \/ Dispatch
    \/ LifecycleStep \/ NoConfigID \/ ReceiveFrame \/ ReceiveFails
    \/ \E a \in Attempts : WatchContext(a) \/ EndHeartbeat(a)
    \/ WatchdogStep

Spec == Init /\ [][Next]_vars

\* Goroutines are scheduled.  ReceiveFromRadio returns once its context is
\* done or its transport closed; that a frame or an error of its own ever
\* comes is not assumed.  The heartbeat and the watchdog end with the context,
\* and the random source does not fail forever.
Fairness ==
    /\ WF_vars(LifecycleStep) /\ SF_vars(BeginAttempt)
    /\ WF_vars((AttemptDone(attempt) \/ attempt \in closed) /\ ReceiveFails)
    /\ WF_vars(WatchdogStep /\ (AttemptDone(attempt) \/ Stopping \/ watchdog = "expiring"))
    /\ \A a \in Attempts : /\ WF_vars(WatchContext(a))
                           /\ WF_vars(AttemptDone(a) /\ EndHeartbeat(a))
    /\ \A c \in Stoppers : WF_vars(CancelRun(c)) /\ WF_vars(StopReturns(c))
    /\ WF_vars(Dispatch)

FairSpec == Spec /\ Fairness

-----------------------------------------------------------------------------

InAttempt ==
    {"opening", "installing", "asking", "askingAgain", "receiving", "resetting",
     "handling", "disarming", "leaving", "joining", "closing"}

TypeOK ==
    /\ transport \in Transports
    /\ started \in BOOLEAN /\ stopped \in BOOLEAN
    /\ running \in BOOLEAN /\ runDone \in BOOLEAN
    /\ start \in [Starters -> {"idle", "ok", "refused"}]
    /\ stop \in [Stoppers -> {"idle", "cancelling", "waiting", "returned"}]
    /\ life \in InAttempt \cup {"none", "next", "delay", "exiting", "gone"}
    /\ dispatcher \in {"none", "idle", "busy", "gone"}
    /\ attempt \in 0 .. MaxAttempts
    /\ ended \subseteq Attempts /\ closed \subseteq Attempts
    /\ watching \subseteq Attempts /\ beating \subseteq Attempts
    /\ port \in [Attempts -> {"none", "opened", "installed", "closed"}]
    /\ watchdog \in {"none", "armed", "expiring", "expired", "ended"}
    /\ frame \in Frames \cup {NoFrame}
    /\ config \in 0 .. MaxConfigs /\ gotMyInfo \in BOOLEAN
    /\ heard \subseteq {"myInfo", "complete"} /\ ready \in BOOLEAN

OpenPorts == {a \in Attempts : port[a] \in {"opened", "installed"}}

\* Stop returns only when nothing of the channel is left, and nothing comes
\* back afterwards: no goroutine, no open port, no published readiness.
StopIsFinal ==
    (\E c \in Stoppers : stop[c] = "returned") =>
        /\ life \in {"none", "gone"} /\ dispatcher \in {"none", "gone"}
        /\ watching = {} /\ beating = {} /\ watchdog \notin {"armed", "expiring"}
        /\ OpenPorts = {} /\ ~ready /\ ~running

\* At most one serial port or HTTP client is open, the one of the running attempt: neither a
\* failed attempt nor a Close that races with Open leaves the port taken.
OnePort == OpenPorts \subseteq {a \in {attempt} : life \in InAttempt}

\* Readiness is published only in an attempt whose radio has, since it was
\* asked last, said who it is and completed that very configuration.
ReadyIsConfigured == ready => life \in InAttempt /\ heard = {"myInfo", "complete"}

\* runAttempt receives under a watchdog exactly until it is ready, so that an
\* idle handshake cannot last and Stop is never called on a nil watchdog.
WatchedUntilReady ==
    /\ life \in {"receiving", "resetting", "handling"} => (watchdog = "none" <=> ready)
    /\ life = "disarming" => watchdog # "none"

\* Stop returns, whatever the attempt was doing.
StopTerminates == \A c \in Stoppers : stop[c] \in {"cancelling", "waiting"} ~> stop[c] = "returned"

\* A handshake that idles, or a heartbeat that fails, gives way to the next
\* attempt unless the channel ends first.
LostAttemptIsReplaced ==
    \A a \in Attempts : (a = attempt /\ a \in ended \cup closed) ~>
        (attempt > a \/ runDone \/ (life = "next" /\ (a = MaxAttempts \/ config = MaxConfigs)))
=============================================================================
