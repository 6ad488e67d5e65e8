--------------------------- MODULE LifecycleProofs ---------------------------
(* Theorems about Lifecycle, for every number of Start and Stop calls,     *)
(* connection attempts and config ids, over serial and HTTP.               *)
EXTENDS Lifecycle, TLAPS

USE BoundsAssumption

-----------------------------------------------------------------------------
(* The inductive invariant. *)

\* A call of Stop has marked the channel, waits only for what was started, and
\* has returned only when there is nothing to wait for; the goroutines of a
\* channel exist from Start to the end of the run.
CallInv ==
    /\ started <=> life # "none"
    /\ started <=> dispatcher # "none"
    /\ runDone \/ running => started
    /\ dispatcher = "gone" => runDone
    /\ life \in {"exiting", "gone"} => runDone /\ ~running
    /\ \A c \in Stoppers :
        /\ stop[c] # "idle" => stopped
        /\ stop[c] = "waiting" => started
        /\ stop[c] = "returned" =>
             ~started \/ (life = "gone" /\ dispatcher = "gone")

\* Nothing is left of the attempts before the latest, nor of the latest once
\* it is torn down, and nothing of an attempt exists before it begins.
Over(a) == a < attempt \/ (a = attempt /\ life \notin InAttempt)

AttemptInv ==
    /\ life \in InAttempt => attempt # 0
    /\ life = "none" => attempt = 0
    /\ \A a \in Attempts :
        /\ Over(a) => a \notin watching \cup beating /\ port[a] \in {"none", "closed"}
        /\ a > attempt => a \notin ended \cup closed \cup watching \cup beating
                          /\ port[a] = "none"

\* How far the latest attempt has come with its port.  A port that is
\* installed closes with the transport, so a closed transport has none.
PortInv ==
    life \in InAttempt =>
        /\ life = "opening" => port[attempt] = "none"
        /\ life = "installing" => port[attempt] = "opened"
        /\ life \notin {"opening", "installing"} => port[attempt] # "opened"
        /\ port[attempt] = "installed" => attempt \notin closed
        /\ life = "closing" => attempt \in closed /\ attempt \notin beating
                               /\ port[attempt] # "installed"

\* The watchdog lives inside runAttempt, and guards it until it is ready.
WatchdogInv ==
    /\ watchdog # "none" =>
         life \in {"askingAgain", "receiving", "resetting", "handling", "disarming",
                   "leaving", "joining"}
    /\ life \in {"receiving", "resetting", "handling"} => (watchdog = "none" <=> ready)
    /\ life = "disarming" => watchdog # "none" /\ ready

\* What the channel knows of the radio was said since it was last asked.
ReadyInv ==
    /\ ready => life \in InAttempt \ {"opening", "installing", "asking", "askingAgain"}
    /\ ready => heard = {"myInfo", "complete"}
    /\ gotMyInfo => "myInfo" \in heard

Inv == TypeOK /\ CallInv /\ AttemptInv /\ PortInv /\ WatchdogInv /\ ReadyInv

-----------------------------------------------------------------------------
(* Type correctness. *)

\* There is a latest attempt while one runs, and while a watchdog exists.
LEMMA LatestAttempt ==
    ASSUME Inv
    PROVE  life \in InAttempt \/ watchdog # "none" => attempt \in Attempts
  BY DEF Inv, TypeOK, AttemptInv, WatchdogInv, InAttempt, Attempts

\* Closing a transport keeps the types of what it changes.
LEMMA CloseTypes ==
    ASSUME TypeOK, NEW a \in Attempts, Close(a)
    PROVE  /\ closed' \subseteq Attempts
           /\ port' \in [Attempts -> {"none", "opened", "installed", "closed"}]
<1>1. closed' \subseteq Attempts
  BY DEF TypeOK, Close
<1>2. port' \in [Attempts -> {"none", "opened", "installed", "closed"}]
  BY DEF TypeOK, Close
<1> QED BY <1>1, <1>2

LEMMA TypeStep == Inv /\ [Next]_vars => TypeOK'
<1> SUFFICES ASSUME Inv, [Next]_vars PROVE TypeOK'
  OBVIOUS
<1>0. TypeOK
  BY DEF Inv
<1> USE <1>0 DEF TypeOK, GoTo, InAttempt, Attempts, Configs, callVars, transportVars, handshakeVars, attemptVars
<1>1. ASSUME NEW c \in Starters, Start(c) PROVE TypeOK'
  BY <1>1 DEF Start
<1>2. ASSUME NEW c \in Stoppers, Stop(c) PROVE TypeOK'
  BY <1>2 DEF Stop
<1>3. ASSUME NEW c \in Stoppers, CancelRun(c) PROVE TypeOK'
  BY <1>3 DEF CancelRun
<1>4. ASSUME NEW c \in Stoppers, StopReturns(c) PROVE TypeOK'
  BY <1>4 DEF StopReturns
<1>5. ASSUME EndRun PROVE TypeOK'
  BY <1>5 DEF EndRun
<1>6. ASSUME Dispatch PROVE TypeOK'
  BY <1>6 DEF Dispatch
<1>7. ASSUME BeginAttempt PROVE TypeOK'
  <2>1. attempt' \in Attempts
    BY <1>7 DEF BeginAttempt
  <2>2. watching' \subseteq Attempts
    BY <1>7, <2>1 DEF BeginAttempt
  <2>3. attempt' \in 0 .. MaxAttempts /\ config' \in 0 .. MaxConfigs
    BY <1>7 DEF BeginAttempt
  <2> QED BY <1>7, <2>2, <2>3 DEF BeginAttempt
<1>8. ASSUME OpenPort PROVE TypeOK'
  BY <1>8 DEF OpenPort
<1>9. ASSUME InstallPort PROVE TypeOK'
  BY <1>9 DEF InstallPort
<1>10. ASSUME InstallClient PROVE TypeOK'
  BY <1>10 DEF InstallClient
<1>11. ASSUME AskConfig PROVE TypeOK'
  <2>1. beating' \subseteq Attempts
    BY <1>11, LatestAttempt DEF AskConfig
  <2> QED BY <1>11, <2>1 DEF AskConfig
<1>12. ASSUME ResetWatchdog PROVE TypeOK'
  BY <1>12 DEF ResetWatchdog
<1>13. ASSUME ResetFails PROVE TypeOK'
  BY <1>13 DEF ResetFails
<1>14. ASSUME HandleReboot PROVE TypeOK'
  <2>1. config' \in 0 .. MaxConfigs
    BY <1>14 DEF HandleReboot
  <2>2. gotMyInfo' \in BOOLEAN /\ heard' \subseteq {"myInfo", "complete"}
    BY <1>14 DEF HandleReboot
  <2> QED BY <1>14, <2>1, <2>2 DEF HandleReboot, Handling
<1>15. ASSUME HandleMyInfo PROVE TypeOK'
  <2>1. heard' \subseteq {"myInfo", "complete"}
    BY <1>15 DEF HandleMyInfo
  <2>2. gotMyInfo' \in BOOLEAN
    BY <1>15 DEF HandleMyInfo
  <2> QED BY <1>15, <2>1, <2>2 DEF HandleMyInfo, Handling
<1>16. ASSUME HandleOther PROVE TypeOK'
  BY <1>16 DEF HandleOther, Handling
<1>17. ASSUME HandleComplete PROVE TypeOK'
  BY <1>17 DEF HandleComplete, Handling
<1>18. ASSUME Disarm PROVE TypeOK'
  BY <1>18 DEF Disarm
<1>19. ASSUME LeaveAttempt PROVE TypeOK'
  <2>1. ended' \subseteq Attempts
    BY <1>19, LatestAttempt DEF LeaveAttempt
  <2> QED BY <1>19, <2>1 DEF LeaveAttempt
<1>20. ASSUME JoinHelpers PROVE TypeOK'
  <2>1. attempt \in Attempts /\ Close(attempt)
    BY <1>20, LatestAttempt DEF JoinHelpers
  <2>2. ended' \subseteq Attempts
    BY <1>20, <2>1 DEF JoinHelpers
  <2> QED BY <1>20, <2>1, <2>2, CloseTypes DEF JoinHelpers
<1>21. ASSUME Teardown PROVE TypeOK'
  BY <1>21 DEF Teardown
<1>22. ASSUME Reconnect PROVE TypeOK'
  BY <1>22 DEF Reconnect
<1>23. ASSUME EndLifecycle PROVE TypeOK'
  BY <1>23 DEF EndLifecycle
<1>24. ASSUME MarkStopped PROVE TypeOK'
  BY <1>24 DEF MarkStopped
<1>25. ASSUME NoConfigID PROVE TypeOK'
  BY <1>25 DEF NoConfigID
<1>26. ASSUME ReceiveFrame PROVE TypeOK'
  BY <1>26 DEF ReceiveFrame, Frames
<1>27. ASSUME ReceiveFails PROVE TypeOK'
  BY <1>27 DEF ReceiveFails
<1>28. ASSUME NEW a \in Attempts, WatchContext(a) PROVE TypeOK'
  BY <1>28, CloseTypes DEF WatchContext
<1>29. ASSUME NEW a \in Attempts, EndHeartbeat(a) PROVE TypeOK'
  <2>1. ended' \subseteq Attempts /\ beating' \subseteq Attempts
    BY <1>29 DEF EndHeartbeat
  <2> QED BY <1>29, <2>1 DEF EndHeartbeat
<1>30. ASSUME WatchdogStep PROVE TypeOK'
  <2>1. CASE UNCHANGED <<closed, port>>
    BY <1>30, <2>1 DEF WatchdogStep
  <2>2. CASE watchdog = "expiring" /\ watchdog' = "expired" /\ Close(attempt)
    BY <1>30, <2>2, CloseTypes, LatestAttempt DEF WatchdogStep
  <2> QED BY <1>30, <2>1, <2>2 DEF WatchdogStep
<1>31. CASE UNCHANGED vars
  BY <1>31 DEF vars
<1> QED
  BY <1>1, <1>2, <1>3, <1>4, <1>5, <1>6, <1>7, <1>8, <1>9, <1>10, <1>11, <1>12, <1>13, <1>14, <1>15, <1>16, <1>17, <1>18, <1>19, <1>20, <1>21, <1>22, <1>23, <1>24, <1>25, <1>26, <1>27, <1>28, <1>29, <1>30, <1>31 DEF Next, LifecycleStep

LEMMA InitInv == Init => Inv
<1> SUFFICES ASSUME Init PROVE Inv
  OBVIOUS
<1>1. TypeOK
  <2>1. attempt \in 0 .. MaxAttempts /\ config \in 0 .. MaxConfigs
    BY DEF Init
  <2>2. frame \in Frames \cup {NoFrame}
    BY DEF Init
  <2>3. ended \subseteq Attempts /\ closed \subseteq Attempts
    BY DEF Init
  <2>4. watching \subseteq Attempts /\ beating \subseteq Attempts
    BY DEF Init
  <2> QED BY <2>1, <2>2, <2>3, <2>4 DEF Init, TypeOK
<1>2. CallInv
  BY DEF Init, CallInv
<1>3. AttemptInv /\ PortInv
  BY DEF Init, AttemptInv, PortInv, InAttempt, Over, Attempts
<1>4. WatchdogInv /\ ReadyInv
  BY DEF Init, WatchdogInv, ReadyInv
<1> QED BY <1>1, <1>2, <1>3, <1>4 DEF Inv

-----------------------------------------------------------------------------
(* The calls and the goroutines of the channel. *)

\* The lifecycle goroutine changes no call and no other goroutine of the
\* channel until it ends.
LEMMA LifecycleGoesOn ==
    ASSUME LifecycleStep \/ NoConfigID \/ ReceiveFrame \/ ReceiveFails
    PROVE  \/ EndLifecycle \/ MarkStopped
           \/ /\ UNCHANGED <<callVars, dispatcher>>
              /\ life \notin {"none", "exiting", "gone"}
              /\ life' \notin {"none", "exiting", "gone"}
<1> USE DEF GoTo, Handling
<1>1. CASE BeginAttempt \/ OpenPort \/ InstallPort
  BY <1>1 DEF BeginAttempt, OpenPort, InstallPort
<1>2. CASE InstallClient \/ AskConfig \/ ResetWatchdog
  BY <1>2 DEF InstallClient, AskConfig, ResetWatchdog
<1>3. CASE ResetFails \/ HandleReboot \/ HandleMyInfo
  BY <1>3 DEF ResetFails, HandleReboot, HandleMyInfo
<1>4. CASE HandleOther \/ HandleComplete \/ Disarm
  BY <1>4 DEF HandleOther, HandleComplete, Disarm
<1>5. CASE LeaveAttempt \/ JoinHelpers \/ Teardown
  BY <1>5 DEF LeaveAttempt, JoinHelpers, Teardown
<1>6. CASE Reconnect \/ NoConfigID \/ ReceiveFrame
  BY <1>6 DEF Reconnect, NoConfigID, ReceiveFrame
<1>7. CASE ReceiveFails
  BY <1>7 DEF ReceiveFails
<1> QED BY <1>1, <1>2, <1>3, <1>4, <1>5, <1>6, <1>7 DEF LifecycleStep

\* The goroutines of an attempt leave the calls and the channel's own
\* goroutines alone.
LEMMA HelpersGoOn ==
    ASSUME WatchdogStep \/ \E a \in Attempts : WatchContext(a) \/ EndHeartbeat(a)
    PROVE  UNCHANGED <<callVars, life, dispatcher, attempt, frame, handshakeVars>>
  BY DEF WatchdogStep, WatchContext, EndHeartbeat

LEMMA CallStep == Inv /\ [Next]_vars => CallInv'
<1> SUFFICES ASSUME Inv, [Next]_vars PROVE CallInv'
  OBVIOUS
<1>0. TypeOK /\ CallInv
  BY DEF Inv
<1> USE <1>0 DEF TypeOK, CallInv, callVars
<1>1. ASSUME NEW c \in Starters, Start(c) PROVE CallInv'
  BY <1>1 DEF Start
<1>2. ASSUME NEW c \in Stoppers, Stop(c) PROVE CallInv'
  BY <1>2 DEF Stop
<1>3. ASSUME NEW c \in Stoppers, CancelRun(c) PROVE CallInv'
  BY <1>3 DEF CancelRun
<1>4. ASSUME NEW c \in Stoppers, StopReturns(c) PROVE CallInv'
  BY <1>4 DEF StopReturns
<1>5. ASSUME EndRun PROVE CallInv'
  BY <1>5 DEF EndRun
<1>6. ASSUME Dispatch PROVE CallInv'
  BY <1>6 DEF Dispatch
<1>7. ASSUME EndLifecycle PROVE CallInv'
  BY <1>7 DEF EndLifecycle, GoTo
<1>8. ASSUME MarkStopped PROVE CallInv'
  BY <1>8 DEF MarkStopped, GoTo
<1>9. CASE UNCHANGED <<callVars, dispatcher>> /\ life \notin {"none", "exiting", "gone"}
                                         /\ life' \notin {"none", "exiting", "gone"}
  BY <1>9
<1>10. CASE UNCHANGED <<callVars, dispatcher, life>>
  BY <1>10
<1> QED
  BY <1>1, <1>2, <1>3, <1>4, <1>5, <1>6, <1>7, <1>8, <1>9, <1>10, LifecycleGoesOn, HelpersGoOn DEF Next, vars

-----------------------------------------------------------------------------
(* The attempts, their ports and the handshake. *)

\* An attempt is torn down whole before the next one begins.
LEMMA AttemptStep == Inv /\ [Next]_vars => AttemptInv'
<1> SUFFICES ASSUME Inv, [Next]_vars PROVE AttemptInv'
  OBVIOUS
<1>0. TypeOK /\ CallInv /\ AttemptInv /\ PortInv /\ WatchdogInv
  BY DEF Inv
<1> USE <1>0 DEF TypeOK, CallInv, AttemptInv, PortInv, WatchdogInv, Over, InAttempt, Attempts, GoTo, callVars, transportVars, handshakeVars, attemptVars
<1>1. ASSUME NEW c \in Starters, Start(c) PROVE AttemptInv'
  BY <1>1 DEF Start
<1>2. ASSUME NEW c \in Stoppers, Stop(c) \/ CancelRun(c) \/ StopReturns(c) PROVE AttemptInv'
  BY <1>2 DEF Stop, CancelRun, StopReturns
<1>3. CASE EndRun \/ Dispatch
  BY <1>3 DEF EndRun, Dispatch
<1>4. ASSUME BeginAttempt PROVE AttemptInv'
  BY <1>4 DEF BeginAttempt
<1>5. ASSUME OpenPort PROVE AttemptInv'
  BY <1>5 DEF OpenPort
<1>6. ASSUME InstallPort PROVE AttemptInv'
  BY <1>6 DEF InstallPort
<1>7. ASSUME InstallClient PROVE AttemptInv'
  BY <1>7 DEF InstallClient
<1>8. ASSUME AskConfig PROVE AttemptInv'
  BY <1>8 DEF AskConfig
<1>9. ASSUME ResetWatchdog PROVE AttemptInv'
  BY <1>9 DEF ResetWatchdog
<1>10. ASSUME ResetFails PROVE AttemptInv'
  BY <1>10 DEF ResetFails
<1>11. ASSUME HandleReboot PROVE AttemptInv'
  BY <1>11 DEF HandleReboot, Handling
<1>12. ASSUME HandleMyInfo PROVE AttemptInv'
  BY <1>12 DEF HandleMyInfo, Handling
<1>13. ASSUME HandleOther PROVE AttemptInv'
  BY <1>13 DEF HandleOther, Handling
<1>14. ASSUME HandleComplete PROVE AttemptInv'
  BY <1>14 DEF HandleComplete, Handling
<1>15. ASSUME Disarm PROVE AttemptInv'
  BY <1>15 DEF Disarm
<1>16. ASSUME LeaveAttempt PROVE AttemptInv'
  BY <1>16 DEF LeaveAttempt
<1>17. ASSUME JoinHelpers PROVE AttemptInv'
  BY <1>17 DEF JoinHelpers, Close
<1>18. ASSUME Teardown PROVE AttemptInv'
  BY <1>18 DEF Teardown
<1>19. ASSUME Reconnect PROVE AttemptInv'
  BY <1>19 DEF Reconnect
<1>20. ASSUME EndLifecycle PROVE AttemptInv'
  BY <1>20 DEF EndLifecycle
<1>21. ASSUME MarkStopped PROVE AttemptInv'
  BY <1>21 DEF MarkStopped
<1>22. ASSUME NoConfigID PROVE AttemptInv'
  BY <1>22 DEF NoConfigID
<1>23. ASSUME ReceiveFrame PROVE AttemptInv'
  BY <1>23 DEF ReceiveFrame
<1>24. ASSUME ReceiveFails PROVE AttemptInv'
  BY <1>24 DEF ReceiveFails
<1>25. ASSUME NEW a \in Attempts, WatchContext(a) PROVE AttemptInv'
  BY <1>25 DEF WatchContext, Close
<1>26. ASSUME NEW a \in Attempts, EndHeartbeat(a) PROVE AttemptInv'
  BY <1>26 DEF EndHeartbeat
<1>27. ASSUME WatchdogStep PROVE AttemptInv'
  BY <1>27 DEF WatchdogStep, Close
<1>28. CASE UNCHANGED vars
  BY <1>28 DEF vars
<1> QED
  BY <1>1, <1>2, <1>3, <1>4, <1>5, <1>6, <1>7, <1>8, <1>9, <1>10, <1>11, <1>12, <1>13, <1>14, <1>15, <1>16, <1>17, <1>18, <1>19, <1>20, <1>21, <1>22, <1>23, <1>24, <1>25, <1>26, <1>27, <1>28 DEF Next, LifecycleStep

\* The port closes with the transport, whoever closes it and whenever.
LEMMA PortStep == Inv /\ [Next]_vars => PortInv'
<1> SUFFICES ASSUME Inv, [Next]_vars PROVE PortInv'
  OBVIOUS
<1>0. TypeOK /\ CallInv /\ AttemptInv /\ PortInv /\ WatchdogInv
  BY DEF Inv
<1> USE <1>0 DEF TypeOK, CallInv, AttemptInv, PortInv, WatchdogInv, Over, InAttempt, Attempts, GoTo, callVars, transportVars, handshakeVars, attemptVars
<1>1. ASSUME NEW c \in Starters, Start(c) PROVE PortInv'
  BY <1>1 DEF Start
<1>2. ASSUME NEW c \in Stoppers, Stop(c) \/ CancelRun(c) \/ StopReturns(c) PROVE PortInv'
  BY <1>2 DEF Stop, CancelRun, StopReturns
<1>3. CASE EndRun \/ Dispatch
  BY <1>3 DEF EndRun, Dispatch
<1>4. ASSUME BeginAttempt PROVE PortInv'
  BY <1>4 DEF BeginAttempt
<1>5. ASSUME OpenPort PROVE PortInv'
  BY <1>5 DEF OpenPort
<1>6. ASSUME InstallPort PROVE PortInv'
  BY <1>6 DEF InstallPort
<1>7. ASSUME InstallClient PROVE PortInv'
  BY <1>7 DEF InstallClient
<1>8. ASSUME AskConfig PROVE PortInv'
  BY <1>8 DEF AskConfig
<1>9. ASSUME ResetWatchdog PROVE PortInv'
  BY <1>9 DEF ResetWatchdog
<1>10. ASSUME ResetFails PROVE PortInv'
  BY <1>10 DEF ResetFails
<1>11. ASSUME HandleReboot PROVE PortInv'
  BY <1>11 DEF HandleReboot, Handling
<1>12. ASSUME HandleMyInfo PROVE PortInv'
  BY <1>12 DEF HandleMyInfo, Handling
<1>13. ASSUME HandleOther PROVE PortInv'
  BY <1>13 DEF HandleOther, Handling
<1>14. ASSUME HandleComplete PROVE PortInv'
  BY <1>14 DEF HandleComplete, Handling
<1>15. ASSUME Disarm PROVE PortInv'
  BY <1>15 DEF Disarm
<1>16. ASSUME LeaveAttempt PROVE PortInv'
  BY <1>16 DEF LeaveAttempt
<1>17. ASSUME JoinHelpers PROVE PortInv'
  BY <1>17 DEF JoinHelpers, Close
<1>18. ASSUME Teardown PROVE PortInv'
  BY <1>18 DEF Teardown
<1>19. ASSUME Reconnect PROVE PortInv'
  BY <1>19 DEF Reconnect
<1>20. ASSUME EndLifecycle PROVE PortInv'
  BY <1>20 DEF EndLifecycle
<1>21. ASSUME MarkStopped PROVE PortInv'
  BY <1>21 DEF MarkStopped
<1>22. ASSUME NoConfigID PROVE PortInv'
  BY <1>22 DEF NoConfigID
<1>23. ASSUME ReceiveFrame PROVE PortInv'
  BY <1>23 DEF ReceiveFrame
<1>24. ASSUME ReceiveFails PROVE PortInv'
  BY <1>24 DEF ReceiveFails
<1>25. ASSUME NEW a \in Attempts, WatchContext(a) PROVE PortInv'
  BY <1>25 DEF WatchContext, Close
<1>26. ASSUME NEW a \in Attempts, EndHeartbeat(a) PROVE PortInv'
  BY <1>26 DEF EndHeartbeat
<1>27. ASSUME WatchdogStep PROVE PortInv'
  BY <1>27 DEF WatchdogStep, Close
<1>28. CASE UNCHANGED vars
  BY <1>28 DEF vars
<1> QED
  BY <1>1, <1>2, <1>3, <1>4, <1>5, <1>6, <1>7, <1>8, <1>9, <1>10, <1>11, <1>12, <1>13, <1>14, <1>15, <1>16, <1>17, <1>18, <1>19, <1>20, <1>21, <1>22, <1>23, <1>24, <1>25, <1>26, <1>27, <1>28 DEF Next, LifecycleStep

\* The watchdog guards each handshake from its start until it is complete.
LEMMA WatchdogKept == Inv /\ [Next]_vars => WatchdogInv'
<1> SUFFICES ASSUME Inv, [Next]_vars PROVE WatchdogInv'
  OBVIOUS
<1>0. TypeOK /\ CallInv /\ WatchdogInv /\ ReadyInv
  BY DEF Inv
<1> USE <1>0 DEF TypeOK, CallInv, WatchdogInv, ReadyInv, InAttempt, GoTo, callVars, transportVars, handshakeVars, attemptVars
<1>1. ASSUME NEW c \in Starters, Start(c) PROVE WatchdogInv'
  BY <1>1 DEF Start
<1>2. ASSUME NEW c \in Stoppers, Stop(c) \/ CancelRun(c) \/ StopReturns(c) PROVE WatchdogInv'
  BY <1>2 DEF Stop, CancelRun, StopReturns
<1>3. CASE EndRun \/ Dispatch
  BY <1>3 DEF EndRun, Dispatch
<1>4. ASSUME BeginAttempt PROVE WatchdogInv'
  BY <1>4 DEF BeginAttempt
<1>5. ASSUME OpenPort PROVE WatchdogInv'
  BY <1>5 DEF OpenPort
<1>6. ASSUME InstallPort PROVE WatchdogInv'
  BY <1>6 DEF InstallPort
<1>7. ASSUME InstallClient PROVE WatchdogInv'
  BY <1>7 DEF InstallClient
<1>8. ASSUME AskConfig PROVE WatchdogInv'
  BY <1>8 DEF AskConfig
<1>9. ASSUME ResetWatchdog PROVE WatchdogInv'
  BY <1>9 DEF ResetWatchdog
<1>10. ASSUME ResetFails PROVE WatchdogInv'
  BY <1>10 DEF ResetFails
<1>11. ASSUME HandleReboot PROVE WatchdogInv'
  BY <1>11 DEF HandleReboot, Handling
<1>12. ASSUME HandleMyInfo PROVE WatchdogInv'
  BY <1>12 DEF HandleMyInfo, Handling
<1>13. ASSUME HandleOther PROVE WatchdogInv'
  BY <1>13 DEF HandleOther, Handling
<1>14. ASSUME HandleComplete PROVE WatchdogInv'
  BY <1>14 DEF HandleComplete, Handling
<1>15. ASSUME Disarm PROVE WatchdogInv'
  BY <1>15 DEF Disarm
<1>16. ASSUME LeaveAttempt PROVE WatchdogInv'
  BY <1>16 DEF LeaveAttempt
<1>17. ASSUME JoinHelpers PROVE WatchdogInv'
  BY <1>17 DEF JoinHelpers, Close
<1>18. ASSUME Teardown PROVE WatchdogInv'
  BY <1>18 DEF Teardown
<1>19. ASSUME Reconnect PROVE WatchdogInv'
  BY <1>19 DEF Reconnect
<1>20. ASSUME EndLifecycle PROVE WatchdogInv'
  BY <1>20 DEF EndLifecycle
<1>21. ASSUME MarkStopped PROVE WatchdogInv'
  BY <1>21 DEF MarkStopped
<1>22. ASSUME NoConfigID PROVE WatchdogInv'
  BY <1>22 DEF NoConfigID
<1>23. ASSUME ReceiveFrame PROVE WatchdogInv'
  BY <1>23 DEF ReceiveFrame
<1>24. ASSUME ReceiveFails PROVE WatchdogInv'
  BY <1>24 DEF ReceiveFails
<1>25. ASSUME NEW a \in Attempts, WatchContext(a) PROVE WatchdogInv'
  BY <1>25 DEF WatchContext, Close
<1>26. ASSUME NEW a \in Attempts, EndHeartbeat(a) PROVE WatchdogInv'
  BY <1>26 DEF EndHeartbeat
<1>27. ASSUME WatchdogStep PROVE WatchdogInv'
  BY <1>27 DEF WatchdogStep, Close
<1>28. CASE UNCHANGED vars
  BY <1>28 DEF vars
<1> QED
  BY <1>1, <1>2, <1>3, <1>4, <1>5, <1>6, <1>7, <1>8, <1>9, <1>10, <1>11, <1>12, <1>13, <1>14, <1>15, <1>16, <1>17, <1>18, <1>19, <1>20, <1>21, <1>22, <1>23, <1>24, <1>25, <1>26, <1>27, <1>28 DEF Next, LifecycleStep

\* A reboot or a new attempt makes the channel forget what it heard.
LEMMA ReadyStep == Inv /\ [Next]_vars => ReadyInv'
<1> SUFFICES ASSUME Inv, [Next]_vars PROVE ReadyInv'
  OBVIOUS
<1>0. TypeOK /\ CallInv /\ WatchdogInv /\ ReadyInv
  BY DEF Inv
<1> USE <1>0 DEF TypeOK, CallInv, WatchdogInv, ReadyInv, InAttempt, Completes, GoTo, callVars, transportVars, handshakeVars, attemptVars
<1>1. ASSUME NEW c \in Starters, Start(c) PROVE ReadyInv'
  BY <1>1 DEF Start
<1>2. ASSUME NEW c \in Stoppers, Stop(c) \/ CancelRun(c) \/ StopReturns(c) PROVE ReadyInv'
  BY <1>2 DEF Stop, CancelRun, StopReturns
<1>3. CASE EndRun \/ Dispatch
  BY <1>3 DEF EndRun, Dispatch
<1>4. ASSUME BeginAttempt PROVE ReadyInv'
  BY <1>4 DEF BeginAttempt
<1>5. ASSUME OpenPort PROVE ReadyInv'
  BY <1>5 DEF OpenPort
<1>6. ASSUME InstallPort PROVE ReadyInv'
  BY <1>6 DEF InstallPort
<1>7. ASSUME InstallClient PROVE ReadyInv'
  BY <1>7 DEF InstallClient
<1>8. ASSUME AskConfig PROVE ReadyInv'
  BY <1>8 DEF AskConfig
<1>9. ASSUME ResetWatchdog PROVE ReadyInv'
  BY <1>9 DEF ResetWatchdog
<1>10. ASSUME ResetFails PROVE ReadyInv'
  BY <1>10 DEF ResetFails
<1>11. ASSUME HandleReboot PROVE ReadyInv'
  BY <1>11 DEF HandleReboot, Handling
<1>12. ASSUME HandleMyInfo PROVE ReadyInv'
  BY <1>12 DEF HandleMyInfo, Handling
<1>13. ASSUME HandleOther PROVE ReadyInv'
  BY <1>13 DEF HandleOther, Handling
<1>14. ASSUME HandleComplete PROVE ReadyInv'
  BY <1>14 DEF HandleComplete, Handling
<1>15. ASSUME Disarm PROVE ReadyInv'
  BY <1>15 DEF Disarm
<1>16. ASSUME LeaveAttempt PROVE ReadyInv'
  BY <1>16 DEF LeaveAttempt
<1>17. ASSUME JoinHelpers PROVE ReadyInv'
  BY <1>17 DEF JoinHelpers, Close
<1>18. ASSUME Teardown PROVE ReadyInv'
  BY <1>18 DEF Teardown
<1>19. ASSUME Reconnect PROVE ReadyInv'
  BY <1>19 DEF Reconnect
<1>20. ASSUME EndLifecycle PROVE ReadyInv'
  BY <1>20 DEF EndLifecycle
<1>21. ASSUME MarkStopped PROVE ReadyInv'
  BY <1>21 DEF MarkStopped
<1>22. ASSUME NoConfigID PROVE ReadyInv'
  BY <1>22 DEF NoConfigID
<1>23. ASSUME ReceiveFrame PROVE ReadyInv'
  BY <1>23 DEF ReceiveFrame
<1>24. ASSUME ReceiveFails PROVE ReadyInv'
  BY <1>24 DEF ReceiveFails
<1>25. ASSUME NEW a \in Attempts, WatchContext(a) PROVE ReadyInv'
  BY <1>25 DEF WatchContext, Close
<1>26. ASSUME NEW a \in Attempts, EndHeartbeat(a) PROVE ReadyInv'
  BY <1>26 DEF EndHeartbeat
<1>27. ASSUME WatchdogStep PROVE ReadyInv'
  BY <1>27 DEF WatchdogStep, Close
<1>28. CASE UNCHANGED vars
  BY <1>28 DEF vars
<1> QED
  BY <1>1, <1>2, <1>3, <1>4, <1>5, <1>6, <1>7, <1>8, <1>9, <1>10, <1>11, <1>12, <1>13, <1>14, <1>15, <1>16, <1>17, <1>18, <1>19, <1>20, <1>21, <1>22, <1>23, <1>24, <1>25, <1>26, <1>27, <1>28 DEF Next, LifecycleStep

LEMMA InvHolds == Spec => []Inv
<1>1. Inv /\ [Next]_vars => Inv'
  BY TypeStep, CallStep, AttemptStep, PortStep, WatchdogKept, ReadyStep DEF Inv
<1> QED BY InitInv, <1>1, PTL DEF Spec

-----------------------------------------------------------------------------
(* What follows from it. *)

\* All variables keep their types in every behaviour; that needs the whole
\* invariant, since the latest attempt must exist where the code uses it.
THEOREM TypeCorrect == Spec => []TypeOK
<1>1. Inv => TypeOK
  BY DEF Inv
<1> QED BY InvHolds, <1>1, PTL

\* Once Stop has returned, nothing of the channel is left: Stop waits for the
\* lifecycle goroutine, which waits in turn for those of its attempts.
THEOREM StopEndsAll == Spec => []StopIsFinal
<1>1. Inv => StopIsFinal
  <2> SUFFICES ASSUME Inv, NEW c \in Stoppers, stop[c] = "returned" PROVE StopIsFinal
    BY DEF StopIsFinal
  <2>1. life \in {"none", "gone"} /\ dispatcher \in {"none", "gone"} /\ ~running
    BY DEF Inv, TypeOK, CallInv
  <2>2. \A a \in Attempts : a \notin watching \cup beating /\ port[a] \in {"none", "closed"}
    BY <2>1 DEF Inv, TypeOK, AttemptInv, Over, InAttempt, Attempts
  <2>3. watching = {} /\ beating = {} /\ OpenPorts = {}
    BY <2>2 DEF Inv, TypeOK, OpenPorts
  <2>4. watchdog = "none" /\ ~ready
    BY <2>1 DEF Inv, TypeOK, WatchdogInv, ReadyInv, InAttempt
  <2> QED BY <2>1, <2>3, <2>4 DEF StopIsFinal
<1> QED BY InvHolds, <1>1, PTL

\* Never are two ports open, or one without an attempt that will close it: a
\* transport closed while its port is opened gets none, and an attempt leaves
\* only with its transport closed.
THEOREM OnePortOpen == Spec => []OnePort
<1>1. Inv => OnePort
  BY DEF Inv, TypeOK, AttemptInv, Over, OnePort, OpenPorts, Attempts
<1> QED BY InvHolds, <1>1, PTL

\* Readiness rests on what the radio said since it was last asked: a reboot,
\* a stale config_complete_id or a former attempt cannot make it.
THEOREM ReadyMeansConfigured == Spec => []ReadyIsConfigured
<1>1. Inv => ReadyIsConfigured
  BY DEF Inv, ReadyInv, ReadyIsConfigured
<1> QED BY InvHolds, <1>1, PTL

\* An attempt that is not ready is watched, and one that is ready is not, at
\* every frame it receives; Stop is never called on a nil watchdog.
THEOREM HandshakeIsWatched == Spec => []WatchedUntilReady
<1>1. Inv => WatchedUntilReady
  BY DEF Inv, WatchdogInv, WatchedUntilReady
<1> QED BY InvHolds, <1>1, PTL

\* What a returned Stop leaves behind, down to the attempts' bookkeeping.
Remains == <<started, stopped, running, runDone, life, dispatcher, attemptVars>>

\* Once Stop has returned the channel takes no step any more, whatever is
\* called: Start is refused, another Stop finds nothing to end.
THEOREM NothingAfterStop ==
    Spec => [][(\E c \in Stoppers : stop[c] = "returned") => UNCHANGED Remains]_vars
<1>1. ASSUME Inv, StopIsFinal, [Next]_vars, NEW d \in Stoppers, stop[d] = "returned"
      PROVE  UNCHANGED Remains
  <2>0. /\ life \in {"none", "gone"} /\ dispatcher \in {"none", "gone"}
        /\ watching = {} /\ beating = {} /\ watchdog = "none" /\ ~running /\ stopped
        /\ runDone => started
        /\ started => life = "gone" /\ dispatcher = "gone" /\ runDone
    BY <1>1 DEF StopIsFinal, Inv, TypeOK, CallInv, WatchdogInv
  <2>1. ASSUME NEW c \in Starters, Start(c) PROVE UNCHANGED Remains
    <3>1. started \in BOOLEAN /\ stopped \in BOOLEAN /\ running \in BOOLEAN
      BY <1>1 DEF Inv, TypeOK
    <3>2. UNCHANGED <<started, stopped, running>>
      BY <2>0, <2>1, <3>1 DEF Start
    <3>3. UNCHANGED <<life, dispatcher>>
      BY <2>0, <2>1, <3>1 DEF Start
    <3> QED BY <2>1, <3>2, <3>3 DEF Start, Remains
  <2>2. ASSUME NEW c \in Stoppers, Stop(c) \/ CancelRun(c) \/ StopReturns(c)
        PROVE  UNCHANGED Remains
    BY <1>1, <2>0, <2>2 DEF Stop, CancelRun, StopReturns, Remains, Inv, TypeOK
  <2>3. ~EndRun /\ ~Dispatch
    BY <2>0 DEF EndRun, Dispatch
  <2>4. ~(LifecycleStep \/ NoConfigID \/ ReceiveFrame \/ ReceiveFails)
    BY <2>0, LifecycleGoesOn DEF EndLifecycle, MarkStopped
  <2>5. ~WatchdogStep /\ \A a \in Attempts : ~WatchContext(a) /\ ~EndHeartbeat(a)
    BY <2>0 DEF WatchdogStep, WatchContext, EndHeartbeat
  <2>6. CASE UNCHANGED vars
    BY <2>6 DEF vars, callVars, Remains
  <2> QED BY <1>1, <2>1, <2>2, <2>3, <2>4, <2>5, <2>6 DEF Next
<1>2. Inv /\ StopIsFinal /\ [Next]_vars =>
        [(\E c \in Stoppers : stop[c] = "returned") => UNCHANGED Remains]_vars
  BY <1>1
<1> QED BY InvHolds, StopEndsAll, <1>2, PTL DEF Spec
=============================================================================
