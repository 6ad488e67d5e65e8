---------------------------- MODULE InboundProofs ----------------------------
(* Theorems about Inbound, for every set of devices, nodes, names, packets *)
(* and policies, every queue size and every number of forgotten packets.   *)
EXTENDS Inbound, TLAPS

USE InboundAssumption, PacketAssumption, NoPromptAssumption

-----------------------------------------------------------------------------
(* The inductive invariant. *)

\* The prompts there are, in the queue, at the dispatcher and behind it.
Known == Queued \cup (IF dispatcher = "busy" THEN {busy} ELSE {}) \cup settled

\* A prompt is a copy from before the packet was last forgotten, or the one it
\* is remembered for: so one that is taken now is none of those.
CopyInv ==
    /\ \A q \in Known :
        \/ q.copy < forgets[q.key]
        \/ q.copy = forgets[q.key] /\ q.key \in seen
    /\ \A k \in Keys : forgets[k] <= forgotten

\* What the channel knows of the device is of the one that is attached.
OwnInv ==
    /\ ~up => attempt = NewAttempt /\ state = NoState
    /\ attempt.ownNode \in {node, None} /\ (attempt.gotMyInfo => attempt.ownNode = node)
    /\ state.ready => state.ownNode = node

Inv == TypeOK /\ CopyInv /\ EachPromptOnce /\ NothingVanishes /\ OwnInv

-----------------------------------------------------------------------------
(* Who changes what. *)

\* Only a prompt that is received, an entry that is forgotten and the
\* dispatcher touch the prompts and the memory of them.
LEMMA MemoryFrame ==
    ASSUME [Next]_vars
    PROVE  \/ Receive \/ ForgetSeen \/ TakePrompt \/ HandlePrompt \/ EndDispatcher
           \/ UNCHANGED <<seen, forgetVars, queue, settled, dispatcher, busy>>
<1> USE DEF dispatcherVars
<1>1. CASE Device
  BY <1>1 DEF Device, SwapDevice, Rename, Transmit
<1>2. CASE Connection
  BY <1>2 DEF Connection, Connect, LoseAttempt, HearMyInfo, HearNodeInfo, HearChannel, HearComplete, HearRebooted, Learn
<1>3. CASE CommitAccepted \/ ForgetSent \/ EndRun \/ UNCHANGED vars
  BY <1>3 DEF CommitAccepted, ForgetSent, EndRun, vars
<1> QED BY <1>1, <1>2, <1>3 DEF Next, Dispatch

\* Only the connection's own steps change what is known of the device, and
\* only a swap of devices changes who it is.
LEMMA ConnectionFrame ==
    ASSUME [Next]_vars
    PROVE  SwapDevice \/ Connection \/ UNCHANGED <<node, connectionVars>>
<1> USE DEF deviceVars
<1>1. CASE Device
  BY <1>1 DEF Device, SwapDevice, Rename, Transmit
<1>2. CASE Receive
  BY <1>2 DEF Receive, SeenOrAdd
<1>3. CASE CommitAccepted \/ ForgetSent \/ ForgetSeen
  BY <1>3 DEF CommitAccepted, ForgetSent, ForgetSeen
<1>4. CASE Dispatch
  BY <1>4 DEF Dispatch, TakePrompt, HandlePrompt, EndDispatcher
<1>5. CASE EndRun \/ UNCHANGED vars
  BY <1>5 DEF EndRun, vars
<1> QED BY <1>1, <1>2, <1>3, <1>4, <1>5 DEF Next

LEMMA PromptTypes ==
    ASSUME TypeOK, NEW p \in Packets
    PROVE  Key(p) \in Keys /\ Prompt(Key(p)) \in Prompts
  BY DEF TypeOK, Keys, Prompt, Prompts

-----------------------------------------------------------------------------
(* Type correctness. *)

\* The variables of the connection and of the bot, and those of the memory
\* and the dispatcher.
LinkTypeOK ==
    /\ node \in Devices /\ name \in Names /\ policy \in Policies /\ up \in BOOLEAN
    /\ attempt \in [ownNode : Devices \cup {None}, shortName : Names \cup {None},
                    channels : SUBSET Channels, gotMyInfo : BOOLEAN]
    /\ state \in [ready : BOOLEAN, ownNode : Devices \cup {None},
                  shortName : Names \cup {None}]
    /\ onAir \subseteq BotPackets /\ sentBot \subseteq BotPackets
    /\ runDone \in BOOLEAN

MemoryTypeOK ==
    /\ seen \subseteq Keys
    /\ forgets \in [Keys -> 0 .. MaxForgets] /\ forgotten \in 0 .. MaxForgets
    /\ queue \in Seq(Prompts) /\ Len(queue) <= QueueSize
    /\ dispatcher \in {"idle", "busy", "gone"}
    /\ busy \in Prompts \cup {None} /\ (busy # None <=> dispatcher = "busy")
    /\ settled \subseteq Prompts

LEMMA TypeParts == TypeOK <=> LinkTypeOK /\ MemoryTypeOK
  BY DEF TypeOK, LinkTypeOK, MemoryTypeOK

LEMMA LinkTypeStep == TypeOK /\ [Next]_vars => LinkTypeOK'
<1> SUFFICES ASSUME TypeOK, [Next]_vars PROVE LinkTypeOK'
  OBVIOUS
<1>0. LinkTypeOK
  BY TypeParts
<1> USE <1>0 DEF LinkTypeOK, deviceVars, connectionVars, botVars, dispatcherVars
<1>1. CASE SwapDevice \/ Rename
  BY <1>1 DEF SwapDevice, Rename
<1>2. CASE Transmit \/ CommitAccepted \/ ForgetSent
  BY <1>2 DEF Transmit, CommitAccepted, ForgetSent
<1>3. CASE Connect \/ LoseAttempt \/ HearRebooted
  <2>1. NewAttempt \in [ownNode : Devices \cup {None}, shortName : Names \cup {None},
                       channels : SUBSET Channels, gotMyInfo : BOOLEAN]
    BY DEF NewAttempt
  <2>2. NoState \in [ready : BOOLEAN, ownNode : Devices \cup {None}, shortName : Names \cup {None}]
    BY DEF NoState
  <2> QED BY <1>3, <2>1, <2>2 DEF Connect, LoseAttempt, HearRebooted, Learn
<1>4. CASE HearMyInfo \/ HearNodeInfo
  BY <1>4 DEF HearMyInfo, HearNodeInfo, Learn
<1>5. CASE HearChannel
  BY <1>5 DEF HearChannel, Learn
<1>6. CASE HearComplete
  BY <1>6 DEF HearComplete, Learn
<1>7. CASE Receive \/ ForgetSeen
  BY <1>7 DEF Receive, SeenOrAdd, ForgetSeen
<1>8. CASE Dispatch
  BY <1>8 DEF Dispatch, TakePrompt, HandlePrompt, EndDispatcher
<1>9. CASE EndRun \/ UNCHANGED vars
  BY <1>9 DEF EndRun, vars
<1> QED
  BY <1>1, <1>2, <1>3, <1>4, <1>5, <1>6, <1>7, <1>8, <1>9 DEF Next, Device, Connection

LEMMA MemoryTypeStep == TypeOK /\ CopyInv /\ [Next]_vars => MemoryTypeOK'
<1> SUFFICES ASSUME TypeOK, CopyInv, [Next]_vars PROVE MemoryTypeOK'
  OBVIOUS
<1>0. MemoryTypeOK
  BY TypeParts
<1> USE <1>0 DEF MemoryTypeOK, forgetVars, dispatcherVars
<1>1. ASSUME Receive PROVE MemoryTypeOK'
  <2>1. PICK p \in Packets : /\ SeenOrAdd(p)
                             /\ IF Len(queue) < QueueSize THEN Enqueue(p) ELSE Drop(p)
    BY <1>1 DEF Receive
  <2>2. Key(p) \in Keys /\ Prompt(Key(p)) \in Prompts
    BY PromptTypes
  <2>3. queue' \in Seq(Prompts) /\ Len(queue') <= QueueSize /\ settled' \subseteq Prompts
    <3>1. CASE Len(queue) < QueueSize /\ Enqueue(p)
      BY <2>2, <3>1 DEF Enqueue
    <3>2. CASE Drop(p)
      BY <2>2, <3>2 DEF Drop
    <3> QED BY <2>1, <3>1, <3>2
  <2> QED BY <2>1, <2>2, <2>3 DEF SeenOrAdd
<1>2. ASSUME ForgetSeen PROVE MemoryTypeOK'
  <2>1. PICK k \in seen : /\ seen' = seen \ {k}
                          /\ forgets' = [forgets EXCEPT ![k] = @ + 1]
    BY <1>2 DEF ForgetSeen
  <2>2. forgotten < MaxForgets /\ forgotten' = forgotten + 1
    BY <1>2 DEF ForgetSeen
  <2>3. forgets[k] + 1 \in 0 .. MaxForgets
    BY <2>1, <2>2 DEF CopyInv
  <2> QED BY <1>2, <2>1, <2>2, <2>3 DEF ForgetSeen
<1>3. ASSUME TakePrompt PROVE MemoryTypeOK'
  <2>1. Head(queue) \in Prompts /\ Tail(queue) \in Seq(Prompts) /\ Len(Tail(queue)) <= QueueSize
    BY <1>3 DEF TakePrompt
  <2> QED BY <1>3, <2>1 DEF TakePrompt
<1>4. ASSUME HandlePrompt PROVE MemoryTypeOK'
  BY <1>4 DEF HandlePrompt
<1>5. ASSUME EndDispatcher PROVE MemoryTypeOK'
  BY <1>5 DEF EndDispatcher
<1>6. CASE UNCHANGED <<seen, forgetVars, queue, settled, dispatcher, busy>>
  BY <1>6
<1> QED BY <1>1, <1>2, <1>3, <1>4, <1>5, <1>6, MemoryFrame

-----------------------------------------------------------------------------
(* The prompts. *)

\* A prompt that the channel takes for new is new.
LEMMA TakenIsNew ==
    ASSUME TypeOK, CopyInv, NEW p \in Packets, Key(p) \notin seen
    PROVE  Prompt(Key(p)) \notin Known
<1> SUFFICES ASSUME Prompt(Key(p)) \in Known PROVE FALSE
  OBVIOUS
<1>1. Prompt(Key(p)).key = Key(p) /\ Prompt(Key(p)).copy = forgets[Key(p)]
  BY DEF Prompt
<1>2. forgets[Key(p)] \in Nat
  BY PromptTypes DEF TypeOK
<1> QED BY <1>1, <1>2 DEF CopyInv

\* A prompt is appended behind the queue, and taken from its head.
LEMMA QueuedAfter ==
    ASSUME TypeOK
    PROVE  /\ \A q \in Prompts : queue' = Append(queue, q) => Queued' = Queued \cup {q}
           /\ queue # <<>> /\ queue' = Tail(queue) => Queued = Queued' \cup {Head(queue)}
<1>1. queue \in Seq(Prompts)
  BY DEF TypeOK
<1>2. ASSUME NEW q \in Prompts, queue' = Append(queue, q) PROVE Queued' = Queued \cup {q}
  <2>1. DOMAIN queue' = 1 .. Len(queue) + 1 /\ queue'[Len(queue) + 1] = q
    BY <1>1, <1>2
  <2>2. \A i \in 1 .. Len(queue) : queue'[i] = queue[i]
    BY <1>1, <1>2
  <2> QED BY <1>1, <2>1, <2>2 DEF Queued
<1>3. ASSUME queue # <<>>, queue' = Tail(queue) PROVE Queued = Queued' \cup {Head(queue)}
  <2>1. DOMAIN queue' = 1 .. Len(queue) - 1 /\ DOMAIN queue = 1 .. Len(queue)
    BY <1>1, <1>3
  <2>2. \A i \in 1 .. Len(queue) - 1 : queue'[i] = queue[i + 1]
    BY <1>1, <1>3
  <2>3. Head(queue) = queue[1] /\ 1 \in DOMAIN queue
    BY <1>1, <1>3
  <2>4. ASSUME NEW i \in DOMAIN queue, i # 1
        PROVE  i - 1 \in DOMAIN queue' /\ queue[i] = queue'[i - 1]
    <3>1. Len(queue) \in Nat /\ i \in 1 .. Len(queue)
      BY <1>1, <2>1
    <3>2. i - 1 \in 1 .. Len(queue) - 1 /\ (i - 1) + 1 = i
      BY <2>4, <3>1
    <3> QED BY <2>1, <2>2, <3>2
  <2>5. \A i \in DOMAIN queue' : i + 1 \in DOMAIN queue /\ queue'[i] = queue[i + 1]
    BY <1>1, <2>1, <2>2
  <2> QED BY <2>3, <2>4, <2>5 DEF Queued
<1> QED BY <1>2, <1>3

\* Known prompts are prompts; those in the queue and at the dispatcher are
\* known, and the dispatcher holds one exactly while it is busy.
LEMMA KnownPrompts ==
    ASSUME TypeOK
    PROVE  /\ Known \subseteq Prompts /\ Queued \subseteq Known
           /\ \A q \in Prompts : q \in Queued \cup {busy} \cup settled <=> q \in Known
  BY DEF TypeOK, Known, Queued

\* Only the receipt of a prompt makes a new one; the others go on unlost.
LEMMA KnownAfter ==
    ASSUME TypeOK, [Next]_vars
    PROVE  \/ \E p \in Packets : /\ SeenOrAdd(p)
                                /\ Known' = Known \cup {Prompt(Key(p))}
           \/ /\ ForgetSeen \/ UNCHANGED <<seen, forgetVars>>
              /\ Known' = Known
<1>1. ASSUME Receive
      PROVE  \E p \in Packets : SeenOrAdd(p) /\ Known' = Known \cup {Prompt(Key(p))}
  <2>1. PICK p \in Packets : /\ SeenOrAdd(p)
                             /\ IF Len(queue) < QueueSize THEN Enqueue(p) ELSE Drop(p)
    BY <1>1 DEF Receive
  <2>2. UNCHANGED <<dispatcher, busy>>
    BY <2>1 DEF SeenOrAdd, dispatcherVars
  <2>3. CASE Enqueue(p)
    <3>1. Queued' = Queued \cup {Prompt(Key(p))} /\ settled' = settled
      BY <2>3, QueuedAfter, PromptTypes DEF Enqueue
    <3>2. Known' = Known \cup {Prompt(Key(p))}
      BY <2>2, <3>1 DEF Known
    <3> QED BY <2>1, <3>2
  <2>4. CASE Drop(p)
    <3>1. Queued' = Queued /\ settled' = settled \cup {Prompt(Key(p))}
      BY <2>4 DEF Drop, Queued
    <3>2. Known' = Known \cup {Prompt(Key(p))}
      BY <2>2, <3>1 DEF Known
    <3> QED BY <2>1, <3>2
  <2> QED BY <2>1, <2>3, <2>4
<1>2. ASSUME TakePrompt PROVE Known' = Known /\ UNCHANGED <<seen, forgetVars>>
  <2>1. Queued = Queued' \cup {Head(queue)}
    BY <1>2, QueuedAfter DEF TakePrompt
  <2> QED BY <1>2, <2>1 DEF TakePrompt, Known
<1>3. ASSUME HandlePrompt PROVE Known' = Known /\ UNCHANGED <<seen, forgetVars>>
  BY <1>3 DEF HandlePrompt, Known, Queued
<1>4. CASE EndDispatcher \/ ForgetSeen
  BY <1>4 DEF EndDispatcher, ForgetSeen, Known, Queued, dispatcherVars
<1>5. CASE UNCHANGED <<seen, forgetVars, queue, settled, dispatcher, busy>>
  BY <1>5 DEF Known, Queued
<1> QED BY <1>1, <1>2, <1>3, <1>4, <1>5, MemoryFrame

LEMMA CopyStep == TypeOK /\ CopyInv /\ [Next]_vars => CopyInv'
<1> SUFFICES ASSUME TypeOK, CopyInv, [Next]_vars PROVE CopyInv'
  OBVIOUS
<1>0. /\ Known \subseteq Prompts /\ seen \subseteq Keys /\ forgotten \in Nat
      /\ forgets \in [Keys -> Nat]
  BY KnownPrompts DEF TypeOK
<1> USE <1>0 DEF Prompts, forgetVars
<1>1. ASSUME NEW p \in Packets, SeenOrAdd(p), Known' = Known \cup {Prompt(Key(p))}
      PROVE  CopyInv'
  BY <1>1 DEF CopyInv, SeenOrAdd, Prompt
<1>2. ASSUME ForgetSeen, Known' = Known PROVE CopyInv'
  <2>1. PICK k \in seen : /\ seen' = seen \ {k} /\ forgotten' = forgotten + 1
                          /\ forgets' = [forgets EXCEPT ![k] = @ + 1]
    BY <1>2 DEF ForgetSeen
  <2>2. ASSUME NEW q \in Known
        PROVE  q.copy < forgets'[q.key] \/ (q.copy = forgets'[q.key] /\ q.key \in seen')
    <3>1. q.key \in Keys /\ q.copy \in Nat
      OBVIOUS
    <3>2. CASE q.key = k
      BY <2>1, <3>1, <3>2 DEF CopyInv
    <3>3. CASE q.key # k
      BY <2>1, <3>1, <3>3 DEF CopyInv
    <3> QED BY <3>2, <3>3
  <2>3. \A j \in Keys : forgets'[j] <= forgotten'
    BY <2>1 DEF CopyInv
  <2> QED BY <1>2, <2>2, <2>3 DEF CopyInv
<1>3. CASE UNCHANGED <<seen, forgetVars>> /\ Known' = Known
  BY <1>3 DEF CopyInv
<1> QED BY <1>1, <1>2, <1>3, KnownAfter

LEMMA OnceStep == TypeOK /\ CopyInv /\ EachPromptOnce /\ [Next]_vars => EachPromptOnce'
<1> SUFFICES ASSUME TypeOK, CopyInv, EachPromptOnce, [Next]_vars PROVE EachPromptOnce'
  OBVIOUS
<1>0. /\ queue \in Seq(Prompts) /\ Known \subseteq Prompts /\ Queued \subseteq Prompts
      /\ settled \subseteq Prompts /\ None \notin Prompts
      /\ busy # None <=> dispatcher = "busy"
  BY KnownPrompts DEF TypeOK
<1>1. ASSUME Receive PROVE EachPromptOnce'
  <2>1. PICK p \in Packets : /\ SeenOrAdd(p)
                             /\ IF Len(queue) < QueueSize THEN Enqueue(p) ELSE Drop(p)
    BY <1>1 DEF Receive
  <2> DEFINE q == Prompt(Key(p))
  <2>2. q \in Prompts /\ q \notin Queued \cup {busy} \cup settled /\ busy' = busy
    BY <2>1, TakenIsNew, PromptTypes, KnownPrompts DEF SeenOrAdd, dispatcherVars
  <2>3. CASE Enqueue(p)
    <3>1. Queued' = Queued \cup {q} /\ settled' = settled
      BY <2>2, <2>3, QueuedAfter DEF Enqueue
    <3>2. queue' = Append(queue, q)
      BY <2>3 DEF Enqueue
    <3>3. DOMAIN queue' = 1 .. Len(queue) + 1 /\ queue'[Len(queue) + 1] = q
          /\ \A i \in 1 .. Len(queue) : queue'[i] = queue[i] /\ queue'[i] \in Queued
      BY <1>0, <2>2, <3>2 DEF Queued
    <3>4. \A i, j \in DOMAIN queue' : queue'[i] = queue'[j] => i = j
      <4>1. \A i \in DOMAIN queue' : i = Len(queue) + 1 \/ i \in 1 .. Len(queue)
        BY <1>0, <3>3
      <4> QED BY <1>0, <2>2, <3>3, <4>1 DEF EachPromptOnce
    <3> QED BY <1>0, <2>2, <3>1, <3>4 DEF EachPromptOnce
  <2>4. CASE Drop(p)
    <3>1. queue' = queue /\ Queued' = Queued /\ settled' = settled \cup {q}
      BY <2>4 DEF Drop, Queued
    <3> QED BY <1>0, <2>2, <3>1 DEF EachPromptOnce
  <2> QED BY <2>1, <2>3, <2>4
<1>2. ASSUME TakePrompt PROVE EachPromptOnce'
  <2>1. /\ Queued = Queued' \cup {Head(queue)} /\ Head(queue) \in Queued /\ busy = None
        /\ queue # <<>> /\ queue' = Tail(queue)
    BY <1>0, <1>2, QueuedAfter DEF TakePrompt
  <2>2. /\ DOMAIN queue' = 1 .. Len(queue) - 1
        /\ \A i \in 1 .. Len(queue) - 1 : queue'[i] = queue[i + 1] /\ i + 1 \in DOMAIN queue
    BY <1>0, <2>1
  <2>3. Head(queue) = queue[1] /\ 1 \in DOMAIN queue
    BY <1>0, <2>1
  <2>4. \A i, j \in DOMAIN queue' : queue'[i] = queue'[j] => i = j
    BY <1>0, <2>2 DEF EachPromptOnce
  <2>5. Head(queue) \notin Queued'
    <3>1. \A i \in DOMAIN queue' : i + 1 # 1 /\ queue'[i] = queue[i + 1] /\ i + 1 \in DOMAIN queue
      BY <1>0, <2>2
    <3> QED BY <2>3, <3>1 DEF Queued, EachPromptOnce
  <2>6. CASE runDone
    BY <1>0, <1>2, <2>1, <2>4, <2>5, <2>6 DEF TakePrompt, EachPromptOnce
  <2>7. CASE ~runDone
    BY <1>0, <1>2, <2>1, <2>4, <2>5, <2>7 DEF TakePrompt, EachPromptOnce
  <2> QED BY <2>6, <2>7
<1>3. ASSUME HandlePrompt PROVE EachPromptOnce'
  BY <1>0, <1>3 DEF HandlePrompt, EachPromptOnce, Queued
<1>4. CASE EndDispatcher \/ ForgetSeen
  BY <1>4 DEF EndDispatcher, ForgetSeen, EachPromptOnce, Queued, dispatcherVars
<1>5. CASE UNCHANGED <<seen, forgetVars, queue, settled, dispatcher, busy>>
  BY <1>5 DEF EachPromptOnce, Queued
<1> QED BY <1>1, <1>2, <1>3, <1>4, <1>5, MemoryFrame

LEMMA VanishStep == TypeOK /\ MemoryTypeOK' /\ NothingVanishes /\ [Next]_vars => NothingVanishes'
<1> SUFFICES ASSUME TypeOK, MemoryTypeOK', NothingVanishes, [Next]_vars PROVE NothingVanishes'
  OBVIOUS
<1>1. \A k \in seen : Prompt(k) \in Known
  BY KnownPrompts DEF NothingVanishes, TypeOK, Prompt, Prompts
<1>2. \A k \in seen' : Prompt(k)' \in Known'
  <2>1. ASSUME NEW p \in Packets, SeenOrAdd(p), Known' = Known \cup {Prompt(Key(p))}
        PROVE  \A k \in seen' : Prompt(k)' \in Known'
    BY <1>1, <2>1 DEF SeenOrAdd, Prompt, forgetVars
  <2>2. ASSUME ForgetSeen, Known' = Known PROVE \A k \in seen' : Prompt(k)' \in Known'
    BY <1>1, <2>2 DEF ForgetSeen, Prompt, TypeOK
  <2>3. CASE UNCHANGED <<seen, forgetVars>> /\ Known' = Known
    BY <1>1, <2>3 DEF Prompt, forgetVars
  <2> QED BY <2>1, <2>2, <2>3, KnownAfter
<1>3. Known' \subseteq (Queued \cup {busy} \cup settled)'
  BY DEF Known
<1> QED BY <1>2, <1>3 DEF NothingVanishes

-----------------------------------------------------------------------------
(* The device. *)

LEMMA OwnStep == TypeOK /\ OwnInv /\ [Next]_vars => OwnInv'
<1> SUFFICES ASSUME TypeOK, OwnInv, [Next]_vars PROVE OwnInv'
  OBVIOUS
<1> USE DEF OwnInv, TypeOK, deviceVars, connectionVars
<1>1. ASSUME SwapDevice PROVE OwnInv'
  BY <1>1 DEF SwapDevice, NewAttempt, NoState
<1>2. CASE Connect \/ LoseAttempt \/ HearRebooted
  BY <1>2 DEF Connect, LoseAttempt, HearRebooted, Learn, NewAttempt, NoState
<1>3. ASSUME HearMyInfo PROVE OwnInv'
  BY <1>3 DEF HearMyInfo, Learn
<1>4. CASE HearNodeInfo \/ HearChannel
  BY <1>4 DEF HearNodeInfo, HearChannel, Learn
<1>5. ASSUME HearComplete PROVE OwnInv'
  BY <1>5 DEF HearComplete, Learn
<1>6. CASE UNCHANGED <<node, connectionVars>>
  BY <1>6
<1> QED BY <1>1, <1>2, <1>3, <1>4, <1>5, <1>6, ConnectionFrame DEF Connection

-----------------------------------------------------------------------------
(* The theorems. *)

LEMMA InvHolds == Spec => []Inv
<1>1. Init => Inv
  <2> SUFFICES ASSUME Init PROVE Inv
    OBVIOUS
  <2>1. /\ NewAttempt \in [ownNode : Devices \cup {None}, shortName : Names \cup {None},
                           channels : SUBSET Channels, gotMyInfo : BOOLEAN]
        /\ NoState \in [ready : BOOLEAN, ownNode : Devices \cup {None}, shortName : Names \cup {None}]
    BY DEF NewAttempt, NoState
  <2>2. TypeOK
    <3>1. LinkTypeOK
      BY <2>1 DEF Init, LinkTypeOK
    <3>2. forgets \in [Keys -> 0 .. MaxForgets]
      BY DEF Init
    <3>3. queue \in Seq(Prompts) /\ Len(queue) <= QueueSize
      BY DEF Init
    <3>4. seen \subseteq Keys /\ settled \subseteq Prompts
      BY DEF Init
    <3>5. MemoryTypeOK
      BY <3>2, <3>3, <3>4 DEF Init, MemoryTypeOK
    <3> QED BY <3>1, <3>5, TypeParts
  <2>3. Known = {} /\ Queued = {}
    BY DEF Init, Known, Queued
  <2>4. CopyInv /\ EachPromptOnce /\ NothingVanishes
    BY <2>3 DEF Init, CopyInv, EachPromptOnce, NothingVanishes
  <2>5. OwnInv
    BY DEF Init, OwnInv, NewAttempt, NoState
  <2> QED BY <2>2, <2>4, <2>5 DEF Inv
<1>2. Inv /\ [Next]_vars => Inv'
  <2> SUFFICES ASSUME Inv, [Next]_vars PROVE Inv'
    OBVIOUS
  <2>1. LinkTypeOK' /\ MemoryTypeOK'
    BY LinkTypeStep, MemoryTypeStep DEF Inv
  <2>2. TypeOK'
    BY <2>1 DEF TypeOK, LinkTypeOK, MemoryTypeOK
  <2> QED BY <2>1, <2>2, CopyStep, OnceStep, VanishStep, OwnStep DEF Inv
<1> QED BY <1>1, <1>2, PTL DEF Spec

\* All variables keep their types: the queue never exceeds its size, and the
\* dispatcher holds a prompt exactly while it is busy.
THEOREM TypeCorrect == Spec => []TypeOK
<1>1. Inv => TypeOK
  BY DEF Inv
<1> QED BY InvHolds, <1>1, PTL

\* However often the mesh repeats a packet, it is one prompt until inboundDedup
\* forgets it, whatever happens to connection, device and queue meanwhile.
THEOREM PromptedOnce == Spec => []EachPromptOnce
<1>1. Inv => EachPromptOnce
  BY DEF Inv
<1> QED BY InvHolds, <1>1, PTL

\* inboundDedup remembers nothing but prompts that were taken: a text that was
\* ignored for now is not held against a later copy.
THEOREM RememberedWasTaken == Spec => []NothingVanishes
<1>1. Inv => NothingVanishes
  BY DEF Inv
<1> QED BY InvHolds, <1>1, PTL

\* No text of the attached device is a prompt unless it withdrew its number: an
\* attempt that is ready was given that number, and knows no other since.
THEOREM NeverAnswersItself == Spec => []NeverSelf
<1>1. Inv => NeverSelf
  BY DEF Inv, OwnInv, NeverSelf, Withdrawn, IsPrompt, Heeded
<1> QED BY InvHolds, <1>1, PTL
=============================================================================
