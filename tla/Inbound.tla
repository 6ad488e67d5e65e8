------------------------------- MODULE Inbound -------------------------------
(***************************************************************************)
(* Text from the mesh on its way to the agent: what the channel knows of   *)
(* the device it is attached to, which packets it takes for prompts, the   *)
(* memory of packets already taken, and the bounded queue between the      *)
(* receive loop and the dispatcher.                                        *)
(*                                                                         *)
(* The receive loop handles one frame after the other, so a frame is one   *)
(* action.  The two caches are sets here, which may forget at any moment;  *)
(* BoundedCache.tla says when they do.  A handshake that completes out of  *)
(* turn is in Lifecycle.tla, what a frame does to senders in Submission.   *)
(***************************************************************************)
EXTENDS Naturals, Sequences

CONSTANTS
    Devices,     \* the nodes that may be attached
    Nodes,       \* all nodes
    Names,       \* short names the device may have
    Everyone,    \* broadcastNode
    None,        \* node 0, the empty name, no reply, no mention
    Channels,    \* channel indices of the device
    Indices,     \* channel_indices
    Allowed,     \* the senders allow_from permits
    Policies,    \* group_trigger: [mentionOnly, prefixes : BOOLEAN]
    Packets,     \* the text packets that may arrive
    BotPackets,  \* the packets the bot sends: [id, channel]
    QueueSize,   \* inboundQueueSize
    MaxForgets   \* bound: packets that inboundDedup forgets

ASSUME InboundAssumption ==
    /\ Devices \subseteq Nodes /\ Indices \subseteq Channels /\ Allowed \subseteq Nodes
    /\ None \notin Nodes \cup Names /\ Everyone \notin Nodes \cup {None}
    /\ QueueSize \in Nat \ {0} /\ MaxForgets \in Nat

\* A packet is a text: an optional prefix, an optional mention, and a body
\* that is empty, a command that is not allowed, or anything else.
ASSUME PacketAssumption ==
    Packets \subseteq [from : Nodes \cup {None}, id : Nat, to : Nodes \cup {Everyone, None},
                       channel : Channels, reply : {b.id : b \in BotPackets} \cup {None},
                       mention : Nodes \cup Names \cup {None}, prefix : BOOLEAN,
                       body : {"empty", "command", "words"}]

VARIABLES
    node, name,  \* the attached device: its number, its current short name
    up,          \* an attempt is connected
    attempt,     \* attemptState: ownNode, shortName, channels, gotMyInfo
    state,       \* channelState: ready, ownNode, shortName
    policy,      \* the group_trigger settings
    onAir,       \* packets of the bot that other nodes may have received
    sentBot,     \* packets of the bot that native replies are matched with
    seen,        \* inboundDedup
    forgets,     \* history: how often inboundDedup forgot each packet
    forgotten,   \* how often it forgot any, for the bound
    queue,       \* the prompts in c.inbound
    dispatcher,  \* "idle", "busy" or "gone"
    busy,        \* the prompt the dispatcher handles
    settled,     \* history: prompts handed to the agent, and those that were
                 \* dropped at a full queue, refused by the bus or given up by Stop
    runDone      \* runCtx is done

deviceVars == <<node, name, policy>>
connectionVars == <<up, attempt, state>>
botVars == <<onAir, sentBot>>
forgetVars == <<forgets, forgotten>>
dispatcherVars == <<dispatcher, busy, runDone>>
vars == <<deviceVars, connectionVars, botVars, seen, forgetVars, queue, settled, dispatcherVars>>

NoState == [ready |-> FALSE, ownNode |-> None, shortName |-> None]

\* attempt.channels holds the indices with a usable role.
NewAttempt == [ownNode |-> None, shortName |-> None, channels |-> {}, gotMyInfo |-> FALSE]

Key(p) == <<p.from, p.id>>
Keys == {Key(p) : p \in Packets}

\* A prompt, told apart from an earlier one of the same packet that
\* inboundDedup has forgotten.
Prompt(k) == [key |-> k, copy |-> forgets[k]]
Prompts == [key : Keys, copy : 0 .. MaxForgets]

ASSUME NoPromptAssumption == None \notin Prompts

Init ==
    /\ node \in Devices /\ name \in Names /\ policy \in Policies
    /\ up = FALSE /\ attempt = NewAttempt /\ state = NoState
    /\ onAir = {} /\ sentBot = {}
    /\ seen = {} /\ forgets = [k \in Keys |-> 0] /\ forgotten = 0
    /\ queue = <<>> /\ dispatcher = "idle" /\ busy = None
    /\ settled = {}
    /\ runDone = FALSE

-----------------------------------------------------------------------------
(* The device and the connection. *)

\* Another device is attached while there is no connection.
SwapDevice ==
    /\ ~up
    /\ \E n \in Devices \ {node} : node' = n
    /\ UNCHANGED <<name, policy, connectionVars, botVars, seen, forgetVars, queue, settled,
                   dispatcherVars>>

Rename ==
    /\ \E n \in Names \ {name} : name' = n
    /\ UNCHANGED <<node, policy, connectionVars, botVars, seen, forgetVars, queue, settled,
                   dispatcherVars>>

\* Mutant: each attempt has a memory of its own.
ConnectForgetting ==
    /\ ~up /\ ~runDone
    /\ up' = TRUE /\ attempt' = NewAttempt /\ seen' = {}
    /\ UNCHANGED <<state, deviceVars, botVars, forgetVars, queue, settled, dispatcherVars>>

\* The next attempt is open and has sent its want_config.
Connect ==
    /\ ~up /\ ~runDone
    /\ up' = TRUE /\ attempt' = NewAttempt
    /\ UNCHANGED <<state, deviceVars, botVars, seen, forgetVars, queue, settled, dispatcherVars>>

\* runAttempt returns, and teardownAttempt invalidates the state.
LoseAttempt ==
    /\ up
    /\ up' = FALSE /\ attempt' = NewAttempt /\ state' = NoState
    /\ UNCHANGED <<deviceVars, botVars, seen, forgetVars, queue, settled, dispatcherVars>>

\* A frame that changes only what the connection knows.
Learn(a, s) ==
    /\ up
    /\ attempt' = a /\ state' = s
    /\ UNCHANGED <<up, deviceVars, botVars, seen, forgetVars, queue, settled, dispatcherVars>>

\* Number 0 withdraws what was learned; a state that is ready stays so.
HearMyInfo ==
    \/ Learn([attempt EXCEPT !.ownNode = node, !.gotMyInfo = TRUE], state)
    \/ Learn([attempt EXCEPT !.ownNode = None, !.gotMyInfo = FALSE], state)

\* Only the device's own record counts, once its number is known.
HearNodeInfo ==
    /\ attempt.ownNode = node
    /\ Learn([attempt EXCEPT !.shortName = name], state)

HearChannel ==
    \E c \in Channels, usable \in BOOLEAN :
        Learn([attempt EXCEPT !.channels = IF usable THEN @ \cup {c} ELSE @ \ {c}], state)

\* Mutant: MyNodeInfo is not waited for.
HearCompleteUnchecked ==
    Learn(attempt, [ready |-> TRUE, ownNode |-> attempt.ownNode,
                    shortName |-> attempt.shortName])

\* config_complete_id: publishReady, also when it comes again.
HearComplete ==
    /\ attempt.gotMyInfo
    /\ Learn(attempt, [ready |-> TRUE, ownNode |-> attempt.ownNode,
                       shortName |-> attempt.shortName])

HearRebooted == Learn(NewAttempt, NoState)

-----------------------------------------------------------------------------
(* The bot's own packets. *)

Transmit ==
    /\ \E b \in BotPackets \ onAir : onAir' = onAir \cup {b}
    /\ UNCHANGED <<sentBot, deviceVars, connectionVars, seen, forgetVars, queue, settled,
                   dispatcherVars>>

CommitAccepted ==
    /\ \E b \in BotPackets \ sentBot : sentBot' = sentBot \cup {b}
    /\ UNCHANGED <<onAir, deviceVars, connectionVars, seen, forgetVars, queue, settled,
                   dispatcherVars>>

\* A packet is no longer recent.
ForgetSent ==
    /\ \E b \in sentBot : sentBot' = sentBot \ {b} /\ onAir' = onAir \ {b}
    /\ UNCHANGED <<deviceVars, connectionVars, seen, forgetVars, queue, settled, dispatcherVars>>

-----------------------------------------------------------------------------
(* handleInboundPacket. *)

Direct(p) == p.to = attempt.ownNode
Group(p) == p.to = Everyone

\* The early returns before the triggers.  A sender of 0 is the device.
Heeded(p) ==
    /\ state.ready /\ p.id # 0
    /\ p.from \notin {None, attempt.ownNode}
    /\ Direct(p) \/ Group(p)
    /\ p.channel \in attempt.channels
    /\ Group(p) => p.channel \in Indices
    /\ p.from \in Allowed

\* snapshotMentionIdentity: what was published.
MentionIdentity == {state.ownNode, state.shortName}

Mentioned(p) == p.mention # None /\ p.mention \in MentionIdentity

NativeReply(p) == [id |-> p.reply, channel |-> p.channel] \in sentBot

PrefixMatched(p) == p.prefix /\ policy.prefixes

Triggered(p) ==
    \/ Direct(p)
    \/ NativeReply(p)
    \/ Mentioned(p)
    \/ ~policy.mentionOnly /\ (policy.prefixes => PrefixMatched(p))

\* What is left once prefix and mention are removed: nothing, or a command
\* that is not allowed.  What is not removed hides the body.
Refused(p) ==
    /\ p.body # "words"
    /\ p.prefix => PrefixMatched(p)
    /\ p.mention # None => Mentioned(p)

\* A text that stands for a prompt, whether or not it came before.
IsPrompt(p) == Heeded(p) /\ Triggered(p) /\ ~Refused(p)

\* seenOrAdd of a prompt that is not remembered.
SeenOrAdd(p) ==
    /\ up /\ IsPrompt(p)
    /\ Key(p) \notin seen /\ seen' = seen \cup {Key(p)}
    /\ UNCHANGED <<deviceVars, connectionVars, botVars, forgetVars, dispatcherVars>>

Enqueue(p) == queue' = Append(queue, Prompt(Key(p))) /\ UNCHANGED settled

Drop(p) == settled' = settled \cup {Prompt(Key(p))} /\ UNCHANGED queue

\* Mutant: a prompt goes to the queue whatever it holds.
ReceiveUnbounded == \E p \in Packets : SeenOrAdd(p) /\ Enqueue(p)

\* Mutant: what is not for the bot, or not yet, is remembered all the same.
ReceiveRememberingAll ==
    \E p \in Packets :
        \/ SeenOrAdd(p) /\ IF Len(queue) < QueueSize THEN Enqueue(p) ELSE Drop(p)
        \/ /\ up /\ Heeded(p) /\ ~IsPrompt(p)
           /\ seen' = seen \cup {Key(p)}
           /\ UNCHANGED <<deviceVars, connectionVars, botVars, forgetVars, queue, settled,
                          dispatcherVars>>

\* A prompt goes to the queue, or is dropped when the queue is full.  Any
\* other text changes nothing here.
Receive ==
    \E p \in Packets :
        /\ SeenOrAdd(p)
        /\ IF Len(queue) < QueueSize THEN Enqueue(p) ELSE Drop(p)

\* An entry expires, or its slot is reused.
ForgetSeen ==
    /\ forgotten < MaxForgets /\ forgotten' = forgotten + 1
    /\ \E k \in seen :
        /\ seen' = seen \ {k} /\ forgets' = [forgets EXCEPT ![k] = @ + 1]
    /\ UNCHANGED <<deviceVars, connectionVars, botVars, queue, settled, dispatcherVars>>

-----------------------------------------------------------------------------
(* The dispatcher. *)

\* A prompt is taken from the queue; once runCtx is done it is given up.
TakePrompt ==
    /\ dispatcher = "idle" /\ queue # <<>>
    /\ queue' = Tail(queue)
    /\ IF runDone
       THEN dispatcher' = "gone" /\ settled' = settled \cup {Head(queue)} /\ UNCHANGED busy
       ELSE dispatcher' = "busy" /\ busy' = Head(queue) /\ UNCHANGED settled
    /\ UNCHANGED <<deviceVars, connectionVars, botVars, seen, forgetVars, runDone>>

\* HandleInboundContext returns, with an error or without.
HandlePrompt ==
    /\ dispatcher = "busy"
    /\ dispatcher' = "idle" /\ busy' = None
    /\ settled' = settled \cup {busy}
    /\ UNCHANGED <<deviceVars, connectionVars, botVars, seen, forgetVars, queue, runDone>>

\* Mutant: the dispatcher ends with the attempt.
EndDispatcherWithAttempt ==
    /\ dispatcher = "idle" /\ (runDone \/ ~up)
    /\ dispatcher' = "gone"
    /\ UNCHANGED <<deviceVars, connectionVars, botVars, seen, forgetVars, queue, settled, busy,
                   runDone>>

EndDispatcher ==
    /\ dispatcher = "idle" /\ runDone
    /\ dispatcher' = "gone"
    /\ UNCHANGED <<deviceVars, connectionVars, botVars, seen, forgetVars, queue, settled, busy,
                   runDone>>

EndRun ==
    /\ ~runDone
    /\ runDone' = TRUE
    /\ UNCHANGED <<deviceVars, connectionVars, botVars, seen, forgetVars, queue, settled,
                   dispatcher, busy>>

-----------------------------------------------------------------------------

Device == SwapDevice \/ Rename \/ Transmit
Connection ==
    \/ Connect \/ LoseAttempt \/ HearMyInfo \/ HearNodeInfo \/ HearChannel \/ HearComplete
    \/ HearRebooted
Dispatch == TakePrompt \/ HandlePrompt \/ EndDispatcher

Next ==
    \/ Device \/ Connection \/ Receive \/ CommitAccepted \/ ForgetSent \/ ForgetSeen
    \/ Dispatch \/ EndRun

Spec == Init /\ [][Next]_vars
FairSpec == Spec /\ WF_vars(Dispatch)

-----------------------------------------------------------------------------

TypeOK ==
    /\ node \in Devices /\ name \in Names /\ policy \in Policies /\ up \in BOOLEAN
    /\ attempt \in [ownNode : Devices \cup {None}, shortName : Names \cup {None},
                    channels : SUBSET Channels, gotMyInfo : BOOLEAN]
    /\ state \in [ready : BOOLEAN, ownNode : Devices \cup {None},
                  shortName : Names \cup {None}]
    /\ onAir \subseteq BotPackets /\ sentBot \subseteq BotPackets
    /\ seen \subseteq Keys
    /\ forgets \in [Keys -> 0 .. MaxForgets] /\ forgotten \in 0 .. MaxForgets
    /\ queue \in Seq(Prompts) /\ Len(queue) <= QueueSize
    /\ dispatcher \in {"idle", "busy", "gone"} /\ runDone \in BOOLEAN
    /\ busy \in Prompts \cup {None} /\ (busy # None <=> dispatcher = "busy")
    /\ settled \subseteq Prompts

Queued == {queue[i] : i \in DOMAIN queue}

\* A packet the mesh repeats becomes a prompt once for as long as it is
\* remembered, over reboots, new attempts and other devices, also when its
\* first copy was dropped or failed.
EachPromptOnce ==
    /\ \A i, j \in DOMAIN queue : queue[i] = queue[j] => i = j
    /\ (Queued \cup {busy}) \cap settled = {}
    /\ busy \notin Queued

\* What is remembered was a prompt, and it waits, is handled, or was handed over
\* or dropped: no copy of a packet that was ignored for now keeps a
\* later copy from the agent.
NothingVanishes ==
    \A k \in seen : Prompt(k) \in Queued \cup {busy} \cup settled

\* The device gave its number in the handshake, and 0 since.
Withdrawn == state.ownNode = node /\ attempt.ownNode = None

\* The device's own packets are no prompts, echoes of the bot's answers least
\* of all, whichever device was attached before.  Only a device that withdraws
\* its number after readiness is no longer known by its packets.
NeverSelf == up /\ ~Withdrawn => \A p \in Packets : IsPrompt(p) => p.from # node

\* A full queue has room again, though the mesh sends on and the bus refuses
\* some prompts: it does not drop what comes for ever.
QueueDrains == Len(queue) = QueueSize ~> (Len(queue) < QueueSize \/ runDone)

\* A group text that the triggers let pass unheard.
Unheard(p) == up /\ Heeded(p) /\ ~Triggered(p)

\* The channel "falls back to the current Meshtastic short name": a mention
\* of the name the device announced last is heard, also when it announced
\* another one in the handshake.
CurrentNameTriggers ==
    \A p \in Packets : Unheard(p) /\ p.mention \in Names /\ state.shortName # None
                        => p.mention # attempt.shortName

\* "A native reply to a recent bot packet" is heard, that is to a packet
\* that other nodes have received.
NativeReplyTriggers ==
    \A p \in Packets : Unheard(p) => [id |-> p.reply, channel |-> p.channel] \notin onAir
=============================================================================
