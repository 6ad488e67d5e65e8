------------------------- MODULE SubmissionInvariant -------------------------
(* The inductive invariant behind the safety properties of Submission. *)
EXTENDS Submission

\* Places of a call that holds sendGate.
Inside == {"waitReady", "waitPacing", "send", "zeroBytes", "waitAcceptance",
           "waitQueue", "waitRate", "waitDuty"}

\* m has registered packet i and not yet taken it out of the table.
Waits(m, i) == pc[m] \in {"send", "waitAcceptance"} /\ packet[m] = i

\* The radio will not transmit this packet, unless its bytes are written yet.
Dead == {"none", "full", "error", "rate", "duty", "dropped"}

\* sendGate is held by the one call that is inside, and only a call that is
\* over has a result.
GateInv ==
    /\ \A m \in Msgs : pc[m] \in Inside <=> gate = m
    /\ \A m \in Msgs : result[m] # "none" <=> pc[m] = "done"
    /\ \A m \in Msgs : result[m] = "ctx" => chunk[m] = 1

\* An entry of the table belongs to the call that waits for it.
TableInv ==
    /\ \A i \in Ids : pending[i].terminal = "none" => pending[i] = NoAcceptance
    /\ \A i \in Ids : pending[i].terminal # "none" <=> \E m \in Msgs : Waits(m, i)
    /\ \A m \in Msgs : pc[m] \in {"send", "waitAcceptance"} =>
            packet[m] \in Ids /\ owner[packet[m]] = [msg |-> m, chunk |-> chunk[m]]

\* What an entry says of its packet is what the radio did with it.
VerdictInv ==
    \A i \in Ids :
        /\ owner[i] = None => radio[i] = "none"
        /\ pending[i].queueOK => radio[i] \in Queued
        /\ pending[i].terminal = "accepted" => radio[i] \in Queued
        /\ pending[i].terminal = "queueFull" => radio[i] = "full"
        /\ pending[i].terminal \in {"rate", "duty"} => radio[i] = pending[i].terminal

\* While a chunk is tried, or after a context error, every packet of it but
\* the one being submitted is dead; later chunks have no packets.
SpentInv ==
    \A m \in Msgs, k \in Chunks : \A i \in PacketsOf(m, k) :
        /\ k <= chunk[m]
        /\ pc[m] \notin {"idle", "gate"} /\ result[m] # "notRunning"
        /\ k = chunk[m] /\ result[m] \in {"none", "ctx"} /\ ~Waits(m, i)
           => radio[i] \in Dead

\* Of the packets of one chunk at most one can reach the air.
OneAlive ==
    \A m \in Msgs, k \in Chunks : \A i, j \in PacketsOf(m, k) :
        i # j => radio[i] \in Dead \/ radio[j] \in Dead

\* Every chunk that is over has a packet the radio queued.
AcceptedInv ==
    \A m \in Msgs, k \in Chunks :
        k < chunk[m] \/ result[m] = "ok" => \E i \in PacketsOf(m, k) : radio[i] \in Queued

\* Attempts that are over are cancelled; snapshots and waiters name attempts
\* that were made.
LinkInv ==
    /\ \A a \in 1 .. MaxAttempts : a < attempt => a \in ended
    /\ link # "between" => attempt > 0
    /\ link \in {"between", "ending", "failing"} /\ attempt > 0 => attempt \in ended
    /\ published # "no" => attempt > 0
    /\ \A m \in Msgs :
        /\ snapshot[m] <= attempt
        /\ pc[m] \in {"waitPacing", "send", "waitAcceptance"} => snapshot[m] > 0
    /\ \A i \in Ids : pending[i].terminal # "none" =>
            pending[i].attempt > 0 /\ pending[i].attempt <= attempt

IInv ==
    /\ TypeOK
    /\ GateInv
    /\ TableInv
    /\ VerdictInv
    /\ SpentInv
    /\ OneAlive
    /\ AcceptedInv
    /\ LinkInv
=============================================================================
