------------------------------ MODULE Delivery ------------------------------
(***************************************************************************)
(* What the channel promises the caller of Send, without saying how: a     *)
(* message goes out chunk by chunk, no chunk twice, and Send's result says *)
(* what may have been, or may still be, transmitted.                       *)
(***************************************************************************)
EXTENDS Naturals

CONSTANTS Msgs, NumChunks, Ids

Chunks == 1 .. NumChunks

VARIABLES
    air,       \* the packets transmitted for each chunk of each message
    accepted,  \* how many chunks of each message the radio has accepted
    outcome    \* what Send returned

vars == <<air, accepted, outcome>>

Init ==
    /\ air = [m \in Msgs |-> [k \in Chunks |-> {}]]
    /\ accepted = [m \in Msgs |-> 0]
    /\ outcome = [m \in Msgs |-> "none"]

\* The next chunk is accepted; with the last one Send succeeds.
Accept(m) ==
    /\ outcome[m] = "none" /\ accepted[m] < NumChunks
    /\ accepted' = [accepted EXCEPT ![m] = @ + 1]
    /\ outcome' = [outcome EXCEPT ![m] = IF accepted'[m] = NumChunks THEN "ok" ELSE "none"]
    /\ UNCHANGED air

\* Send gives up.  "ctx" and "notRunning" promise that nothing went out.
GiveUp(m, err) ==
    /\ outcome[m] = "none"
    /\ err # "failed" => accepted[m] = 0 /\ \A k \in Chunks : air[m][k] = {}
    /\ outcome' = [outcome EXCEPT ![m] = err]
    /\ UNCHANGED <<air, accepted>>

\* A packet goes out: the first one of its chunk, of a message whose earlier
\* chunks are accepted.  It may go out after Send has returned, but not after
\* a result that says nothing was sent.
Transmit(m, k, i) ==
    /\ outcome[m] \in {"none", "ok", "failed"}
    /\ k <= accepted[m] + 1
    /\ air[m][k] = {}
    /\ air' = [air EXCEPT ![m][k] = {i}]
    /\ UNCHANGED <<accepted, outcome>>

Next ==
    \E m \in Msgs :
        \/ Accept(m)
        \/ \E err \in {"ctx", "failed", "notRunning"} : GiveUp(m, err)
        \/ \E k \in Chunks, i \in Ids : Transmit(m, k, i)

Spec == Init /\ [][Next]_vars
=============================================================================
