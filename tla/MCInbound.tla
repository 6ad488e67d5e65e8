------------------------------ MODULE MCInbound ------------------------------
(* Packets for Inbound: two devices A and B, a peer P, and a stranger Q. *)
EXTENDS Inbound

CONSTANTS A, B, P, Q, x, y

Answer == [id |-> 9, channel |-> 0]

Group0(from, id) ==
    [from |-> from, id |-> id, to |-> Everyone, channel |-> 0, reply |-> None,
     mention |-> None, prefix |-> FALSE, body |-> "words"]

MCNodes == {A, B, P, Q}
MCBotPackets == {Answer}
MCPolicies == {[mentionOnly |-> FALSE, prefixes |-> TRUE], [mentionOnly |-> TRUE, prefixes |-> FALSE]}

\* A direct message on a channel that is not listed, with a command that may
\* not be allowed; a packet of A, which is an echo while A is attached; a text
\* for the bot by its name and by what it replies to; and packets that are
\* never prompts.
MCPackets ==
    {[Group0(P, 1) EXCEPT !.to = A, !.channel = 1, !.mention = x, !.body = "command"],
     [Group0(A, 2) EXCEPT !.prefix = TRUE],
     [Group0(P, 3) EXCEPT !.reply = Answer.id, !.mention = y],
     [Group0(P, 4) EXCEPT !.mention = A, !.channel = 1],
     [Group0(P, 0) EXCEPT !.mention = A], [Group0(Q, 5) EXCEPT !.mention = A],
     [Group0(None, 6) EXCEPT !.mention = A]}
=============================================================================
