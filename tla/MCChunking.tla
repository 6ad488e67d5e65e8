---------------------------- MODULE MCChunking ----------------------------
(***************************************************************************)
(* Every text of up to four words, of one to six bytes and runes of one or *)
(* two, for packets of five or six bytes with a numbering of two.          *)
(***************************************************************************)
EXTENDS Chunking

MCWords == {<<1>>, <<1, 1>>, <<1, 2>>, <<1, 2, 1>>, <<1, 2, 2, 1>>}

MCTexts == UNION {[1 .. n -> MCWords] : n \in 0 .. 4}

MCNotice == <<<<1>>, <<1, 1, 1>>, <<1>>>>

MCSoftTargets == 1 .. 7
=============================================================================
