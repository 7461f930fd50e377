----------------------------- MODULE MCFraming -----------------------------
(***************************************************************************)
(* Messages with awkward bytes: a request for topics, whose frame ends in  *)
(* the sync byte; a payload that holds both sync bytes, under the topic id *)
(* just below the limit; and a frame that holds no sync byte but its       *)
(* first.                                                                  *)
(***************************************************************************)
EXTENDS Framing

Request == [topic |-> 0, payload |-> <<>>]
Syncs == [topic |-> 124, payload |-> <<255, 254, 1>>]
Plain == [topic |-> 101, payload |-> <<7>>]

AllShort == {Request, Syncs, Plain}
=============================================================================
