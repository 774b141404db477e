----------------------------- MODULE MCPublisher -----------------------------
(***************************************************************************)
(* Instances of Publisher: one channel with both feeds that some of the    *)
(* instruments map to, and an id that has no feed at all.                  *)
(***************************************************************************)
EXTENDS Publisher

CONSTANTS mapped, unmapped

MCInstrument == {mapped, unmapped}
MCChannelsA == <<1>>
MCChannelsB == <<1>>
MCStray == {2}
MCChannelOf == [i \in MCInstrument |-> IF i = mapped THEN 1 ELSE 0]
=============================================================================
