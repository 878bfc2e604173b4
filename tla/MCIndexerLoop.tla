--------------------------- MODULE MCIndexerLoop ---------------------------
(***************************************************************************)
(* Small chains for IndexerLoop: neighbours share slots.                   *)
(***************************************************************************)
EXTENDS IndexerLoop

MCSlot5 == <<1, 2, 2, 3, 3>>
MCSlot4 == <<1, 2, 2, 3>>
MCSlot3 == <<1, 2, 2>>
=============================================================================
