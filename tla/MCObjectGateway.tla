--------------------------- MODULE MCObjectGateway ---------------------------
(* Small instances of ObjectGateway. *)
EXTENDS ObjectGateway, TLC

CONSTANTS o1, o2, a, b, g1, g2, cleaner

==============================================================================
