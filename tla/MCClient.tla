------------------------------ MODULE MCClient ------------------------------
(***************************************************************************)
(* PacketClient for TLC.  Two documents are the fewest a packet takes.     *)
(***************************************************************************)
EXTENDS PacketClient
=============================================================================
