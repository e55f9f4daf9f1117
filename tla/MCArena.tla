------------------------------ MODULE MCArena -------------------------------
(***************************************************************************)
(* An instance of Arena for TLC.                                           *)
(***************************************************************************)
EXTENDS Arena

(* len only ever counts up and nothing reads it, like the last result.     *)
ArenaView == <<items, capacity, free>>
=============================================================================
