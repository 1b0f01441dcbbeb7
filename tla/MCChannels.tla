------------------------------ MODULE MCChannels ------------------------------
(* Two names, one of them not in the team at first, and three channels over  *)
(* two slugs: enough for a slug to be reclaimed and asked for once more.     *)
EXTENDS Channels, TLC

CONSTANTS ada, bo, ops, dev

EitherSlug == Permutations({ops, dev})
=============================================================================
