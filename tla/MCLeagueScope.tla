---------------------------- MODULE MCLeagueScope ----------------------------
(* LeagueScope on small instances. *)
EXTENDS LeagueScope

CONSTANTS a, b
=============================================================================
