--------------------------- MODULE MCProactiveChat ---------------------------
(***************************************************************************)
(* Small instances of ProactiveChat for TLC.  Times are in units of half   *)
(* an hour to an hour, the day being six to eight of them.                 *)
(***************************************************************************)
EXTENDS ProactiveChat, TLC

Symmetry == Permutations(Sessions)
=============================================================================
