--------------------------- MODULE MCLogService ---------------------------
(***************************************************************************)
(* Small instances of LogService.                                          *)
(***************************************************************************)
EXTENDS LogService, TLC

LogSymmetry ==
    Permutations(Readable) \cup Permutations(Ctx \ Readable)
    \cup Permutations(Client)
=============================================================================
