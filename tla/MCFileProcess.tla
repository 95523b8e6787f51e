---------------------------- MODULE MCFileProcess ----------------------------
(***************************************************************************)
(* One rule at a time: a small database, a small threshold.                *)
(***************************************************************************)
EXTENDS FileProcess, TLC

CONSTANTS db, log, d1, d2, d3, d4

ReadDbOnly == 0 :> "read_db_large"
CountOnly == 0 :> "path_openat_count"
TraversalOnly == 0 :> "recursive_traversal"
Window1 == 0 :> 1
NoCooldownTime == 0 :> 0
Cooldown2 == 0 :> 2

\* A scan sees three watched paths alike, a walk four directories.
SameFiles == Permutations({db, log, d1})
SameDirs == Permutations({d1, d2, d3, d4})

\* The last call's outputs are left out.
MCView ==
  <<IF in_call THEN current ELSE NoEvent, active_detection_states, cooldown_until,
    detection_state_count, now, file, history>>

===============================================================================
