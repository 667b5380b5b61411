---------------------------- MODULE MCBlockIntake ----------------------------
(***************************************************************************)
(*       C2                       C2 cannot be connected                   *)
(*      /                                                                  *)
(* G - A1 - A2 - A3               A3 is the last hardened checkpoint       *)
(*  \                                                                      *)
(*   B1 - B2                      B1 is heavier than A1                    *)
(* A2 and B2 are made with the same stake, A3 with its own.                *)
(***************************************************************************)
EXTENDS BlockIntake

Prev == [b \in Block |->
    CASE b \in {"A1", "B1"} -> "G" [] b \in {"A2", "C2"} -> "A1" [] b = "A3" -> "A2"
      [] b = "B2" -> "B1" [] OTHER -> NULL]

Height == [b \in Block |->
    CASE b = "G" -> 0 [] b \in {"A1", "B1"} -> 1 [] b \in {"A2", "B2", "C2"} -> 2 [] OTHER -> 3]

Trust == [b \in Block |->
    CASE b = "G" -> 0 [] b = "A1" -> 1 [] b \in {"B1", "A2"} -> 2 [] b = "A3" -> 4 [] OTHER -> 3]

Stake == [b \in Block |->
    CASE b \in {"A2", "B2"} -> "s" [] b = "A3" -> "u" [] OTHER -> NULL]
=============================================================================
