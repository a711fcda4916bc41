-------------------------------- MODULE Overlay --------------------------------
(***************************************************************************)
(* The `data` argument of a write: some columns of a row, over the row.    *)
(***************************************************************************)

(* The TLC module's @@ with a definition that a proof can unfold.          *)
Over(data, row) ==
  [f \in DOMAIN data \cup DOMAIN row |-> IF f \in DOMAIN data THEN data[f] ELSE row[f]]
================================================================================
