------------------------------- MODULE MCTills -------------------------------
(***************************************************************************)
(* The tills of MCPos, and besides them every cart of up to MaxItems items *)
(* of Carts.                                                               *)
(***************************************************************************)
EXTENDS MCPos, Carts

MCCartItem == [product: Product, unit: Unit \cup {NoUnit}, quantity: 1 .. 2]

(* The hypothesis under which no sale is proved to be returned twice.      *)
ASSUME VoidHypothesis == OneVoidPerSale

TillsInit == InitPos /\ InitCart

(* A cart is put together while the tills are quiet, or they sell.         *)
FillingCart ==
  /\ \A r \in Checkouts : checkout[r].pc = "idle"
  /\ \A r \in Voids : void[r].pc = "idle"
  /\ FillCart
  /\ UNCHANGED posVars

CartFull == Len(items) = MaxItems /\ UNCHANGED <<posVars, items>>

AtTheTills == items = <<>> /\ (PosNext \/ PosDone) /\ UNCHANGED items

TillsSpec == TillsInit /\ [][FillingCart \/ CartFull \/ AtTheTills]_<<posVars, items>>
=============================================================================
