-------------------------------- MODULE MCPos --------------------------------
(***************************************************************************)
(* Small instances of the point of sale: a serialized product with two     *)
(* units and a counted product, tills that race for the same unit and name *)
(* the products in opposite order.                                         *)
(***************************************************************************)
EXTENDS Pos

CONSTANTS cable, phone, u1, u2, shelf, store, c1, c2, c3, v1, v2, s1, s2, s3

Item(p, u, q) == [product |-> p, unit |-> u, quantity |-> q]

MCProductOf == [u \in Unit |-> phone]
MCOpening == [p \in Product |-> 2]
MCOpeningUnit == [u \in Unit |-> [status |-> "IN_STOCK", loc |-> shelf]]
MCPrice == [p \in Product |-> IF p = cable THEN 3 ELSE 5]
ListedAs(text) == [sku |-> text, barcode |-> NoText, name |-> text, loc |-> store]
MCOpeningCard == [p \in Product |-> ListedAs(IF p = cable THEN "cable" ELSE "phone")]
MCSaleOf == [r \in Checkouts |-> CASE r = c1 -> s1 [] r = c2 -> s2 [] OTHER -> s3]

(* One void request per sale, or two for the first.                        *)
MCOneVoidEach == [r \in Voids |-> IF r = v1 THEN s1 ELSE s2]
MCTwoVoids == [r \in Voids |-> s1]

(* A cart that merges two lines, one in the opposite order, one with two   *)
(* units, one whose tender is too small, one with a unit twice, and one    *)
(* that names a serialized product without a unit.                         *)
MCPayloads ==
  {[items |-> <<Item(phone, u1, 1), Item(cable, NoUnit, 1), Item(cable, NoUnit, 1)>>,
    tendered |-> 11],
   [items |-> <<Item(cable, NoUnit, 1), Item(phone, u1, 1)>>, tendered |-> 8],
   [items |-> <<Item(phone, u2, 1), Item(phone, u1, 1)>>, tendered |-> 10],
   [items |-> <<Item(phone, u2, 1)>>, tendered |-> 4],
   [items |-> <<Item(phone, u1, 1), Item(phone, u1, 1)>>, tendered |-> 10],
   [items |-> <<Item(phone, NoUnit, 1)>>, tendered |-> 5]}

(* The hypotheses under which balances and units are proved to agree.      *)
ASSUME StockHypotheses == OpeningInStep /\ UnitsOfSerialized
=============================================================================
