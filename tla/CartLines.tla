------------------------------ MODULE CartLines ------------------------------
(***************************************************************************)
(* The pure part of a checkout: which carts are refused, how the items of  *)
(* a cart are merged into sale lines and what the lines cost.              *)
(***************************************************************************)
EXTENDS Integers, SequencesExt

CONSTANTS NoUnitRef     \* an item without productUnitId

SameGoods(a, b) == a.product = b.product /\ a.unit = b.unit

SameProductLine(line, item) == line.unit = NoUnitRef /\ line.product = item.product

(* normalizeCheckoutItems throws: a unit item with a quantity other than   *)
(* one, or a unit that is in the cart twice.                               *)
Refuses(items) ==
  \E i \in DOMAIN items :
     /\ items[i].unit # NoUnitRef
     /\ \/ items[i].quantity # 1
        \/ \E j \in 1 .. (i - 1) : items[j].unit = items[i].unit

(* Mutant: a repeated product replaces the quantity of its line.           *)
LastQuantityWins(lines, item) ==
  IF item.unit = NoUnitRef /\ \E k \in DOMAIN lines : SameProductLine(lines[k], item)
    THEN [k \in DOMAIN lines |->
            IF SameProductLine(lines[k], item)
              THEN [lines[k] EXCEPT !.quantity = item.quantity] ELSE lines[k]]
    ELSE Append(lines, item)

(* One pass of normalizeCheckoutItems' loop: an item without a unit is     *)
(* merged into the line its product already has, any other item is a line. *)
AddItem(lines, item) ==
  IF item.unit = NoUnitRef /\ \E k \in DOMAIN lines : SameProductLine(lines[k], item)
    THEN [k \in DOMAIN lines |->
            IF SameProductLine(lines[k], item)
              THEN [lines[k] EXCEPT !.quantity = @ + item.quantity] ELSE lines[k]]
    ELSE Append(lines, item)

Normalized(items) == FoldLeft(AddItem, <<>>, items)

(* calculateTotals' subtotal over the prices captured for the lines.       *)
Subtotal(lines, price) ==
  FoldLeft(LAMBDA sum, line : sum + price[line.product] * line.quantity, 0, lines)
=============================================================================
