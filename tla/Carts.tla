--------------------------------- MODULE Carts ---------------------------------
(***************************************************************************)
(* Every cart a client can put together, for what normalizeCheckoutItems   *)
(* and calculateTotals are for.                                            *)
(***************************************************************************)
EXTENDS Pos, FiniteSetsExt

CONSTANTS CartItem, MaxItems    \* the items there are; how many a cart holds

VARIABLE items    \* the items of a checkout body, in the order sent

ASSUME CartAssumption == CartItem \subseteq SaleLine /\ Price \in [Product -> Nat]

InitCart == items = <<>>

(* A client adds an item to the body it will send.                         *)
FillCart ==
  /\ Len(items) < MaxItems
  /\ \E item \in CartItem : items' = Append(items, item)

CartSpec == InitCart /\ [][FillCart]_items

-----------------------------------------------------------------------------
LinesFor(lines, p, u) == {i \in DOMAIN lines : lines[i].product = p /\ lines[i].unit = u}

SumOfLines(lines, S) == MapThenSumSet(LAMBDA i : lines[i].quantity, S)

Quantity(lines, p, u) == SumOfLines(lines, LinesFor(lines, p, u))

FirstOf(line) == Min({i \in DOMAIN items : Cart!SameGoods(items[i], line)})

(* normalizeCheckoutItems keeps what the customer ordered: for every       *)
(* product and unit the same quantity, never more than one line for it,    *)
(* and the lines in the order in which the products and units first came   *)
(* up; so the receipt adds up to the same total.                           *)
NormalizedKeepsOrder ==
  ~ Cart!Refuses(items) =>
    LET lines == Cart!Normalized(items)
    IN  /\ \A p \in Product, u \in Unit \cup {NoUnit} :
             Quantity(lines, p, u) = Quantity(items, p, u)
        /\ \A i, j \in DOMAIN lines : Cart!SameGoods(lines[i], lines[j]) => i = j
        /\ \A i, j \in DOMAIN lines : i < j => FirstOf(lines[i]) < FirstOf(lines[j])
        /\ Cart!Subtotal(lines, Price) = Cart!Subtotal(items, Price)
===============================================================================
