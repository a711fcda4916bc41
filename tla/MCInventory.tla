----------------------------- MODULE MCInventory -----------------------------
(***************************************************************************)
(* Small instances of the composed handlers.  Each configuration gives a   *)
(* few requests to some of the handlers and none to the others.            *)
(***************************************************************************)
EXTENDS Inventory

CONSTANTS cable, phone, u1, u2, u3, u4, shelf, store, c1, c2, v1, h1, h2, e1, g1, m1, m2, a1, k1, s1, s2,
  stockTake, tag1, tag2, tag3, n1, w1, d1, d2, x1, r1, r2, r3, k2, b1, q1, key1, key2,
  hub1, hub2, hub3, hub4, hub5, hub6

Item(p, u, q) == [product |-> p, unit |-> u, quantity |-> q]

MCProductOf == [u \in Unit |-> phone]
MCOpening == [p \in Product |-> CASE p = cable -> 1 [] p = phone -> 2 [] OTHER -> 0]
ListedAs(text) == [sku |-> text, barcode |-> NoText, name |-> text, loc |-> NoLocation]
MCOpeningCard ==
  [p \in Product |-> CASE p = cable -> ListedAs("cable") [] p = phone -> ListedAs("phone")
                       [] OTHER -> Unlisted]
MCOpeningUnit ==
  [u \in Unit |-> IF u \in {u3, u4} THEN Unregistered ELSE [status |-> "IN_STOCK", loc |-> shelf]]
MCOpeningOne == [p \in Product |-> 1]
MCPrice == [p \in Product |-> 1]
MCSaleOf == [r \in Checkouts |-> IF r = c1 THEN s1 ELSE s2]
MCVoidTarget == [r \in Voids |-> s1]

MCPayloads ==
  {[items |-> <<Item(phone, u1, 1), Item(cable, NoUnit, 1)>>, tendered |-> 2]}
MCUnitSale == {[items |-> <<Item(phone, u1, 1)>>, tendered |-> 1]}

(* A repair, a loss, a retirement, a reservation and a recovery of one unit. *)
MCChangeBodies ==
  {[unit |-> u1, status |-> "DAMAGED", loc |-> NoLocation],
   [unit |-> u1, status |-> "RETURNED", loc |-> shelf],
   [unit |-> u1, status |-> "RESERVED", loc |-> NoLocation],
   Retirement(u1)}
MCEditBodies == {[unit |-> u1, loc |-> NoLocation], [unit |-> u1, loc |-> store]}
MCRegistrationOf ==
  [r \in Registrations |->
     [product |-> phone, units |-> <<u3, u4>>, loc |-> shelf, type |-> "INITIAL"]]

(* A sale noted by hand, a find, and a correction beyond the balance.      *)
MCRecordBodies ==
  {[product |-> b[1], effect |-> b[2], quantity |-> b[3], loc |-> NoLocation,
    transfer |-> FALSE] :
     b \in {x \in {<<cable, "DECREASE", 1>>, <<phone, "INCREASE", 1>>, <<phone, "ADJUSTMENT", -2>>} :
              x[1] \in Product}}

(* The archived phone comes back under another name; another service lists *)
(* the hub before the receipt does; the cable gets the hub's barcode.      *)
MCProductBodies ==
  {[sku |-> "phone", barcode |-> NoText, name |-> "telephone", loc |-> store],
   [sku |-> "hub", barcode |-> "0001", name |-> "hub", loc |-> NoLocation]}
MCDrawnProduct == [r \in ProductCreations |-> hub5]

(* One receipt that is sent twice under one key and lists a new hub on two *)
(* lines, and another one that lists the cable and the hub.                *)
Bought1(sku, barcode, name) ==
  [sku |-> sku, barcode |-> barcode, name |-> name, quantity |-> 1,
   clear |-> TRUE, category |-> TRUE]
MCReceiptOf ==
  [r \in Receipts |->
     [key |-> IF r = r3 THEN key2 ELSE key1, supplier |-> "wholesale", loc |-> shelf,
      items |-> IF r = r3
        THEN <<Bought1("cable", NoText, "cable"), Bought1(NoText, "0001", "hub")>>
        ELSE <<Bought1(NoText, "0001", "hub"), Bought1(NoText, NoText, "hub"),
               Bought1("cable", NoText, "wire")>>]]
MCDrawnFor ==
  [r \in Receipts |-> CASE r = r1 -> <<hub1, hub2, hub6>> [] OTHER -> <<hub3, hub4, hub6>>]
MCGeneratedSku == [r \in Receipts |-> <<"RCPT-1", "RCPT-2", "RCPT-3">>]

(* A stock-take of the shelf.  tag1 names a unit that belongs there, tag2  *)
(* one that belongs to the store, tag3 names none.                         *)
MCAuditLocation == [a \in Audit |-> shelf]
MCUnitOfTag == [t \in Tag |-> CASE t = tag1 -> u2 [] t = tag2 -> u3 [] OTHER -> NoUnit]
MCAuditOf == [r \in Creations \cup Scanners \cup Completions \cup Cancellations |-> stockTake]
MCTagsOf == [r \in Creations \cup Scanners |-> IF r = w1 THEN {tag1, tag2} ELSE {tag3}]
MCNoTags == [r \in Creations \cup Scanners |-> {}]
MCProductRank ==
  [p \in Product |->
     CHOOSE i \in 1 .. 8 : <<cable, phone, hub1, hub2, hub3, hub4, hub5, hub6>>[i] = p]

(* One unit on the shelf, one that an earlier audit missed there, one in   *)
(* the store, and one that is about to be registered.                      *)
MCOpeningAudit ==
  [u \in Unit |-> CASE u = u1 -> [status |-> "IN_STOCK", loc |-> shelf]
                    [] u = u2 -> [status |-> "MISSING", loc |-> shelf]
                    [] u = u3 -> [status |-> "IN_STOCK", loc |-> store]
                    [] OTHER -> Unregistered]
MCRegistrationOne ==
  [r \in Registrations |->
     [product |-> phone, units |-> <<u4>>, loc |-> shelf, type |-> "INITIAL"]]
MCMoveToStore == {[unit |-> u1, loc |-> store]}

(* The cable is sold unit by unit too, and a cart names them either way.   *)
MCTwoProducts == [u \in Unit |-> IF u = u1 THEN cable ELSE phone]
MCOpeningShelf == [u \in Unit |-> [status |-> "IN_STOCK", loc |-> shelf]]
MCEitherOrder ==
  {[items |-> <<Item(phone, u2, 1), Item(cable, u1, 1)>>, tendered |-> 2],
   [items |-> <<Item(cable, u1, 1), Item(phone, u2, 1)>>, tendered |-> 2]}
=============================================================================
