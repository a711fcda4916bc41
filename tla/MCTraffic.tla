------------------------------ MODULE MCTraffic ------------------------------
(***************************************************************************)
(* The composed handlers under several mixes of traffic.  Of all requests, *)
(* a behaviour sees those of one mix, in any order and overlap; the others *)
(* have been refused before it begins.                                     *)
(***************************************************************************)
EXTENDS MCInventory

(* Writers of stock, with units that move or with a product that goes and  *)
(* comes back; one receipt sent twice while its hub is listed by hand, its *)
(* cable sold and archived; two receipts that name their products in       *)
(* opposite order; a dashboard read beside what moves the stock it counts. *)
Traffic ==
  {{c1, h1, g1, m1, e1}, {c1, h1, m1, a1, k1}, {r1, r2, k2, c1, a1}, {r1, r3, b1, c1},
   {q1, c1, v1, g1, e1, a1}}

TrafficInit ==
  /\ InitDb /\ InitAuditLocals
  /\ \E mix \in Traffic :
       LET pc(r) == IF r \in mix THEN "idle" ELSE "failed"
       IN  /\ checkout = [r \in Checkouts |-> [IdleCheckout EXCEPT !.pc = pc(r)]]
           /\ void = [r \in Voids |-> [IdleVoid EXCEPT !.pc = pc(r)]]
           /\ change = [r \in Changes |-> AtPc(pc(r))]
           /\ edit = [r \in Edits |-> AtPc(pc(r))]
           /\ registration = [r \in Registrations |-> pc(r)]
           /\ record = [r \in Records |-> RecordPc(pc(r))]
           /\ catalog = [r \in CatalogReq |-> CatalogPc(pc(r))]
           /\ receipt = [r \in Receipts |-> AtReceipt(pc(r))]
           /\ report = [r \in DashboardReads |-> AtSection(pc(r))]
  /\ suppliers = OpeningSuppliers

TrafficSpec == TrafficInit /\ [][Next \/ Done]_vars
=============================================================================
