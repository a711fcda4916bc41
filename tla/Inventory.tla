------------------------------ MODULE Inventory ------------------------------
(***************************************************************************)
(* The handlers that write stock, run against one database: point of sale, *)
(* product units, manual movements, the product catalogue, audits, receipt *)
(* imports, and the dashboard that reads what they write.                  *)
(***************************************************************************)
EXTENDS Pos, ProductUnits, StockMovements, Products, InventoryAudit, ReceiptImports, Dashboard

vars == <<committed, pending, holder, checkout, void, change, edit, registration,
          record, catalog, scans, scanning, completing, cancelling, suppliers, receipt, report>>

(* A request runs one handler.                                             *)
ASSUME HandlerAssumption ==
  LET handlers == <<Checkouts, Voids, Changes, Edits, Registrations, Records, CatalogReq,
                    Creations, Scanners, Completions, Cancellations, Receipts, DashboardReads>>
  IN  \A i, j \in 1 .. 13 : i # j => handlers[i] \cap handlers[j] = {}

Init ==
  /\ InitDb /\ InitPosLocals /\ InitUnitLocals /\ InitRecordLocals
  /\ InitCatalogLocals /\ InitAuditLocals /\ InitReceiptLocals /\ InitReportLocals

InPos(action) ==
  action /\ UNCHANGED <<unitLocals, record, catalog, auditLocals, receiptLocals, report>>
InUnits(action) ==
  action /\ UNCHANGED <<posLocals, record, catalog, auditLocals, receiptLocals, report>>
InRecords(action) ==
  action /\ UNCHANGED <<posLocals, unitLocals, catalog, auditLocals, receiptLocals, report>>
InCatalog(action) ==
  action /\ UNCHANGED <<posLocals, unitLocals, record, auditLocals, receiptLocals, report>>
InAudits(action) ==
  action /\ UNCHANGED <<posLocals, unitLocals, record, catalog, receiptLocals, report>>
InReceipts(action) ==
  action /\ UNCHANGED <<posLocals, unitLocals, record, catalog, auditLocals, report>>
InReports(action) ==
  action /\ UNCHANGED <<posLocals, unitLocals, record, catalog, auditLocals, receiptLocals>>

Next ==
  \/ InPos(PosNext) \/ InUnits(UnitsNext) \/ InRecords(RecordsNext)
  \/ InCatalog(CatalogNext) \/ InAudits(AuditsNext)
  \/ InReceipts(ReceiptsNext) \/ InReports(ReportsNext)

(* Where each request is.                                                  *)
Pc(r) ==
  CASE r \in Checkouts -> checkout[r].pc
    [] r \in Voids -> void[r].pc
    [] r \in Changes -> change[r].pc
    [] r \in Edits -> edit[r].pc
    [] r \in Registrations -> registration[r]
    [] r \in Records -> record[r].pc
    [] r \in CatalogReq -> catalog[r].pc
    [] r \in Creations \cup Scanners -> scanning[r].pc
    [] r \in Completions -> completing[r].pc
    [] r \in Cancellations -> cancelling[r]
    [] r \in Receipts -> receipt[r].pc
    [] r \in DashboardReads -> report[r].pc

(* Every request has been answered.                                        *)
Done == (\A r \in Req : Pc(r) \in Finished) /\ UNCHANGED vars

Spec == Init /\ [][Next \/ Done]_vars

(* Fairness: a request that has begun is run on by the event loop, and     *)
(* PostgreSQL's deadlock detector aborts a transaction of every cycle of   *)
(* waiting ones.  Nothing makes a client send a request, and nothing makes *)
(* one time out.                                                           *)
Wants(r) ==
  PosWants(r) \cup UnitsWant(r) \cup RecordsWant(r) \cup CatalogWants(r) \cup AuditsWant(r)
    \cup ReceiptsWant(r)

Started(pc) == pc \notin Finished \cup {"idle"}

Proceed(r) ==
  \/ r \in Checkouts /\ InPos(CheckoutStep(r))
  \/ r \in Voids /\ InPos(VoidStep(r))
  \/ r \in Changes /\ InUnits(ChangeStep(r))
  \/ r \in Edits /\ InUnits(WriteLocation(r))
  \/ r \in Registrations /\ InUnits(RegistrationStep(r))
  \/ r \in Records /\ InRecords(RecordStep(r))
  \/ r \in CatalogReq /\ InCatalog(WriteProduct(r))
  \/ r \in Creations \cup Scanners /\ InAudits(Started(scanning[r].pc) /\ ScanStep(r))
  \/ r \in Completions /\ InAudits(CompletionStep(r))
  \/ r \in Cancellations /\ InAudits(WriteCancelled(r))
  \/ r \in Receipts /\ InReceipts(ReceiptStep(r))
  \/ r \in DashboardReads /\ InReports(ReportStep(r))

Abort(r) ==
  \/ r \in Checkouts /\ InPos(AbortCheckout(r))
  \/ r \in Voids /\ InPos(AbortVoid(r))
  \/ r \in Changes /\ InUnits(AbortChange(r))
  \/ r \in Registrations /\ InUnits(AbortRegistration(r))
  \/ r \in Records /\ InRecords(AbortRecord(r))
  \/ r \in Completions /\ InAudits(AbortCompletion(r))
  \/ r \in Receipts /\ InReceipts(AbortReceipt(r))

InDeadlock(r) == LET want == [q \in Req |-> Wants(q)] IN Deadlocked(want, r)
BreakDeadlock == \E r \in Req : InDeadlock(r) /\ Abort(r)

FairSpec == Spec /\ (\A r \in Req : WF_vars(Proceed(r))) /\ WF_vars(BreakDeadlock)

-----------------------------------------------------------------------------
(* Types of the tables and of every handler's local variables.             *)
InventoryTypeOK ==
  /\ TypeOK /\ TypeOKUnits /\ TypeOKRecords /\ TypeOKCatalog /\ TypeOKAudits
  /\ TypeOKReceipts /\ TypeOKReports

(* The inductive invariant behind LedgerBalanced: with the types, what the *)
(* locks guarantee of the two versions of a row (no row changes under a    *)
(* transaction that holds it, and an aborted one leaves nothing behind).   *)
StockInv == InventoryTypeOK /\ VersionsConsistent /\ PosLocalsConsistent

(* A unit row is there from the commit of the registration that creates it *)
(* on, and until then only that registration writes it: what is sold,      *)
(* returned, changed, moved or counted is there.                           *)
There(u) == committed[u].status # "UNREGISTERED"

UnitsRegistered ==
  /\ \A u \in Unit : holder[u] # NoReq =>
        /\ holder[u] \in Checkouts \cup Voids \cup Changes \cup Registrations \cup Completions
        /\ pending[u].status # "UNREGISTERED"
        /\ IF holder[u] \in Registrations
             THEN registration[holder[u]] = "commit" /\ u \in NewUnits(RegistrationOf[holder[u]])
             ELSE There(u)
  /\ \A r \in Registrations : registration[r] \in {"idle", "write", "commit"} =>
        \A u \in NewUnits(RegistrationOf[r]) : ~ There(u)
  /\ \A r \in Changes : change[r].pc = "write" => There(change[r].body.unit)
  /\ \A r \in Edits : edit[r].pc = "write" => There(edit[r].body.unit)
  /\ \A r \in Checkouts : checkout[r].pc = "sell" =>
        /\ checkout[r].next <= Len(checkout[r].lines) + 1
        /\ \A u \in UnitsOf(checkout[r].lines, checkout[r].next - 1) : There(u)
  /\ \A s \in Sale : \A u \in UnitsOf(committed[s].items, Len(committed[s].items)) : There(u)

(* No unit whose status is about to be changed by hand is sold: neither by *)
(* the time the change was read, nor since then (updateProductUnit refuses *)
(* no status, and does not look again when it writes).                     *)
ChangesSpareSold ==
  \A r \in Changes : change[r].pc = "write" => committed[change[r].body.unit].status # "SOLD"

(* A change by hand finds a status that counts as the one it has read did: *)
(* what its delta was computed from (resolveStatusQuantityDelta).          *)
ChangesFresh ==
  \A r \in Changes : change[r].pc = "write" =>
     LET body == change[r].body
     IN  change[r].delta = QuantityDelta(Visible(r, body.unit).status, body.status)

(* The product the next line of a receipt stocks in.                       *)
StockedProduct(r) ==
  LET i == receipt[r].next
      p == FindProductInMap(Items(r)[i], receipt[r].matches)
  IN  IF p = NoProduct THEN DrawnFor[r][i] ELSE p

(* No movement that names no unit is about to be entered for a product that*)
(* is kept unit by unit (neither recordStockMovement nor                   *)
(* commitReceiptImport asks).                                              *)
UnitsMoveAlong ==
  /\ \A r \in Records : record[r].pc = "write" => record[r].body.product \notin Serialized
  /\ \A r \in Receipts : receipt[r].pc = "stock" /\ receipt[r].next <= Len(Items(r)) =>
        StockedProduct(r) \notin Serialized

(* The inductive invariants behind what several requests do to one row over*)
(* time: a sale and its movements, an audit and its one completion, a key  *)
(* and its one receipt, a receipt and its purchases.                       *)
HistoryInv ==
  /\ SalesConsistent /\ AuditsConsistent /\ KeysConsistent
  /\ ReceiptsConsistent /\ CreatedIndexed /\ UnitsRegistered /\ PlannedOnce

(* The committed tables implement the stock book: every commit enters      *)
(* movements into the books of the products it touched, all of them at     *)
(* once, on top of what the commits before it entered.                     *)
Book == INSTANCE StockBook
          WITH ledger <- [p \in Product |-> committed[p].ledger],
               quantityOnHand <- [p \in Product |-> committed[p].quantityOnHand]

BookSpec == Book!BookSpec

(* No movement is entered for an archived product.  recordStockMovement    *)
(* validates its references in the transaction, which "closes the window   *)
(* where the product could be archived between the check and the           *)
(* increment".                                                             *)
NoMovementOnArchived ==
  [][\A p \in Product :
        committed[p].isArchived => committed'[p].ledger = committed[p].ledger]_vars

Running(r) == Started(Pc(r))

(* Every handler that has begun comes to an end: no order of row locks     *)
(* among the services leaves one waiting for ever.                         *)
EveryHandlerEnds == \A r \in Req : Running(r) ~> ~ Running(r)

(* "Process products in a stable order [...] matching POS to avoid         *)
(* deadlocks": an audit and the point of sale wait for each other in a     *)
(* circle only through a sale or a void that does not take its products in *)
(* the order of their ids.                                                 *)
CartOf(r) == IF r \in Checkouts THEN checkout[r].lines ELSE void[r].lines

TakesInOrder(r) ==
  \A i, j \in 1 .. Len(CartOf(r)) :
     i < j => ProductRank[CartOf(r)[i].product] <= ProductRank[CartOf(r)[j].product]

OrderedNeverDeadlock ==
  \A r \in Completions :
     InDeadlock(r) => \E q \in Checkouts \cup Voids : InDeadlock(q) /\ ~ TakesInOrder(q)
=============================================================================
