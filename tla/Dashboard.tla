------------------------------ MODULE Dashboard ------------------------------
(***************************************************************************)
(* getInventoryDashboardReport of reports.service.ts: a transaction of     *)
(* several queries under REPEATABLE READ, each of which returns the rows   *)
(* as they were committed when the transaction took its snapshot.  Prices, *)
(* names and categories are left out: every product costs one and the      *)
(* quantities of the categories are added up.                              *)
(***************************************************************************)
EXTENDS StockDb, FiniteSetsExt

CONSTANT DashboardReads    \* the requests that run getInventoryDashboardReport

VARIABLE report    \* the running handlers: the snapshot and the sections read so far

ASSUME DashboardAssumption ==
  DashboardReads \subseteq Req /\ IsFiniteSet(Product) /\ IsFiniteSet(Location)

TypeOKReports == DOMAIN report = DashboardReads

AtSection(pc) == [pc |-> pc]

InitReportLocals == report = [r \in DashboardReads |-> AtSection("idle")]

RETIRED_UNIT_STATUSES == {"SOLD", "DISPOSED"}

(* What the queries can see of a version of the rows.                      *)
Snapshot(version) ==
  [x \in Product \cup Unit |->
     IF x \in Product THEN [version[x] EXCEPT !.ledger = <<>>] ELSE version[x]]

(* Mutant: the transaction runs under READ COMMITTED.                      *)
LatestRows(r) == Snapshot(committed)

(* The rows every query of the transaction returns.                        *)
RowsOf(r) == report[r].snapshot

LiveProducts(rows) == {p \in Product : Live(rows[p])}
LiveUnits(rows) ==
  {u \in Unit : rows[u].status # "UNREGISTERED" /\ Live(rows[ProductOf[u]])}

Total(f, S) == MapThenSumSet(LAMBDA x : f[x], S)

Quantity(rows, products) == Total([p \in products |-> rows[p].quantityOnHand], products)
WithStatus(rows, statuses) ==
  Cardinality({u \in LiveUnits(rows) : rows[u].status \in statuses})

(* The first statement of the transaction takes the snapshot.              *)
BeginReport(r) ==
  /\ report[r].pc = "idle"
  /\ report' = [report EXCEPT ![r] = [pc |-> "totals", snapshot |-> Snapshot(committed)]]
  /\ UNCHANGED dbVars

(* A section is added to the report.                                       *)
Reports(r, section, next) ==
  /\ report' = [report EXCEPT ![r] =
                   [x \in DOMAIN @ \cup DOMAIN section |->
                      IF x = "pc" THEN next ELSE IF x \in DOMAIN section THEN section[x] ELSE @[x]]]
  /\ UNCHANGED dbVars

(* buildTotals: stock value and tracked units; and the status breakdown.   *)
BuildTotals(r) ==
  LET rows == RowsOf(r)
  IN  /\ report[r].pc = "totals"
      /\ Reports(r, [stockValue |-> Quantity(rows, LiveProducts(rows)),
                     trackedUnitCount |->
                       WithStatus(rows, ProductUnitStatus \ RETIRED_UNIT_STATUSES),
                     unitStatus |-> [status \in ProductUnitStatus |-> WithStatus(rows, {status})]],
                 "byCategory")

BuildByCategory(r) ==
  LET rows == RowsOf(r)
  IN  /\ report[r].pc = "byCategory"
      /\ Reports(r, [byCategory |-> Quantity(rows, LiveProducts(rows))], "byLocation")

(* "Non-serialized stock lives as a product quantity at the product's      *)
(* location; serialized stock lives as on-hand units at each unit's".      *)
OnHandUnits(rows) ==
  {u \in LiveUnits(rows) : /\ ProductOf[u] \in Serialized
                           /\ rows[u].status \in STOCK_COUNTED_STATUSES}

QuantityAt(rows, loc) ==
  Quantity(rows, {p \in LiveProducts(rows) \ Serialized : rows[p].card.loc = loc})
    + Cardinality({u \in OnHandUnits(rows) : rows[u].loc = loc})

BuildByLocation(r) ==
  /\ report[r].pc = "byLocation"
  /\ Reports(r, [byLocation |->
                   [loc \in Location \cup {NoLocation} |-> QuantityAt(RowsOf(r), loc)]],
             "attention")

(* The untagged bucket depends on tags, which are not modelled here.       *)
BuildAttention(r) ==
  LET rows == RowsOf(r)
  IN  /\ report[r].pc = "attention"
      /\ Reports(r, [attention |-> [status \in {"MISSING", "MISPLACED", "DISPOSED"} |->
                                      WithStatus(rows, {status})]], "ok")

AbortReport(r) ==
  /\ report[r].pc \in {"totals", "byCategory", "byLocation", "attention"}
  /\ report' = [report EXCEPT ![r] = AtSection("failed")]
  /\ UNCHANGED dbVars

ReportStep(r) ==
  BuildTotals(r) \/ BuildByCategory(r) \/ BuildByLocation(r) \/ BuildAttention(r)

ReportsNext == \E r \in DashboardReads : BeginReport(r) \/ ReportStep(r) \/ AbortReport(r)

-----------------------------------------------------------------------------
(* "One consistent view": whatever commits while the report is put         *)
(* together, its sections agree.  The stock of the categories is the stock *)
(* of the locations, each piece counted once, and the value of both; the   *)
(* units that need attention are those of the status breakdown.            *)
ReportConsistent ==
  \A r \in DashboardReads : report[r].pc = "ok" =>
     LET page == report[r]
         counted(statuses) == Total(page.unitStatus, statuses)
     IN  /\ page.byCategory = Total(page.byLocation, Location \cup {NoLocation})
         /\ page.byCategory = page.stockValue
         /\ page.trackedUnitCount = counted(ProductUnitStatus \ RETIRED_UNIT_STATUSES)
         /\ \A status \in DOMAIN page.attention :
               page.attention[status] = page.unitStatus[status]
=============================================================================
