---------------------------- MODULE InventoryAudit ----------------------------
(***************************************************************************)
(* Inventory audits (inventory-audit.service.ts): an audit is created for a*)
(* location, tags are scanned into it, and completing it reconciles the    *)
(* statuses of the units with what was scanned, in one transaction that    *)
(* has claimed the audit.  How a tag text finds its unit (RFID tag, asset  *)
(* tag, serial number or barcode, when only one unit has it) is a constant.*)
(***************************************************************************)
EXTENDS StockDb, SequencesExt

CONSTANTS
  AuditLocation,   \* the location each audit counts
  Tag,             \* the scan values
  UnitOfTag,       \* the unit a scan value names, NoUnit if unknown or ambiguous
  Creations,       \* the requests that run createInventoryAudit
  Scanners,        \* the requests that run addScans
  Completions,     \* the requests that run completeAudit
  Cancellations,   \* the requests that run cancelAudit
  AuditOf,         \* the audit each of these requests names (or creates)
  TagsOf,          \* the scan values each creation or scan request sends
  ProductRank      \* the order of the product ids

VARIABLES
  scans,           \* the committed scan rows of each audit
  scanning,        \* the running createInventoryAudit and addScans handlers
  completing,      \* the running completeAudit handlers
  cancelling       \* the running cancelAudit handlers

auditLocals == <<scans, scanning, completing, cancelling>>
auditVars == <<committed, pending, holder, scans, scanning, completing, cancelling>>

ASSUME AuditAssumption ==
  /\ IsFiniteSet(Unit)
  /\ Creations \cup Scanners \cup Completions \cup Cancellations \subseteq Req
  /\ Creations \cap Scanners = {}
  /\ AuditLocation \in [Audit -> Location]
  /\ UnitOfTag \in [Tag -> Unit \cup {NoUnit}]
  /\ AuditOf \in [Creations \cup Scanners \cup Completions \cup Cancellations -> Audit]
  /\ \A q, r \in Creations : AuditOf[q] = AuditOf[r] => q = r
  /\ TagsOf \in [Creations \cup Scanners -> SUBSET Tag]
  /\ ProductRank \in [Product -> Nat]
  /\ \A p, q \in Product : ProductRank[p] = ProductRank[q] => p = q

AUDIT_MANAGED_STATUSES == {"IN_STOCK", "MISSING", "MISPLACED"}

(* A scan row; the result "NONE" stands for a tag that was not scanned.    *)
ScanRow == [unit: Unit \cup {NoUnit}, result: {"NONE", "MATCHED", "MISPLACED", "UNKNOWN_TAG"}]
Unscanned == [unit |-> NoUnit, result |-> "NONE"]

ScannedUnit == [unit: Unit, status: AUDIT_MANAGED_STATUSES, loc: Location \cup {NoLocation}]
UnitTransition ==
  [unit: Unit, from: AUDIT_MANAGED_STATUSES, to: AUDIT_MANAGED_STATUSES, away: BOOLEAN]

Answered == {"ok", "failed"}
ScanState ==
  [pc: {"idle", "header", "resolve", "insert"} \cup Answered, found: [Tag -> ScanRow]]
CompletionState ==
  [pc: {"idle", "claim", "refresh", "plan", "reconcile"} \cup Answered,
   seen: [Tag -> ScanRow], scanned: SUBSET ScannedUnit, todo: SUBSET UnitTransition]

TypeOKAudits ==
  /\ scans \in [Audit -> [Tag -> ScanRow]]
  /\ scanning \in [Creations \cup Scanners -> ScanState]
  /\ completing \in [Completions -> CompletionState]
  /\ cancelling \in [Cancellations -> {"idle", "write"} \cup Answered]

NothingFound == [t \in Tag |-> Unscanned]
IdleScan == [pc |-> "idle", found |-> NothingFound]
IdleCompletion == [pc |-> "idle", seen |-> NothingFound, scanned |-> {}, todo |-> {}]

InitAuditLocals ==
  /\ scans = [a \in Audit |-> NothingFound]
  /\ scanning = [r \in Creations \cup Scanners |-> IdleScan]
  /\ completing = [r \in Completions |-> IdleCompletion]
  /\ cancelling = [r \in Cancellations |-> "idle"]

AuditStatus(a) == committed[a].status

-----------------------------------------------------------------------------
(* createInventoryAudit and addScans                                       *)

EndScan(r, outcome) == scanning' = [scanning EXCEPT ![r] = [IdleScan EXCEPT !.pc = outcome]]

(* The audit's row, and the scans of the same request if it has any.       *)
CreateInventoryAudit(r) ==
  /\ r \in Creations /\ scanning[r].pc = "idle"
  /\ AutoCommit(Write(AuditOf[r], [status |-> "IN_PROGRESS"]))
  /\ IF TagsOf[r] = {} THEN EndScan(r, "ok")
     ELSE scanning' = [scanning EXCEPT ![r].pc = "header"]
  /\ UNCHANGED <<scans, completing, cancelling>>

(* ensureAuditInProgress, on the header read here.                         *)
ReadAuditHeader(r) ==
  /\ scanning[r].pc = IF r \in Creations THEN "header" ELSE "idle"
  /\ IF AuditStatus(AuditOf[r]) = "IN_PROGRESS" /\ TagsOf[r] # {}
       THEN scanning' = [scanning EXCEPT ![r].pc = "resolve"]
       ELSE EndScan(r, "failed")
  /\ UNCHANGED <<dbVars, scans, completing, cancelling>>

(* resolveScanResult, on the committed unit.                               *)
ScanResult(a, t) ==
  LET u == UnitOfTag[t]
  IN  IF u = NoUnit \/ committed[u].status = "UNREGISTERED"
        THEN [unit |-> NoUnit, result |-> "UNKNOWN_TAG"]
        ELSE [unit |-> u,
              result |-> IF committed[u].loc = AuditLocation[a] THEN "MATCHED" ELSE "MISPLACED"]

ResolveScans(r) ==
  /\ scanning[r].pc = "resolve"
  /\ scanning' = [scanning EXCEPT ![r] =
        [pc |-> "insert",
         found |-> [t \in Tag |->
            IF t \in TagsOf[r] THEN ScanResult(AuditOf[r], t) ELSE Unscanned]]]
  /\ UNCHANGED <<dbVars, scans, completing, cancelling>>

(* createMany with skipDuplicates: a tag that is there already stays.      *)
InsertScans(r) ==
  LET a == AuditOf[r]
  IN  /\ scanning[r].pc = "insert"
      /\ scans' = [scans EXCEPT ![a] = [t \in Tag |->
            IF scans[a][t].result = "NONE" THEN scanning[r].found[t] ELSE scans[a][t]]]
      /\ EndScan(r, "ok")
      /\ UNCHANGED <<dbVars, completing, cancelling>>

AbortScan(r) ==
  /\ scanning[r].pc \in {"header", "resolve", "insert"}
  /\ EndScan(r, "failed")
  /\ UNCHANGED <<dbVars, scans, completing, cancelling>>

-----------------------------------------------------------------------------
(* completeAudit                                                           *)

EndCompletion(r, outcome) ==
  completing' = [completing EXCEPT ![r] = [IdleCompletion EXCEPT !.pc = outcome]]

ReadForCompletion(r) ==
  LET status == AuditStatus(AuditOf[r])
  IN  /\ completing[r].pc = "idle"
      /\ CASE status = "IN_PROGRESS" -> completing' = [completing EXCEPT ![r].pc = "claim"]
           [] status = "COMPLETED" -> EndCompletion(r, "ok")
           [] OTHER -> EndCompletion(r, "failed")
      /\ UNCHANGED <<dbVars, scans, scanning, cancelling>>

(* Mutant: the claim does not look at the status it overwrites.            *)
ClaimsAnyway(r, a) == TRUE

(* The condition of the claiming updateMany.                               *)
Claimable(r, a) == Visible(r, a).status = "IN_PROGRESS"

(* Whoever flips IN_PROGRESS to COMPLETED first wins; the other is done.   *)
ClaimAudit(r) ==
  LET a == AuditOf[r]
  IN  /\ completing[r].pc = "claim"
      /\ Lockable(r, a)
      /\ IF Claimable(r, a)
           THEN /\ Stage(r, Write(a, [status |-> "COMPLETED"]))
                /\ completing' = [completing EXCEPT ![r].pc = "refresh"]
           ELSE EndCompletion(r, "ok") /\ UNCHANGED dbVars
      /\ UNCHANGED <<scans, scanning, cancelling>>

(* refreshScanResults resolves the scans there are by now; the units it    *)
(* reads are what the plan knows of the scanned units.                     *)
RefreshScanResults(r) ==
  LET a == AuditOf[r]
      seen == [t \in Tag |-> IF scans[a][t].result = "NONE" THEN Unscanned ELSE ScanResult(a, t)]
      units == {seen[t].unit : t \in Tag} \ {NoUnit}
  IN  /\ completing[r].pc = "refresh"
      /\ completing' = [completing EXCEPT ![r] =
            [pc |-> "plan", seen |-> seen, todo |-> {},
             scanned |-> {[unit |-> u, status |-> committed[u].status, loc |-> committed[u].loc] :
                u \in {v \in units : /\ committed[v].status \in AUDIT_MANAGED_STATUSES
                                     /\ ~ committed[ProductOf[v]].isArchived}}]]
      /\ UNCHANGED <<dbVars, scans, scanning, cancelling>>

(* planUnitTransitions' first group: the units that belong here.           *)
HomeTransitions(a, scanned) ==
  LET here == {u \in Unit : /\ committed[u].loc = AuditLocation[a]
                            /\ committed[u].status \in AUDIT_MANAGED_STATUSES
                            /\ ~ committed[ProductOf[u]].isArchived}
      to(u) == IF u \in {s.unit : s \in scanned} THEN "IN_STOCK"
               ELSE IF committed[u].status = "IN_STOCK" THEN "MISSING"
               ELSE committed[u].status
  IN  {[unit |-> u, from |-> committed[u].status, to |-> to(u), away |-> FALSE] : u \in here}

(* Its second group: the units scanned here whose home is elsewhere.       *)
AwayTransitions(a, scanned) ==
  {[unit |-> s.unit, from |-> s.status, to |-> "MISPLACED", away |-> TRUE] :
     s \in {x \in scanned : x.loc # AuditLocation[a]}}

PlanUnitTransitions(r) ==
  LET a == AuditOf[r]
      scanned == completing[r].scanned
      all == HomeTransitions(a, scanned) \cup AwayTransitions(a, scanned)
  IN  /\ completing[r].pc = "plan"
      /\ completing' = [completing EXCEPT
            ![r] = [@ EXCEPT !.pc = "reconcile", !.todo = {tr \in all : tr.from # tr.to}]]
      /\ UNCHANGED <<dbVars, scans, scanning, cancelling>>

(* What a transition does to the balance.                                  *)
Shift(tr) ==
  IF (tr.to \in STOCK_COUNTED_STATUSES) = (tr.from \in STOCK_COUNTED_STATUSES) THEN 0
  ELSE IF tr.to \in STOCK_COUNTED_STATUSES THEN 1 ELSE -1

(* Mutant: the unit is written whatever became of it since the plan.       *)
AppliesToAnyStatus(status, tr) == TRUE

(* The compare-and-set on a unit whose status is `status`.                 *)
StillAsPlanned(status, tr) == status = tr.from

(* The status the transitions of one unit leave it in: the one of the      *)
(* first group is applied first, the other finds what that one left.       *)
HomeApplied(r, planned) ==
  {tr \in planned : ~ tr.away /\ StillAsPlanned(Visible(r, tr.unit).status, tr)}

StatusAtHome(r, planned, u) ==
  LET home == {tr \in HomeApplied(r, planned) : tr.unit = u}
  IN  IF home = {} THEN Visible(r, u).status ELSE (CHOOSE tr \in home : TRUE).to

Applied(r, planned) ==
  HomeApplied(r, planned) \cup
  {tr \in planned : tr.away /\ StillAsPlanned(StatusAtHome(r, planned, tr.unit), tr)}

ReconciledUnit(r, planned, u) ==
  [Visible(r, u) EXCEPT
     !.status = IF \E tr \in Applied(r, planned) : tr.unit = u /\ tr.away
                  THEN "MISPLACED" ELSE StatusAtHome(r, planned, u)]

(* The balance changes of the first i shifts.                              *)
NetShift(shifts, i) ==
  Cardinality({j \in 1 .. i : Shift(shifts[j]) = 1})
    - Cardinality({j \in 1 .. i : Shift(shifts[j]) = -1})

(* Mutant: every movement carries the balance after the whole audit.       *)
FinalBalanceForAll(row, shifts, loc) ==
  LET final == row.quantityOnHand + NetShift(shifts, Len(shifts))
  IN  [row EXCEPT
        !.quantityOnHand = final,
        !.ledger = @ \o [i \in 1 .. Len(shifts) |->
           Movement("ADJUSTMENT", Shift(shifts[i]), final, shifts[i].unit, loc, NoSale, 0)]]

(* One update nets the shifts; a movement per shift carries the balance it *)
(* would have left on its own.                                             *)
AdjustedRow(row, shifts, loc) ==
  [row EXCEPT
     !.quantityOnHand = @ + NetShift(shifts, Len(shifts)),
     !.ledger = @ \o [i \in 1 .. Len(shifts) |->
        Movement("ADJUSTMENT", Shift(shifts[i]), row.quantityOnHand + NetShift(shifts, i),
                 shifts[i].unit, loc, NoSale, 0)]]

(* Mutant: the products are taken from the last to the first.              *)
LastProducts(todo) ==
  LET products == {ProductOf[tr.unit] : tr \in todo}
  IN  {p \in products : \A q \in products : ProductRank[p] >= ProductRank[q]}

(* reconcileUnitStatuses takes the products in the order of their ids.     *)
NextProducts(todo) ==
  LET products == {ProductOf[tr.unit] : tr \in todo}
  IN  {p \in products : \A q \in products : ProductRank[p] <= ProductRank[q]}

(* The product's lock, its units in an order of theirs, then the balance.  *)
ReconcileProduct(r) ==
  /\ completing[r].pc = "reconcile"
  /\ \E p \in NextProducts(completing[r].todo) :
        LET planned == {tr \in completing[r].todo : ProductOf[tr.unit] = p}
            applied == Applied(r, planned)
            shifts == SetToSeq({tr \in applied : Shift(tr) # 0})
            row == AdjustedRow(Visible(r, p), shifts, AuditLocation[AuditOf[r]])
            units == [u \in {tr.unit : tr \in applied} |-> ReconciledUnit(r, planned, u)]
        IN  /\ Lockable(r, p)
            /\ \A tr \in planned : Lockable(r, tr.unit)
            /\ IF Oversold(row)
                 THEN Rollback(r) /\ EndCompletion(r, "failed")
                 ELSE /\ Stage(r, WriteStock(p, row, units))
                      /\ completing' = [completing EXCEPT ![r].todo = @ \ planned]
  /\ UNCHANGED <<scans, scanning, cancelling>>

(* The refreshed results become visible with the rest.                     *)
CommitCompletion(r) ==
  LET a == AuditOf[r]
      seen == completing[r].seen
  IN  /\ completing[r].pc = "reconcile" /\ completing[r].todo = {}
      /\ Commit(r) /\ EndCompletion(r, "ok")
      /\ scans' = [scans EXCEPT ![a] = [t \in Tag |->
            IF seen[t].result = "NONE" THEN scans[a][t] ELSE seen[t]]]
      /\ UNCHANGED <<scanning, cancelling>>

AbortCompletion(r) ==
  /\ completing[r].pc \in {"claim", "refresh", "plan", "reconcile"}
  /\ Rollback(r) /\ EndCompletion(r, "failed")
  /\ UNCHANGED <<scans, scanning, cancelling>>

-----------------------------------------------------------------------------
(* cancelAudit                                                             *)

GoCancel(r, pc) == cancelling' = [cancelling EXCEPT ![r] = pc]

ReadForCancel(r) ==
  LET status == AuditStatus(AuditOf[r])
  IN  /\ cancelling[r] = "idle"
      /\ GoCancel(r, CASE status = "IN_PROGRESS" -> "write"
                       [] status = "CANCELLED" -> "ok"
                       [] OTHER -> "failed")
      /\ UNCHANGED <<dbVars, scans, scanning, completing>>

(* The update names the audit alone.                                       *)
WriteCancelled(r) ==
  /\ cancelling[r] = "write"
  /\ AutoCommit(Write(AuditOf[r], [status |-> "CANCELLED"]))
  /\ GoCancel(r, "ok")
  /\ UNCHANGED <<scans, scanning, completing>>

AbortCancel(r) ==
  /\ cancelling[r] = "write"
  /\ GoCancel(r, "failed")
  /\ UNCHANGED <<dbVars, scans, scanning, completing>>

-----------------------------------------------------------------------------
(* The rows whose lock the next statement of each request takes.           *)
AuditsWant(r) ==
  IF r \in Completions /\ completing[r].pc = "claim" THEN {AuditOf[r]}
  ELSE IF r \in Completions /\ completing[r].pc = "reconcile"
    THEN NextProducts(completing[r].todo)
  ELSE IF r \in Cancellations /\ cancelling[r] = "write" THEN {AuditOf[r]}
  ELSE {}

ScanStep(r) == ReadAuditHeader(r) \/ ResolveScans(r) \/ InsertScans(r)
CompletionStep(r) ==
  \/ ClaimAudit(r) \/ RefreshScanResults(r) \/ PlanUnitTransitions(r)
  \/ ReconcileProduct(r) \/ CommitCompletion(r)

AuditsNext ==
  \/ \E r \in Creations \cup Scanners : CreateInventoryAudit(r) \/ ScanStep(r) \/ AbortScan(r)
  \/ \E r \in Completions : ReadForCompletion(r) \/ CompletionStep(r) \/ AbortCompletion(r)
  \/ \E r \in Cancellations : ReadForCancel(r) \/ WriteCancelled(r) \/ AbortCancel(r)

-----------------------------------------------------------------------------
(* What an audit changes by being completed.                               *)
Spares(old, new) ==
  /\ old.status \in AUDIT_MANAGED_STATUSES /\ new.status \in AUDIT_MANAGED_STATUSES
  /\ new.loc = old.loc

CompletedBy(a) == committed[a].status = "IN_PROGRESS" /\ committed'[a].status = "COMPLETED"

(* reconcileUnitStatuses "only touches audit-managed statuses" and "uses   *)
(* compare-and-set so concurrently sold/changed units are skipped": the    *)
(* commit of an audit changes no unit whose committed status by then is not*)
(* one of those, leaves each unit it does change in one of them, and moves *)
(* none of them.                                                           *)
AuditSparesOthers ==
  [][(\E a \in Audit : CompletedBy(a)) =>
       \A u \in Unit :
          committed'[u] # committed[u] => Spares(committed[u], committed'[u])]_auditVars

(* "Whoever flips IN_PROGRESS -> COMPLETED first wins": of the requests that*)
(* complete one audit, only the one whose commit flips it applies stock    *)
(* changes, and it flips it however long its reconciliation took.          *)
OneReconciliation ==
  [][\A r \in Completions :
        completing[r].pc = "reconcile" /\ completing'[r].pc = "ok"
          => CompletedBy(AuditOf[r])]_auditVars

(* The inductive invariant behind these two.  A completion holds its audit *)
(* exactly from its claim to its end, with IN_PROGRESS behind it and       *)
(* COMPLETED to come; nobody else holds audits; and the units it holds are *)
(* ones it spares.                                                         *)
AuditClaimed(r) ==
  LET a == AuditOf[r]
  IN  IF completing[r].pc \in {"refresh", "plan", "reconcile"}
        THEN /\ holder[a] = r
             /\ committed[a].status = "IN_PROGRESS" /\ pending[a].status = "COMPLETED"
        ELSE holder[a] # r

UnitsSpared(r) == \A u \in Unit : holder[u] = r => Spares(committed[u], pending[u])

AuditsConsistent ==
  /\ \A a \in Audit : holder[a] \in Completions \cup {NoReq}
  /\ \A r \in Completions : AuditClaimed(r) /\ UnitsSpared(r)

(* What the plan of a completion has for one unit: at most one transition  *)
(* of each group, and a unit of both goes to IN_STOCK before MISPLACED, so *)
(* that its two transitions together shift the balance as its status does. *)
PlanOnce(scanned, todo) ==
  /\ \A s, t \in scanned : s.unit = t.unit => s = t
  /\ \A x, y \in todo : x.unit = y.unit /\ x.away = y.away => x = y
  /\ \A x, y \in todo : x.unit = y.unit /\ ~ x.away /\ y.away => x.to = "IN_STOCK"
  /\ \A x \in todo : x.away => x.to = "MISPLACED"

PlannedOnce == \A r \in Completions : PlanOnce(completing[r].scanned, completing[r].todo)

(* 'Completed audits cannot be cancelled' (cancelAudit): COMPLETED is final.*)
CompletedIsFinal ==
  [][\A a \in Audit : committed[a].status = "COMPLETED"
        => committed'[a].status = "COMPLETED"]_auditVars

(* "Unmatched expected units become MISSING": a unit the audit reports     *)
(* missing is one that belonged to the place that was counted.             *)
MissingWhereCounted ==
  [][\A a \in Audit : CompletedBy(a) =>
        \A u \in Unit :
           committed[u].status # "MISSING" /\ committed'[u].status = "MISSING"
             => committed[u].loc = AuditLocation[a]]_auditVars
=============================================================================
