----------------------------- MODULE AuditProofs -----------------------------
(***************************************************************************)
(* Every step of the audit handlers keeps the tables' invariant and its own*)
(* local variables well typed.                                             *)
(***************************************************************************)
EXTENDS InventoryAudit, StockDbProofs, FiniteSetTheorems

(* What is to be shown of each step.                                       *)
AuditsStep == DbStep /\ TypeOKAudits'

-----------------------------------------------------------------------------
(* Finitely many transitions, put in a sequence.                           *)

LEMMA ManagedFinite == IsFiniteSet(AUDIT_MANAGED_STATUSES)
<1>1. AUDIT_MANAGED_STATUSES = (({} \cup {"IN_STOCK"}) \cup {"MISSING"}) \cup {"MISPLACED"}
  BY DEF AUDIT_MANAGED_STATUSES
<1> QED
  BY <1>1, FS_EmptySet, FS_AddElement

LEMMA TransitionsFinite ==
  ASSUME NEW S \in SUBSET UnitTransition
  PROVE  IsFiniteSet(S)
<1> DEFINE T == Unit \X (AUDIT_MANAGED_STATUSES \X (AUDIT_MANAGED_STATUSES \X BOOLEAN))
           f == [tr \in S |-> <<tr.unit, <<tr.from, <<tr.to, tr.away>>>>>>]
<1>1. IsFiniteSet(BOOLEAN)
  <2>1. IsFiniteSet({} \cup {TRUE})
    BY FS_EmptySet, FS_AddElement
  <2>2. IsFiniteSet(({} \cup {TRUE}) \cup {FALSE})
    BY <2>1, FS_AddElement
  <2>3. BOOLEAN = ({} \cup {TRUE}) \cup {FALSE}
    OBVIOUS
  <2> QED
    BY <2>2, <2>3, Zenon
<1>2. IsFiniteSet(AUDIT_MANAGED_STATUSES \X BOOLEAN)
  BY <1>1, ManagedFinite, FS_Product
<1>3. IsFiniteSet(AUDIT_MANAGED_STATUSES \X (AUDIT_MANAGED_STATUSES \X BOOLEAN))
  BY <1>2, ManagedFinite, FS_Product
<1>4. IsFiniteSet(T)
  BY <1>3, AuditAssumption, FS_Product
<1>5. f \in [S -> T]
  BY DEF UnitTransition
<1>6. ASSUME NEW a \in S, NEW b \in S, f[a] = f[b]
      PROVE  a = b
  <2>1. a \in UnitTransition /\ b \in UnitTransition
    OBVIOUS
  <2>2. a.unit = b.unit /\ a.from = b.from /\ a.to = b.to /\ a.away = b.away
    BY <1>6
  <2> HIDE DEF f
  <2> QED
    BY <2>1, <2>2 DEF UnitTransition
<1> HIDE DEF f, T
<1>7. f \in Injection(S, T)
  BY <1>5, <1>6 DEF Injection, IsInjective
<1> QED
  BY <1>4, <1>7, FS_Injection

(* SetToSeq makes a sequence of transitions of a set of them.              *)
LEMMA TransitionSequence ==
  ASSUME NEW S \in SUBSET UnitTransition
  PROVE  SetToSeq(S) \in Seq(UnitTransition)
<1>1. IsFiniteSet(S)
  BY TransitionsFinite
<1>2. Cardinality(S) \in Nat /\ ExistsBijection(1 .. Cardinality(S), S)
  BY <1>1, FS_CardinalityType
<1>3. \E f \in [1 .. Cardinality(S) -> S] : IsInjective(f)
  BY <1>2 DEF ExistsBijection, Bijection, Injection
<1>4. SetToSeq(S) \in [1 .. Cardinality(S) -> S]
  BY <1>3 DEF SetToSeq
<1> QED
  BY <1>2, <1>4

(* A running total of shifts grows by one shift at a time.                 *)
LEMMA NetShiftStep ==
  ASSUME NEW shifts \in Seq(UnitTransition)
  PROVE  /\ NetShift(shifts, 0) = 0
         /\ \A i \in 0 .. Len(shifts) : NetShift(shifts, i) \in Int
         /\ \A i \in 1 .. Len(shifts) :
              NetShift(shifts, i) = NetShift(shifts, i - 1) + Shift(shifts[i])
<1> DEFINE Those(d, i) == {j \in 1 .. i : Shift(shifts[j]) = d}
<1>1. \A d : \A i \in Nat : IsFiniteSet(Those(d, i)) /\ Cardinality(Those(d, i)) \in Nat
  <2> TAKE d
  <2> TAKE i \in Nat
  <2>1. IsFiniteSet(1 .. i)
    BY FS_Interval
  <2>2. Those(d, i) \in SUBSET (1 .. i)
    OBVIOUS
  <2> HIDE DEF Those
  <2>3. IsFiniteSet(Those(d, i))
    BY <2>1, <2>2, FS_Subset
  <2> QED
    BY <2>3, FS_CardinalityType
<1>2. ASSUME NEW d, NEW i \in Nat \ {0}
      PROVE  Cardinality(Those(d, i)) =
               Cardinality(Those(d, i - 1)) + (IF Shift(shifts[i]) = d THEN 1 ELSE 0)
  <2>1. IsFiniteSet(Those(d, i - 1)) /\ Cardinality(Those(d, i - 1)) \in Nat
    <3>1. i - 1 \in Nat
      OBVIOUS
    <3> HIDE DEF Those
    <3> QED
      BY <1>1, <3>1
  <2>2. i \notin Those(d, i - 1)
    OBVIOUS
  <2>3. CASE Shift(shifts[i]) = d
    <3>1. Those(d, i) = Those(d, i - 1) \cup {i}
      BY <2>3
    <3> HIDE DEF Those
    <3> QED
      BY <2>1, <2>2, <2>3, <3>1, FS_AddElement
  <2>4. CASE Shift(shifts[i]) # d
    <3>1. Those(d, i) = Those(d, i - 1)
      BY <2>4
    <3> HIDE DEF Those
    <3> QED
      BY <2>1, <2>4, <3>1
  <2> QED
    BY <2>3, <2>4
<1>3. \A i : NetShift(shifts, i) = Cardinality(Those(1, i)) - Cardinality(Those(-1, i))
  BY DEF NetShift
<1>4. Those(1, 0) = {} /\ Those(-1, 0) = {}
  OBVIOUS
<1> HIDE DEF Those
<1>5. NetShift(shifts, 0) = 0
  <2>1. NetShift(shifts, 0) = Cardinality({}) - Cardinality({})
    BY <1>3, <1>4, Zenon
  <2>2. Cardinality({}) = 0
    BY FS_EmptySet
  <2> QED
    BY <2>1, <2>2
<1>6. \A i \in 0 .. Len(shifts) : NetShift(shifts, i) \in Int
  <2> TAKE i \in 0 .. Len(shifts)
  <2>1. i \in Nat
    OBVIOUS
  <2> QED
    BY <1>1, <1>3, <2>1
<1>7. ASSUME NEW i \in 1 .. Len(shifts)
      PROVE  NetShift(shifts, i) = NetShift(shifts, i - 1) + Shift(shifts[i])
  <2>1. i \in Nat \ {0} /\ i - 1 \in Nat
    OBVIOUS
  <2>2. Shift(shifts[i]) \in {-1, 0, 1}
    BY DEF Shift
  <2>3. /\ Cardinality(Those(1, i - 1)) \in Nat /\ Cardinality(Those(-1, i - 1)) \in Nat
    BY <1>1, <2>1
  <2>4. /\ Cardinality(Those(1, i)) =
             Cardinality(Those(1, i - 1)) + (IF Shift(shifts[i]) = 1 THEN 1 ELSE 0)
        /\ Cardinality(Those(-1, i)) =
             Cardinality(Those(-1, i - 1)) + (IF Shift(shifts[i]) = -1 THEN 1 ELSE 0)
    BY <1>2, <2>1
  <2>5. /\ NetShift(shifts, i) = Cardinality(Those(1, i)) - Cardinality(Those(-1, i))
        /\ NetShift(shifts, i - 1) =
             Cardinality(Those(1, i - 1)) - Cardinality(Those(-1, i - 1))
    BY <1>3
  <2> QED
    BY <2>2, <2>3, <2>4, <2>5
<1> QED
  BY <1>5, <1>6, <1>7

-----------------------------------------------------------------------------
(* What a reconciliation writes.                                           *)

(* The balances of the movements of one product's shifts follow each other.*)
LEMMA AdjustedOK ==
  ASSUME NEW p \in Product, NEW row \in ProductRow, Balanced(p, row),
         NEW shifts \in Seq(UnitTransition), NEW loc \in Location,
         ~ Oversold(AdjustedRow(row, shifts, loc))
  PROVE  LET new == AdjustedRow(row, shifts, loc)
         IN  /\ new \in ProductRow
             /\ Balanced(p, new)
             /\ Continues(row.ledger, new.ledger)
<1> DEFINE n == Len(shifts)
           batch == [i \in 1 .. n |->
                       Movement("ADJUSTMENT", Shift(shifts[i]),
                                row.quantityOnHand + NetShift(shifts, i),
                                shifts[i].unit, loc, NoSale, 0)]
           new == AdjustedRow(row, shifts, loc)
<1>1. row.quantityOnHand \in Nat /\ n \in Nat
  BY LedgerType
<1>2. /\ NetShift(shifts, 0) = 0
      /\ \A i \in 0 .. n : NetShift(shifts, i) \in Int
      /\ \A i \in 1 .. n : NetShift(shifts, i) = NetShift(shifts, i - 1) + Shift(shifts[i])
  BY NetShiftStep
<1>3. \A i \in 1 .. n : /\ batch[i].quantityAfter = row.quantityOnHand + NetShift(shifts, i)
                        /\ batch[i].quantityChange = Shift(shifts[i])
  BY DEF Movement
<1>4. batch \in Seq(StockMovement) /\ Len(batch) = n
  <2>1. ASSUME NEW i \in 1 .. n
        PROVE  batch[i] \in StockMovement
    <3>1. shifts[i] \in UnitTransition
      OBVIOUS
    <3>2. shifts[i].unit \in Unit /\ Shift(shifts[i]) \in Int
      BY <3>1 DEF UnitTransition, Shift
    <3>3. row.quantityOnHand + NetShift(shifts, i) \in Int
      BY <1>1, <1>2
    <3>4. "ADJUSTMENT" \in SystemKey
      BY DEF SystemKey
    <3> QED
      BY <3>2, <3>3, <3>4 DEF Movement, StockMovement
  <2>2. batch = [i \in 1 .. n |-> batch[i]]
    OBVIOUS
  <2> HIDE DEF batch, n
  <2> QED
    BY <1>1, <2>1, <2>2
<1>5. new = [quantityOnHand |-> row.quantityOnHand + NetShift(shifts, n),
             ledger |-> row.ledger \o batch, isArchived |-> row.isArchived, card |-> row.card]
  <2> DEFINE moved == [row EXCEPT !.quantityOnHand = @ + NetShift(shifts, Len(shifts))]
             whole == row.ledger \o batch
  <2>1. new = [moved EXCEPT !.ledger = whole]
    BY Zenon DEF AdjustedRow
  <2>2. moved = [quantityOnHand |-> row.quantityOnHand + NetShift(shifts, n),
                 ledger |-> row.ledger, isArchived |-> row.isArchived, card |-> row.card]
    BY DEF ProductRow
  <2> HIDE DEF moved, new, batch, whole
  <2>3. new = [quantityOnHand |-> row.quantityOnHand + NetShift(shifts, n),
               ledger |-> whole, isArchived |-> row.isArchived, card |-> row.card]
    BY <2>1, <2>2
  <2> QED
    BY <2>3 DEF whole
<1>6. ~ new.quantityOnHand < 0
  BY DEF Oversold
<1> HIDE DEF batch, new, n
<1>7. \A i \in 1 .. n + 1 :
        BatchBefore(row, batch, i) = row.quantityOnHand + NetShift(shifts, i - 1)
  <2> TAKE i \in 1 .. n + 1
  <2>1. CASE i = 1
    BY <1>1, <1>2, <2>1 DEF BatchBefore
  <2>2. CASE i # 1
    <3>1. i - 1 \in 1 .. n
      BY <1>1, <2>2
    <3> QED
      BY <1>3, <2>2, <3>1 DEF BatchBefore
  <2> QED
    BY <2>1, <2>2
<1>8. \A i \in 1 .. Len(batch) :
        batch[i].quantityAfter = BatchBefore(row, batch, i) + batch[i].quantityChange
  <2> TAKE i \in 1 .. Len(batch)
  <2>1. i \in 1 .. n /\ i \in 1 .. n + 1 /\ i - 1 \in 0 .. n
    BY <1>1, <1>4
  <2>2. Shift(shifts[i]) \in Int
    BY DEF Shift
  <2> QED
    BY <1>1, <1>2, <1>3, <1>7, <2>1, <2>2, SMTT(20)
<1>9. new = [quantityOnHand |-> BatchBefore(row, batch, Len(batch) + 1),
             ledger |-> row.ledger \o batch, isArchived |-> row.isArchived, card |-> row.card]
  <2>1. n + 1 \in 1 .. n + 1 /\ (n + 1) - 1 = n
    BY <1>1
  <2>2. BatchBefore(row, batch, Len(batch) + 1) = row.quantityOnHand + NetShift(shifts, n)
    BY <1>4, <1>7, <2>1
  <2> QED
    BY <1>5, <2>2
<1>10. new.quantityOnHand \in Nat
  <2>1. n \in 0 .. n
    BY <1>1
  <2> QED
    BY <1>1, <1>2, <1>5, <1>6, <2>1
<1>11. /\ new \in ProductRow /\ Balanced(p, new)
       /\ Continues(row.ledger, new.ledger)
  BY <1>4, <1>8, <1>9, <1>10, BatchPostedOK
<1> QED
  BY <1>11 DEF new

(* A unit is left in one of the statuses an audit manages, or as it was.   *)
LEMMA ReconciledUnitOK ==
  ASSUME DbInv, NEW r \in Req, NEW planned \in SUBSET UnitTransition, NEW u \in Unit
  PROVE  ReconciledUnit(r, planned, u) \in UnitRow
<1> DEFINE row == Visible(r, u)
           home == {tr \in HomeApplied(r, planned) : tr.unit = u}
           to == IF \E tr \in Applied(r, planned) : tr.unit = u /\ tr.away
                   THEN "MISPLACED" ELSE StatusAtHome(r, planned, u)
<1>1. row \in UnitRow
  BY VisibleOK DEF RowOK, Row
<1>2. AUDIT_MANAGED_STATUSES \subseteq ProductUnitStatus
  BY DEF AUDIT_MANAGED_STATUSES, ProductUnitStatus, STOCK_COUNTED_STATUSES
<1>3. StatusAtHome(r, planned, u) \in ProductUnitStatus \cup {"UNREGISTERED"}
  <2>1. CASE home = {}
    BY <1>1, <2>1 DEF StatusAtHome, UnitRow
  <2>2. CASE home # {}
    <3>1. (CHOOSE tr \in home : TRUE) \in home
      BY <2>2
    <3>2. \A tr \in home : tr.to \in AUDIT_MANAGED_STATUSES
      BY DEF HomeApplied, UnitTransition
    <3> QED
      BY <1>2, <2>2, <3>1, <3>2 DEF StatusAtHome
  <2> QED
    BY <2>1, <2>2
<1>4. to \in ProductUnitStatus \cup {"UNREGISTERED"}
  BY <1>2, <1>3 DEF AUDIT_MANAGED_STATUSES
<1>5. ReconciledUnit(r, planned, u) = [row EXCEPT !.status = to]
  BY Zenon DEF ReconciledUnit
<1> HIDE DEF row, to
<1> QED
  BY <1>1, <1>4, <1>5 DEF UnitRow

-----------------------------------------------------------------------------
(* The local variables.                                                    *)

LEMMA NothingFoundType == NothingFound \in [Tag -> ScanRow]
<1>1. Unscanned \in ScanRow
  BY DEF Unscanned, ScanRow
<1> QED
  BY <1>1 DEF NothingFound

(* The request named in an audit handler is one, and so is its audit.      *)
LEMMA AuditRequest ==
  ASSUME NEW r \in Creations \cup Scanners \cup Completions \cup Cancellations
  PROVE  r \in Req /\ AuditOf[r] \in Audit
BY AuditAssumption

LEMMA EndScanKeeps ==
  ASSUME TypeOKAudits, NEW r \in Creations \cup Scanners, NEW outcome \in Answered,
         EndScan(r, outcome), scans' \in [Audit -> [Tag -> ScanRow]],
         UNCHANGED <<completing, cancelling>>
  PROVE  TypeOKAudits'
<1> DEFINE ended == [IdleScan EXCEPT !.pc = outcome]
<1>1. ended = [pc |-> outcome, found |-> NothingFound]
  BY DEF IdleScan
<1>2. scanning' = [scanning EXCEPT ![r] = ended]
  BY DEF EndScan
<1> HIDE DEF ended
<1>3. ended \in ScanState
  BY <1>1, NothingFoundType DEF ScanState
<1> QED
  BY <1>2, <1>3 DEF TypeOKAudits

(* A scan handler goes on to its next statement.                           *)
LEMMA ScanAdvances ==
  ASSUME TypeOKAudits, NEW r \in Creations \cup Scanners,
         NEW pc \in {"header", "resolve", "insert"},
         scanning' = [scanning EXCEPT ![r].pc = pc],
         UNCHANGED <<scans, completing, cancelling>>
  PROVE  TypeOKAudits'
<1> DEFINE d == [scanning[r] EXCEPT !.pc = pc]
<1>1. scanning[r] \in ScanState
  BY DEF TypeOKAudits
<1>2. d = [pc |-> pc, found |-> scanning[r].found]
  BY <1>1 DEF ScanState
<1>3. scanning' = [scanning EXCEPT ![r] = d]
  BY DEF TypeOKAudits
<1> HIDE DEF d
<1>4. d \in ScanState
  BY <1>1, <1>2 DEF ScanState
<1> QED
  BY <1>3, <1>4 DEF TypeOKAudits

LEMMA EndCompletionKeeps ==
  ASSUME TypeOKAudits, NEW r \in Completions, NEW outcome \in Answered,
         EndCompletion(r, outcome), scans' \in [Audit -> [Tag -> ScanRow]],
         UNCHANGED <<scanning, cancelling>>
  PROVE  TypeOKAudits'
<1> DEFINE ended == [IdleCompletion EXCEPT !.pc = outcome]
<1>1. IdleCompletion \in CompletionState
  BY NothingFoundType DEF IdleCompletion, CompletionState
<1>2. completing' = [completing EXCEPT ![r] = ended]
  BY DEF EndCompletion
<1>3. ended \in CompletionState
  BY <1>1 DEF CompletionState
<1> HIDE DEF ended
<1> QED
  BY <1>2, <1>3 DEF TypeOKAudits

(* A completion goes on, with a state of its own.                          *)
LEMMA CompletionAdvances ==
  ASSUME TypeOKAudits, NEW r \in Completions, NEW d \in CompletionState,
         completing' = [completing EXCEPT ![r] = d],
         UNCHANGED <<scans, scanning, cancelling>>
  PROVE  TypeOKAudits'
BY DEF TypeOKAudits

LEMMA GoCancelKeeps ==
  ASSUME TypeOKAudits, NEW r \in Cancellations, NEW pc \in {"write"} \cup Answered,
         GoCancel(r, pc), UNCHANGED <<scans, scanning, completing>>
  PROVE  TypeOKAudits'
BY DEF TypeOKAudits, GoCancel

-----------------------------------------------------------------------------
(* The rows of an audit.                                                   *)

LEMMA AuditCommitted ==
  ASSUME DbInv, NEW a \in Audit, NEW value \in AuditRow, AutoCommit(Write(a, value))
  PROVE  DbStep
<1>1. \A x \in DOMAIN Write(a, value) : x \in Row /\ RowOK(x, Write(a, value)[x])
  BY RowAssumption DEF Write, RowOK, Row
<1>2. \A p \in Product : p \notin DOMAIN Write(a, value)
  BY RowAssumption DEF Write
<1> QED
  BY <1>1, <1>2, AutoCommitKeeps DEF DbStep

LEMMA AuditStaged ==
  ASSUME DbInv, NEW r \in Req, NEW a \in Audit, NEW value \in AuditRow,
         Stage(r, Write(a, value))
  PROVE  DbStep
<1>1. \A x \in DOMAIN Write(a, value) : x \in Row /\ RowOK(x, Write(a, value)[x])
  BY RowAssumption DEF Write, RowOK, Row
<1>2. \A p \in Product : p \notin DOMAIN Write(a, value)
  BY RowAssumption DEF Write
<1> QED
  BY <1>1, <1>2, StageKeeps, NothingPublished DEF DbStep

-----------------------------------------------------------------------------
(* createInventoryAudit and addScans                                       *)

LEMMA CreateInventoryAuditKeeps ==
  ASSUME DbInv, TypeOKAudits, NEW r \in Creations, CreateInventoryAudit(r)
  PROVE  AuditsStep
<1>1. DbStep
  <2>1. [status |-> "IN_PROGRESS"] \in AuditRow
    BY DEF AuditRow
  <2> QED
    BY <2>1, AuditRequest, AuditCommitted DEF CreateInventoryAudit
<1>2. scans' \in [Audit -> [Tag -> ScanRow]]
  BY DEF CreateInventoryAudit, TypeOKAudits
<1>3. CASE EndScan(r, "ok")
  BY <1>1, <1>2, <1>3, EndScanKeeps DEF CreateInventoryAudit, Answered, AuditsStep
<1>4. CASE scanning' = [scanning EXCEPT ![r].pc = "header"]
  BY <1>1, <1>4, ScanAdvances DEF CreateInventoryAudit, AuditsStep
<1> QED
  BY <1>3, <1>4 DEF CreateInventoryAudit

LEMMA ReadAuditHeaderKeeps ==
  ASSUME DbInv, TypeOKAudits, NEW r \in Creations \cup Scanners, ReadAuditHeader(r)
  PROVE  AuditsStep
<1>1. DbStep
  BY TablesUnchanged DEF ReadAuditHeader
<1>2. scans' \in [Audit -> [Tag -> ScanRow]]
  BY DEF ReadAuditHeader, TypeOKAudits
<1>3. TypeOKAudits'
  BY <1>2, EndScanKeeps, ScanAdvances DEF ReadAuditHeader, Answered
<1> QED
  BY <1>1, <1>3 DEF AuditsStep

LEMMA ScanResultType ==
  ASSUME NEW a \in Audit, NEW t \in Tag
  PROVE  ScanResult(a, t) \in ScanRow
BY AuditAssumption DEF ScanResult, ScanRow

LEMMA ResolveScansKeeps ==
  ASSUME DbInv, TypeOKAudits, NEW r \in Creations \cup Scanners, ResolveScans(r)
  PROVE  AuditsStep
<1> DEFINE found == [t \in Tag |->
                       IF t \in TagsOf[r] THEN ScanResult(AuditOf[r], t) ELSE Unscanned]
           d == [pc |-> "insert", found |-> found]
<1>1. DbStep
  BY TablesUnchanged DEF ResolveScans
<1>2. found \in [Tag -> ScanRow]
  <2>1. Unscanned \in ScanRow
    BY DEF Unscanned, ScanRow
  <2> QED
    BY <2>1, AuditRequest, ScanResultType
<1>3. scanning' = [scanning EXCEPT ![r] = d]
  BY DEF ResolveScans
<1> HIDE DEF found
<1>4. d \in ScanState
  BY <1>2 DEF ScanState
<1> HIDE DEF d
<1>5. TypeOKAudits'
  BY <1>3, <1>4 DEF TypeOKAudits, ResolveScans
<1> QED
  BY <1>1, <1>5 DEF AuditsStep

LEMMA InsertScansKeeps ==
  ASSUME DbInv, TypeOKAudits, NEW r \in Creations \cup Scanners, InsertScans(r)
  PROVE  AuditsStep
<1> DEFINE a == AuditOf[r]
           rows == [t \in Tag |->
                      IF scans[a][t].result = "NONE" THEN scanning[r].found[t] ELSE scans[a][t]]
<1>1. DbStep
  BY TablesUnchanged DEF InsertScans
<1>2. a \in Audit
  BY AuditRequest
<1>3. scanning[r] \in ScanState
  BY DEF TypeOKAudits
<1>4. scanning[r].found \in [Tag -> ScanRow]
  BY <1>3 DEF ScanState
<1>5. rows \in [Tag -> ScanRow]
  BY <1>2, <1>4 DEF TypeOKAudits
<1>6. scans' = [scans EXCEPT ![a] = rows]
  BY DEF InsertScans
<1> HIDE DEF rows, a
<1>7. scans' \in [Audit -> [Tag -> ScanRow]]
  BY <1>5, <1>6 DEF TypeOKAudits
<1>8. TypeOKAudits'
  BY <1>7, EndScanKeeps DEF InsertScans, Answered
<1> QED
  BY <1>1, <1>8 DEF AuditsStep

LEMMA AbortScanKeeps ==
  ASSUME DbInv, TypeOKAudits, NEW r \in Creations \cup Scanners, AbortScan(r)
  PROVE  AuditsStep
<1>1. DbStep
  BY TablesUnchanged DEF AbortScan
<1>2. scans' \in [Audit -> [Tag -> ScanRow]]
  BY DEF AbortScan, TypeOKAudits
<1>3. TypeOKAudits'
  BY <1>2, EndScanKeeps DEF AbortScan, Answered
<1> QED
  BY <1>1, <1>3 DEF AuditsStep

-----------------------------------------------------------------------------
(* completeAudit                                                           *)

(* The handler goes on to its next statement with what it knows.           *)
LEMMA CompletionPc ==
  ASSUME TypeOKAudits, NEW r \in Completions, NEW pc \in {"claim", "refresh"},
         completing' = [completing EXCEPT ![r].pc = pc],
         UNCHANGED <<scans, scanning, cancelling>>
  PROVE  TypeOKAudits'
<1> DEFINE d == [completing[r] EXCEPT !.pc = pc]
<1>1. completing[r] \in CompletionState
  BY DEF TypeOKAudits
<1>2. completing' = [completing EXCEPT ![r] = d]
  BY DEF TypeOKAudits
<1>3. d \in CompletionState
  BY <1>1 DEF CompletionState
<1> HIDE DEF d
<1> QED
  BY <1>2, <1>3, CompletionAdvances

LEMMA ReadForCompletionKeeps ==
  ASSUME DbInv, TypeOKAudits, NEW r \in Completions, ReadForCompletion(r)
  PROVE  AuditsStep
<1>1. DbStep
  BY TablesUnchanged DEF ReadForCompletion
<1>2. scans' \in [Audit -> [Tag -> ScanRow]]
  BY DEF ReadForCompletion, TypeOKAudits
<1>3. CASE completing' = [completing EXCEPT ![r].pc = "claim"]
  BY <1>1, <1>3, CompletionPc DEF ReadForCompletion, AuditsStep
<1>4. CASE EndCompletion(r, "ok") \/ EndCompletion(r, "failed")
  BY <1>1, <1>2, <1>4, EndCompletionKeeps DEF ReadForCompletion, Answered, AuditsStep
<1> QED
  BY <1>3, <1>4 DEF ReadForCompletion

LEMMA ClaimAuditKeeps ==
  ASSUME DbInv, TypeOKAudits, NEW r \in Completions, ClaimAudit(r)
  PROVE  AuditsStep
<1>1. r \in Req /\ AuditOf[r] \in Audit
  BY AuditRequest
<1>2. scans' \in [Audit -> [Tag -> ScanRow]]
  BY DEF ClaimAudit, TypeOKAudits
<1>3. CASE /\ Stage(r, Write(AuditOf[r], [status |-> "COMPLETED"]))
           /\ completing' = [completing EXCEPT ![r].pc = "refresh"]
  <2>1. [status |-> "COMPLETED"] \in AuditRow
    BY DEF AuditRow
  <2>2. DbStep
    BY <1>1, <1>3, <2>1, AuditStaged
  <2>3. TypeOKAudits'
    BY <1>3, CompletionPc DEF ClaimAudit
  <2> QED
    BY <2>2, <2>3 DEF AuditsStep
<1>4. CASE EndCompletion(r, "ok") /\ UNCHANGED dbVars
  BY <1>2, <1>4, TablesUnchanged, EndCompletionKeeps DEF ClaimAudit, Answered, AuditsStep
<1> QED
  BY <1>3, <1>4 DEF ClaimAudit

LEMMA RefreshScanResultsKeeps ==
  ASSUME DbInv, TypeOKAudits, NEW r \in Completions, RefreshScanResults(r)
  PROVE  AuditsStep
<1> DEFINE a == AuditOf[r]
           seen == [t \in Tag |->
                      IF scans[a][t].result = "NONE" THEN Unscanned ELSE ScanResult(a, t)]
           units == {seen[t].unit : t \in Tag} \ {NoUnit}
           managed == {v \in units : /\ committed[v].status \in AUDIT_MANAGED_STATUSES
                                     /\ ~ committed[ProductOf[v]].isArchived}
           scanned == {[unit |-> u, status |-> committed[u].status,
                        loc |-> committed[u].loc] : u \in managed}
           d == [pc |-> "plan", seen |-> seen, todo |-> {}, scanned |-> scanned]
<1>1. DbStep
  BY TablesUnchanged DEF RefreshScanResults
<1>2. seen \in [Tag -> ScanRow]
  <2>1. Unscanned \in ScanRow
    BY DEF Unscanned, ScanRow
  <2> QED
    BY <2>1, AuditRequest, ScanResultType
<1>3. completing' = [completing EXCEPT ![r] = d]
  BY DEF RefreshScanResults
<1> HIDE DEF seen
<1>4. units \subseteq Unit
  BY <1>2 DEF ScanRow
<1> HIDE DEF units
<1>5. scanned \in SUBSET ScannedUnit
  <2>1. ASSUME NEW u \in managed
        PROVE  [unit |-> u, status |-> committed[u].status, loc |-> committed[u].loc]
                 \in ScannedUnit
    <3>1. u \in Unit /\ committed[u].status \in AUDIT_MANAGED_STATUSES
      BY <1>4
    <3>2. committed[u] \in UnitRow
      BY <3>1 DEF DbInv, TypeOKDb, DbTypeOK
    <3> QED
      BY <3>1, <3>2 DEF ScannedUnit, UnitRow
  <2> HIDE DEF managed
  <2> QED
    BY <2>1
<1> HIDE DEF scanned
<1>6. d \in CompletionState
  BY <1>2, <1>5 DEF CompletionState
<1> HIDE DEF d
<1>7. TypeOKAudits'
  BY <1>3, <1>6, CompletionAdvances DEF RefreshScanResults
<1> QED
  BY <1>1, <1>7 DEF AuditsStep

LEMMA HomeTransitionsType ==
  ASSUME NEW a \in Audit, NEW scanned \in SUBSET ScannedUnit
  PROVE  HomeTransitions(a, scanned) \in SUBSET UnitTransition
<1> SUFFICES ASSUME NEW u \in Unit, committed[u].status \in AUDIT_MANAGED_STATUSES,
                    NEW to \in {"IN_STOCK", "MISSING", committed[u].status}
             PROVE  [unit |-> u, from |-> committed[u].status, to |-> to, away |-> FALSE]
                      \in UnitTransition
  BY DEF HomeTransitions
<1> QED
  BY DEF UnitTransition, AUDIT_MANAGED_STATUSES

LEMMA AwayTransitionsType ==
  ASSUME NEW a \in Audit, NEW scanned \in SUBSET ScannedUnit
  PROVE  AwayTransitions(a, scanned) \in SUBSET UnitTransition
<1> SUFFICES ASSUME NEW s \in ScannedUnit
             PROVE  [unit |-> s.unit, from |-> s.status, to |-> "MISPLACED", away |-> TRUE]
                      \in UnitTransition
  BY DEF AwayTransitions
<1> QED
  BY DEF ScannedUnit, UnitTransition, AUDIT_MANAGED_STATUSES

LEMMA PlanUnitTransitionsKeeps ==
  ASSUME DbInv, TypeOKAudits, NEW r \in Completions, PlanUnitTransitions(r)
  PROVE  AuditsStep
<1> DEFINE c == completing[r]
           all == HomeTransitions(AuditOf[r], c.scanned) \cup
                  AwayTransitions(AuditOf[r], c.scanned)
           todo == {tr \in all : tr.from # tr.to}
           d == [c EXCEPT !.pc = "reconcile", !.todo = todo]
<1>1. DbStep
  BY TablesUnchanged DEF PlanUnitTransitions
<1>2. c \in CompletionState
  BY DEF TypeOKAudits
<1>3. c.scanned \in SUBSET ScannedUnit
  BY <1>2 DEF CompletionState
<1>4. todo \in SUBSET UnitTransition
  BY <1>3, AuditRequest, HomeTransitionsType, AwayTransitionsType
<1>5. completing' = [completing EXCEPT ![r] = d]
  BY Zenon DEF PlanUnitTransitions
<1>6. d \in CompletionState
  <2> DEFINE moved == [c EXCEPT !.pc = "reconcile"]
  <2>1. moved \in CompletionState
    BY <1>2 DEF CompletionState
  <2>2. d = [moved EXCEPT !.todo = todo]
    BY Zenon
  <2> HIDE DEF moved, d, todo
  <2> QED
    BY <1>4, <2>1, <2>2 DEF CompletionState
<1> HIDE DEF d
<1>7. TypeOKAudits'
  BY <1>5, <1>6, CompletionAdvances DEF PlanUnitTransitions
<1> QED
  BY <1>1, <1>7 DEF AuditsStep

LEMMA ReconcileProductKeeps ==
  ASSUME DbInv, TypeOKAudits, NEW r \in Completions, ReconcileProduct(r)
  PROVE  AuditsStep
<1> DEFINE c == completing[r]
           planned(p) == {tr \in c.todo : ProductOf[tr.unit] = p}
           applied(p) == Applied(r, planned(p))
           shifts(p) == SetToSeq({tr \in applied(p) : Shift(tr) # 0})
           loc == AuditLocation[AuditOf[r]]
           row(p) == AdjustedRow(Visible(r, p), shifts(p), loc)
           units(p) == [u \in {tr.unit : tr \in applied(p)} |->
                          ReconciledUnit(r, planned(p), u)]
<1>1. r \in Req /\ loc \in Location
  BY AuditRequest, AuditAssumption
<1>2. c \in CompletionState
  BY DEF TypeOKAudits
<1>3. c.todo \in SUBSET UnitTransition
  BY <1>2 DEF CompletionState
<1>4. scans' \in [Audit -> [Tag -> ScanRow]]
  BY DEF ReconcileProduct, TypeOKAudits
<1>5. PICK p \in NextProducts(c.todo) :
        \/ Rollback(r) /\ EndCompletion(r, "failed")
        \/ /\ ~ Oversold(row(p))
           /\ Stage(r, WriteStock(p, row(p), units(p)))
           /\ completing' = [completing EXCEPT ![r].todo = @ \ planned(p)]
  BY DEF ReconcileProduct
<1>6. p \in Product
  <2>1. p \in {ProductOf[tr.unit] : tr \in c.todo}
    BY DEF NextProducts
  <2> QED
    BY <1>3, <2>1, OpeningAssumption DEF UnitTransition
<1>7. planned(p) \in SUBSET UnitTransition
  BY <1>3
<1>8. applied(p) \in SUBSET UnitTransition
  BY <1>7 DEF Applied, HomeApplied
<1>9. CASE Rollback(r) /\ EndCompletion(r, "failed")
  BY <1>1, <1>4, <1>9, RolledBack, EndCompletionKeeps
     DEF ReconcileProduct, Answered, AuditsStep
<1>10. CASE /\ ~ Oversold(row(p))
            /\ Stage(r, WriteStock(p, row(p), units(p)))
            /\ completing' = [completing EXCEPT ![r].todo = @ \ planned(p)]
  <2>1. shifts(p) \in Seq(UnitTransition)
    BY <1>8, TransitionSequence
  <2>2. Visible(r, p) \in ProductRow /\ Balanced(p, Visible(r, p))
    BY <1>6, VisibleOK DEF RowOK, Row
  <2>3. UnitRowsOK(units(p))
    <3>1. ASSUME NEW u \in {tr.unit : tr \in applied(p)}
          PROVE  u \in Unit
      BY <1>8 DEF UnitTransition
    <3> QED
      BY <1>1, <1>7, <3>1, ReconciledUnitOK DEF UnitRowsOK
  <2> DEFINE d == [c EXCEPT !.todo = c.todo \ planned(p)]
  <2>4. completing' = [completing EXCEPT ![r] = d]
    BY <1>10 DEF TypeOKAudits
  <2>5. d \in CompletionState
    BY <1>2, <1>3 DEF CompletionState
  <2> HIDE DEF d
  <2>6. TypeOKAudits'
    BY <2>4, <2>5, CompletionAdvances DEF ReconcileProduct
  <2> HIDE DEF shifts, units, loc
  <2>7. /\ row(p) \in ProductRow /\ Balanced(p, row(p))
        /\ Continues(Visible(r, p).ledger, row(p).ledger)
    BY <1>1, <1>6, <1>10, <2>1, <2>2, AdjustedOK
  <2> HIDE DEF row
  <2>8. DbStep
    BY <1>1, <1>6, <1>10, <2>3, <2>7, StageStock
  <2> QED
    BY <2>6, <2>8 DEF AuditsStep
<1> QED
  BY <1>5, <1>9, <1>10

LEMMA CommitCompletionKeeps ==
  ASSUME DbInv, TypeOKAudits, NEW r \in Completions, CommitCompletion(r)
  PROVE  AuditsStep
<1> DEFINE a == AuditOf[r]
           seen == completing[r].seen
           rows == [t \in Tag |-> IF seen[t].result = "NONE" THEN scans[a][t] ELSE seen[t]]
<1>1. r \in Req /\ a \in Audit
  BY AuditRequest
<1>2. DbStep
  BY <1>1, Committed DEF CommitCompletion
<1>3. completing[r] \in CompletionState
  BY DEF TypeOKAudits
<1>4. seen \in [Tag -> ScanRow]
  BY <1>3 DEF CompletionState
<1>5. rows \in [Tag -> ScanRow]
  BY <1>1, <1>4 DEF TypeOKAudits
<1>6. scans' = [scans EXCEPT ![a] = rows]
  BY DEF CommitCompletion
<1> HIDE DEF rows, a
<1>7. scans' \in [Audit -> [Tag -> ScanRow]]
  BY <1>5, <1>6 DEF TypeOKAudits
<1>8. TypeOKAudits'
  BY <1>7, EndCompletionKeeps DEF CommitCompletion, Answered
<1> QED
  BY <1>2, <1>8 DEF AuditsStep

LEMMA AbortCompletionKeeps ==
  ASSUME DbInv, TypeOKAudits, NEW r \in Completions, AbortCompletion(r)
  PROVE  AuditsStep
<1>1. DbStep
  BY AuditRequest, RolledBack DEF AbortCompletion
<1>2. scans' \in [Audit -> [Tag -> ScanRow]]
  BY DEF AbortCompletion, TypeOKAudits
<1>3. TypeOKAudits'
  BY <1>2, EndCompletionKeeps DEF AbortCompletion, Answered
<1> QED
  BY <1>1, <1>3 DEF AuditsStep

-----------------------------------------------------------------------------
(* cancelAudit                                                             *)

LEMMA CancellationKeeps ==
  ASSUME DbInv, TypeOKAudits, NEW r \in Cancellations,
         ReadForCancel(r) \/ WriteCancelled(r) \/ AbortCancel(r)
  PROVE  AuditsStep
<1>1. CASE ReadForCancel(r)
  BY <1>1, TablesUnchanged, GoCancelKeeps DEF ReadForCancel, Answered, AuditsStep
<1>2. CASE WriteCancelled(r)
  <2>1. [status |-> "CANCELLED"] \in AuditRow
    BY DEF AuditRow
  <2>2. DbStep
    BY <1>2, <2>1, AuditRequest, AuditCommitted DEF WriteCancelled
  <2> QED
    BY <1>2, <2>2, GoCancelKeeps DEF WriteCancelled, Answered, AuditsStep
<1>3. CASE AbortCancel(r)
  BY <1>3, TablesUnchanged, GoCancelKeeps DEF AbortCancel, Answered, AuditsStep
<1> QED
  BY <1>1, <1>2, <1>3

-----------------------------------------------------------------------------
(* Every step of the audits.                                               *)
LEMMA AuditsNextKeeps ==
  ASSUME DbInv, TypeOKAudits, AuditsNext
  PROVE  AuditsStep
<1>1. CASE \E r \in Creations \cup Scanners :
             CreateInventoryAudit(r) \/ ScanStep(r) \/ AbortScan(r)
  <2>1. PICK r \in Creations \cup Scanners :
          CreateInventoryAudit(r) \/ ScanStep(r) \/ AbortScan(r)
    BY <1>1
  <2>2. CASE CreateInventoryAudit(r)
    <3>1. r \in Creations
      BY <2>2 DEF CreateInventoryAudit
    <3> QED
      BY <2>2, <3>1, CreateInventoryAuditKeeps
  <2>3. CASE ScanStep(r)
    BY <2>3, ReadAuditHeaderKeeps, ResolveScansKeeps, InsertScansKeeps DEF ScanStep
  <2>4. CASE AbortScan(r)
    BY <2>4, AbortScanKeeps
  <2> QED
    BY <2>1, <2>2, <2>3, <2>4
<1>2. CASE \E r \in Completions :
             ReadForCompletion(r) \/ CompletionStep(r) \/ AbortCompletion(r)
  BY <1>2, ReadForCompletionKeeps, ClaimAuditKeeps, RefreshScanResultsKeeps,
     PlanUnitTransitionsKeeps, ReconcileProductKeeps, CommitCompletionKeeps,
     AbortCompletionKeeps DEF CompletionStep
<1>3. CASE \E r \in Cancellations :
             ReadForCancel(r) \/ WriteCancelled(r) \/ AbortCancel(r)
  BY <1>3, CancellationKeeps
<1> QED
  BY <1>1, <1>2, <1>3 DEF AuditsNext

(* No audit has been scanned, and no handler runs.                         *)
LEMMA InitAuditsOK ==
  ASSUME InitAuditLocals
  PROVE  TypeOKAudits
<1>1. IdleScan \in ScanState
  BY NothingFoundType DEF IdleScan, ScanState
<1>2. IdleCompletion \in CompletionState
  BY NothingFoundType DEF IdleCompletion, CompletionState
<1> QED
  BY <1>1, <1>2, NothingFoundType DEF InitAuditLocals, TypeOKAudits

-----------------------------------------------------------------------------
(* What the requests of S, none of which is an audit's, see of an audit.   *)

(* The batch of a reconciliation: an adjustment for each unit, of no sale. *)
LEMMA AdjustedLedger ==
  ASSUME NEW row \in ProductRow, NEW shifts \in Seq(UnitTransition), NEW loc \in Location
  PROVE  \E batch \in Seq(StockMovement) :
            /\ AdjustedRow(row, shifts, loc).ledger = row.ledger \o batch
            /\ \A i \in 1 .. Len(batch) :
                  batch[i].sale = NoSale /\ batch[i].type = "ADJUSTMENT"
<1> DEFINE n == Len(shifts)
           batch == [i \in 1 .. n |->
                       Movement("ADJUSTMENT", Shift(shifts[i]),
                                row.quantityOnHand + NetShift(shifts, i),
                                shifts[i].unit, loc, NoSale, 0)]
           new == AdjustedRow(row, shifts, loc)
<1>1. row.quantityOnHand \in Nat /\ row.ledger \in Seq(StockMovement) /\ n \in Nat
  BY LedgerType
<1>2. \A i \in 0 .. n : NetShift(shifts, i) \in Int
  BY NetShiftStep
<1>3. ASSUME NEW i \in 1 .. n
      PROVE  /\ batch[i] \in StockMovement
             /\ batch[i].sale = NoSale /\ batch[i].type = "ADJUSTMENT"
  <2>1. shifts[i] \in UnitTransition
    OBVIOUS
  <2>2. shifts[i].unit \in Unit /\ Shift(shifts[i]) \in Int
    BY <2>1 DEF UnitTransition, Shift
  <2>3. row.quantityOnHand + NetShift(shifts, i) \in Int
    BY <1>1, <1>2
  <2>4. "ADJUSTMENT" \in SystemKey
    BY DEF SystemKey
  <2> QED
    BY <2>2, <2>3, <2>4 DEF Movement, StockMovement
<1>4. batch \in Seq(StockMovement) /\ Len(batch) = n
  <2>1. batch = [i \in 1 .. n |-> batch[i]]
    OBVIOUS
  <2> HIDE DEF batch, n
  <2> QED
    BY <1>1, <1>3, <2>1
<1>5. new.ledger = row.ledger \o batch
  <2> DEFINE moved == [row EXCEPT !.quantityOnHand = @ + NetShift(shifts, Len(shifts))]
             whole == row.ledger \o batch
  <2>1. new = [moved EXCEPT !.ledger = whole]
    BY Zenon DEF AdjustedRow
  <2>2. moved = [quantityOnHand |-> row.quantityOnHand + NetShift(shifts, n),
                 ledger |-> row.ledger, isArchived |-> row.isArchived, card |-> row.card]
    BY DEF ProductRow
  <2> HIDE DEF moved, new, batch, whole
  <2>3. new.ledger = whole
    BY <2>1, <2>2
  <2> QED
    BY <2>3 DEF whole
<1> HIDE DEF batch, new, n
<1> QED
  BY <1>3, <1>4, <1>5 DEF new

LEMMA AdjustedAside ==
  ASSUME NEW row \in ProductRow, NEW shifts \in Seq(UnitTransition), NEW loc \in Location
  PROVE  LET new == AdjustedRow(row, shifts, loc)
         IN  new.ledger \in Seq(StockMovement) /\ ContinuesAside(row.ledger, new.ledger)
<1>1. PICK batch \in Seq(StockMovement) :
         /\ AdjustedRow(row, shifts, loc).ledger = row.ledger \o batch
         /\ \A i \in 1 .. Len(batch) : batch[i].sale = NoSale
  BY AdjustedLedger
<1> QED
  BY <1>1, LedgerType, AsideConcat

LEMMA ReconcileProductElsewhere ==
  ASSUME DbInv, TypeOKAudits, NEW S \in SUBSET Req, KeptAside(S), NEW r \in Completions,
         r \notin S, ReconcileProduct(r)
  PROVE  Elsewhere(S)
<1> DEFINE c == completing[r]
           planned(p) == {tr \in c.todo : ProductOf[tr.unit] = p}
           applied(p) == Applied(r, planned(p))
           shifts(p) == SetToSeq({tr \in applied(p) : Shift(tr) # 0})
           loc == AuditLocation[AuditOf[r]]
           row(p) == AdjustedRow(Visible(r, p), shifts(p), loc)
           units(p) == [u \in {tr.unit : tr \in applied(p)} |->
                          ReconciledUnit(r, planned(p), u)]
<1>1. r \in Req \ S /\ loc \in Location
  BY AuditRequest, AuditAssumption
<1>2. c.todo \in SUBSET UnitTransition
  BY DEF TypeOKAudits, CompletionState
<1>3. PICK p \in NextProducts(c.todo) :
        Rollback(r) \/ Stage(r, WriteStock(p, row(p), units(p)))
  BY DEF ReconcileProduct
<1>4. p \in Product
  <2>1. p \in {ProductOf[tr.unit] : tr \in c.todo}
    BY DEF NextProducts
  <2> QED
    BY <1>2, <2>1, OpeningAssumption DEF UnitTransition
<1>5. planned(p) \in SUBSET UnitTransition
  BY <1>2
<1>6. applied(p) \in SUBSET UnitTransition
  BY <1>5 DEF Applied, HomeApplied
<1>7. CASE Rollback(r)
  BY <1>1, <1>7, RollbackElsewhere
<1>8. CASE Stage(r, WriteStock(p, row(p), units(p)))
  <2>1. shifts(p) \in Seq(UnitTransition)
    BY <1>6, TransitionSequence
  <2>2. Visible(r, p) \in ProductRow
    BY <1>4, VisibleOK DEF RowOK, Row
  <2>3. UnitRowsOK(units(p))
    <3>1. ASSUME NEW u \in {tr.unit : tr \in applied(p)}
          PROVE  u \in Unit
      BY <1>6 DEF UnitTransition
    <3> QED
      BY <1>1, <1>5, <3>1, ReconciledUnitOK DEF UnitRowsOK
  <2> HIDE DEF shifts, units, loc
  <2>4. /\ row(p).ledger \in Seq(StockMovement)
        /\ ContinuesAside(Visible(r, p).ledger, row(p).ledger)
    BY <1>1, <2>1, <2>2, AdjustedAside
  <2> HIDE DEF row
  <2> QED
    BY <1>1, <1>4, <1>8, <2>3, <2>4, StockElsewhere
<1> QED
  BY <1>3, <1>7, <1>8

LEMMA AuditsElsewhere ==
  ASSUME DbInv, TypeOKAudits, NEW S \in SUBSET Req, KeptAside(S),
         S \cap (Creations \cup Scanners \cup Completions \cup Cancellations) = {}, AuditsNext
  PROVE  Elsewhere(S)
<1>1. ASSUME NEW a \in Audit, NEW value
      PROVE  /\ AutoCommit(Write(a, value)) => Elsewhere(S)
             /\ \A r \in Req \ S : Stage(r, Write(a, value)) => Elsewhere(S)
  <2>1. \A x \in DOMAIN Write(a, value) : x \notin Sale /\ x \notin Product
    BY RowAssumption DEF Write
  <2>2. \A r : RowsAside(r, Write(a, value))
    BY <2>1 DEF RowsAside
  <2> QED
    BY <2>1, <2>2, AutoCommitElsewhere, StageElsewhere
<1>2. ASSUME NEW r \in Creations \cup Scanners,
             CreateInventoryAudit(r) \/ ScanStep(r) \/ AbortScan(r)
      PROVE  Elsewhere(S)
  <2>1. CASE CreateInventoryAudit(r)
    BY <1>1, <2>1, AuditRequest DEF CreateInventoryAudit
  <2>2. CASE ScanStep(r) \/ AbortScan(r)
    BY <2>2, UnchangedElsewhere
       DEF ScanStep, ReadAuditHeader, ResolveScans, InsertScans, AbortScan
  <2> QED
    BY <1>2, <2>1, <2>2
<1>3. ASSUME NEW r \in Completions,
             ReadForCompletion(r) \/ CompletionStep(r) \/ AbortCompletion(r)
      PROVE  Elsewhere(S)
  <2>1. r \in Req \ S /\ AuditOf[r] \in Audit
    BY AuditRequest
  <2>2. CASE ReadForCompletion(r) \/ RefreshScanResults(r) \/ PlanUnitTransitions(r)
    BY <2>2, UnchangedElsewhere DEF ReadForCompletion, RefreshScanResults, PlanUnitTransitions
  <2>3. CASE ClaimAudit(r)
    BY <1>1, <2>1, <2>3, UnchangedElsewhere DEF ClaimAudit
  <2>4. CASE ReconcileProduct(r)
    BY <2>1, <2>4, ReconcileProductElsewhere
  <2>5. CASE CommitCompletion(r)
    BY <2>1, <2>5, CommitElsewhere DEF CommitCompletion
  <2>6. CASE AbortCompletion(r)
    BY <2>1, <2>6, RollbackElsewhere DEF AbortCompletion
  <2> QED
    BY <1>3, <2>2, <2>3, <2>4, <2>5, <2>6 DEF CompletionStep
<1>4. ASSUME NEW r \in Cancellations,
             ReadForCancel(r) \/ WriteCancelled(r) \/ AbortCancel(r)
      PROVE  Elsewhere(S)
  <2>1. CASE WriteCancelled(r)
    BY <1>1, <2>1, AuditRequest DEF WriteCancelled
  <2>2. CASE ReadForCancel(r) \/ AbortCancel(r)
    BY <2>2, UnchangedElsewhere DEF ReadForCancel, AbortCancel
  <2> QED
    BY <1>4, <2>1, <2>2
<1> QED
  BY <1>2, <1>3, <1>4 DEF AuditsNext

-----------------------------------------------------------------------------
(* AuditsConsistent, the invariant behind OneReconciliation and            *)
(* AuditSparesOthers, through every step of an audit handler, and through  *)
(* any step of another request that writes no audit.                       *)

(* A row that r holds is still r's, and as it was.                         *)
LEMMA ClaimStands ==
  ASSUME NEW r \in Completions, HeldStay(r), completing'[r] = completing[r],
         AuditClaimed(r), UnitsSpared(r)
  PROVE  AuditClaimed(r)' /\ UnitsSpared(r)'
<1>1. AuditClaimed(r)'
  <2> DEFINE a == AuditOf[r]
  <2>1. a \in Row
    BY AuditRequest DEF Row
  <2>2. /\ holder[a] = r <=> holder'[a] = r
        /\ holder[a] = r => committed'[a] = committed[a] /\ pending'[a] = pending[a]
    BY <2>1 DEF HeldStay
  <2> QED
    BY <2>2 DEF AuditClaimed
<1>2. ASSUME NEW u \in Unit, holder'[u] = r
      PROVE  Spares(committed'[u], pending'[u])
  <2>1. u \in Row
    BY DEF Row
  <2>2. holder[u] = r /\ committed'[u] = committed[u] /\ pending'[u] = pending[u]
    BY <1>2, <2>1 DEF HeldStay
  <2> QED
    BY <2>2 DEF UnitsSpared
<1> QED
  BY <1>1, <1>2 DEF UnitsSpared

LEMMA OthersKeepAudits ==
  ASSUME AuditsConsistent, NEW q \in Req \ Completions, UNCHANGED completing,
         NEW A, Sparing(q, A), \A a \in Audit : holder'[a] \in {holder[a], NoReq}
  PROVE  AuditsConsistent'
<1>1. ASSUME NEW r \in Completions
      PROVE  AuditClaimed(r)' /\ UnitsSpared(r)'
  <2>1. r \in Req \ {q}
    BY AuditRequest
  <2>2. HeldStay(r)
    BY <2>1, SparingHeld
  <2> QED
    BY <2>2, ClaimStands DEF AuditsConsistent
<1>2. \A a \in Audit : holder'[a] \in Completions \cup {NoReq}
  BY DEF AuditsConsistent
<1> QED
  BY <1>1, <1>2 DEF AuditsConsistent

LEMMA OneKeepsAudits ==
  ASSUME AuditsConsistent, NEW r \in Completions, NEW A, Sparing(r, A),
         \A q \in Completions \ {r} : completing'[q] = completing[q],
         \A a \in Audit : holder'[a] \in {holder[a], NoReq, r},
         AuditClaimed(r)', UnitsSpared(r)'
  PROVE  AuditsConsistent'
<1>1. ASSUME NEW q \in Completions
      PROVE  AuditClaimed(q)' /\ UnitsSpared(q)'
  <2>1. CASE q # r
    <3>1. q \in Req \ {r}
      BY <2>1, AuditRequest
    <3>2. HeldStay(q)
      BY <3>1, SparingHeld
    <3> QED
      BY <2>1, <3>2, ClaimStands DEF AuditsConsistent
  <2> QED
    BY <2>1
<1>2. \A a \in Audit : holder'[a] \in Completions \cup {NoReq}
  BY DEF AuditsConsistent
<1> QED
  BY <1>1, <1>2 DEF AuditsConsistent

(* A step of r that leaves the tables as they are and r between the same   *)
(* two points.                                                             *)
LEMMA TablesKeepAudits ==
  ASSUME AuditsConsistent, NEW r \in Completions, UNCHANGED dbVars,
         \A q \in Completions \ {r} : completing'[q] = completing[q],
         completing'[r].pc \in {"refresh", "plan", "reconcile"}
            <=> completing[r].pc \in {"refresh", "plan", "reconcile"}
  PROVE  AuditsConsistent'
<1>1. Sparing(r, {})
  BY DEF Sparing
<1>2. \A a \in Audit : holder'[a] \in {holder[a], NoReq, r}
  BY DEF dbVars
<1>3. AuditClaimed(r)' /\ UnitsSpared(r)'
  BY DEF AuditsConsistent, AuditClaimed, UnitsSpared, dbVars
<1> QED
  BY <1>1, <1>2, <1>3, OneKeepsAudits

(* The end of the transaction of a completion gives the audit back.        *)
LEMMA EndKeepsAudits ==
  ASSUME AuditsConsistent, TypeOKAudits, NEW r \in Completions, Commit(r) \/ Rollback(r),
         NEW outcome \in Answered, EndCompletion(r, outcome)
  PROVE  AuditsConsistent'
<1>1. Sparing(r, {})
  BY DEF Sparing
<1>2. holder' = Released(r) /\ r \in Req /\ r # NoReq
  BY AuditRequest, RowAssumption DEF Commit, Rollback
<1>3. \A x \in Row : holder'[x] \in {holder[x], NoReq} /\ holder'[x] # r
  BY <1>2 DEF Released
<1>4. \A a \in Audit : holder'[a] \in {holder[a], NoReq, r}
  BY <1>3 DEF Row
<1>5. completing'[r].pc = outcome /\ \A q \in Completions \ {r} : completing'[q] = completing[q]
  BY DEF EndCompletion, TypeOKAudits, IdleCompletion
<1>6. AuditClaimed(r)'
  <2>1. holder'[AuditOf[r]] # r
    BY <1>3, AuditRequest DEF Row
  <2>2. completing'[r].pc \notin {"refresh", "plan", "reconcile"}
    BY <1>5 DEF Answered
  <2> QED
    BY <2>1, <2>2 DEF AuditClaimed
<1>7. UnitsSpared(r)'
  BY <1>3 DEF UnitsSpared, Row
<1> QED
  BY <1>1, <1>4, <1>5, <1>6, <1>7, OneKeepsAudits

(* A unit that a transition was applied to was, and stays, one whose       *)
(* status audits manage, where it was.                                     *)
LEMMA ReconciledSpares ==
  ASSUME DbInv, NEW r \in Req, NEW planned \in SUBSET UnitTransition,
         NEW u \in {tr.unit : tr \in Applied(r, planned)},
         holder[u] = r => Spares(committed[u], pending[u])
  PROVE  Spares(committed[u], ReconciledUnit(r, planned, u))
<1> DEFINE row == Visible(r, u)
           home == {tr \in HomeApplied(r, planned) : tr.unit = u}
           to == IF \E tr \in Applied(r, planned) : tr.unit = u /\ tr.away
                   THEN "MISPLACED" ELSE StatusAtHome(r, planned, u)
<1>1. PICK tr \in Applied(r, planned) : tr.unit = u
  OBVIOUS
<1>2. tr \in UnitTransition /\ u \in Unit
  BY <1>1 DEF Applied, HomeApplied, UnitTransition
<1>3. home # {} => row.status \in AUDIT_MANAGED_STATUSES
                   /\ StatusAtHome(r, planned, u) \in AUDIT_MANAGED_STATUSES
  <2> SUFFICES ASSUME home # {}
               PROVE  row.status \in AUDIT_MANAGED_STATUSES
                      /\ StatusAtHome(r, planned, u) \in AUDIT_MANAGED_STATUSES
    OBVIOUS
  <2> DEFINE first == CHOOSE x \in home : TRUE
  <2>1. first \in home /\ StatusAtHome(r, planned, u) = first.to
    BY DEF StatusAtHome
  <2> HIDE DEF first
  <2>2. first \in UnitTransition /\ row.status = first.from
    BY <2>1 DEF HomeApplied, StillAsPlanned
  <2> QED
    BY <2>1, <2>2 DEF UnitTransition
<1>4. row.status \in AUDIT_MANAGED_STATUSES
  <2>1. CASE home # {}
    BY <1>3, <2>1
  <2>2. CASE home = {}
    <3>1. StatusAtHome(r, planned, u) = row.status
      BY <2>2 DEF StatusAtHome
    <3>2. tr \notin HomeApplied(r, planned)
      BY <1>1, <2>2
    <3>3. row.status = tr.from
      BY <1>1, <3>1, <3>2 DEF Applied, StillAsPlanned
    <3> QED
      BY <1>2, <3>3 DEF UnitTransition
  <2> QED
    BY <2>1, <2>2
<1>5. to \in AUDIT_MANAGED_STATUSES
  <2>1. "MISPLACED" \in AUDIT_MANAGED_STATUSES
    BY DEF AUDIT_MANAGED_STATUSES
  <2>2. StatusAtHome(r, planned, u) \in AUDIT_MANAGED_STATUSES
    <3>1. home = {} => StatusAtHome(r, planned, u) = row.status
      BY DEF StatusAtHome
    <3> QED
      BY <1>3, <1>4, <3>1
  <2> QED
    BY <2>1, <2>2
<1>6. ReconciledUnit(r, planned, u) = [row EXCEPT !.status = to]
  BY Zenon DEF ReconciledUnit
<1>7. row \in UnitRow
  BY <1>2, VisibleOK DEF RowOK, Row
<1> HIDE DEF to, home
<1>8. Spares(row, ReconciledUnit(r, planned, u))
  <2> HIDE DEF row
  <2> QED
    BY <1>4, <1>5, <1>6, <1>7 DEF Spares, UnitRow
<1>9. CASE holder[u] = r
  <2>1. Spares(committed[u], row)
    BY <1>9 DEF Visible
  <2> HIDE DEF row
  <2> QED
    BY <1>8, <2>1 DEF Spares
<1>10. CASE holder[u] # r
  BY <1>8, <1>10 DEF Visible
<1> QED
  BY <1>9, <1>10

LEMMA ClaimKeepsAudits ==
  ASSUME DbInv, TypeOKAudits, AuditsConsistent, NEW r \in Completions, ClaimAudit(r)
  PROVE  AuditsConsistent'
<1> DEFINE a == AuditOf[r]
           rows == Write(a, [status |-> "COMPLETED"])
<1>1. r \in Req /\ a \in Audit /\ a \in Row /\ AuditClaimed(r) /\ UnitsSpared(r)
  BY AuditRequest DEF Row, AuditsConsistent
<1>2. completing[r].pc = "claim" /\ holder[a] # r
  BY <1>1 DEF ClaimAudit, AuditClaimed
<1>3. CASE EndCompletion(r, "ok") /\ UNCHANGED dbVars
  <2>1. completing'[r].pc = "ok" /\ \A q \in Completions \ {r} : completing'[q] = completing[q]
    BY <1>3 DEF EndCompletion, TypeOKAudits, IdleCompletion
  <2> QED
    BY <1>2, <1>3, <2>1, TablesKeepAudits
<1>4. CASE /\ Claimable(r, a) /\ Stage(r, rows)
           /\ completing' = [completing EXCEPT ![r].pc = "refresh"]
  <2>1. completing'[r].pc = "refresh" /\ \A q \in Completions \ {r} : completing'[q] = completing[q]
    BY <1>4 DEF TypeOKAudits, CompletionState
  <2>2. DOMAIN rows = {a} /\ rows[a].status = "COMPLETED"
    BY DEF Write
  <2>3. committed[a].status = "IN_PROGRESS"
    BY <1>2, <1>4 DEF Claimable, Visible
  <2>4. Stage(r, rows)
    BY <1>4
  <2> HIDE DEF rows, a
  <2>5. Sparing(r, {})
    BY <2>4 DEF Sparing
  <2>6. /\ \A x \in Row \ {a} : holder'[x] = holder[x] /\ pending'[x] = pending[x]
        /\ holder'[a] = r /\ pending'[a] = rows[a] /\ committed' = committed
    BY <1>1, <2>2, <2>4 DEF Stage
  <2>7. AuditClaimed(r)'
    BY <2>1, <2>2, <2>3, <2>6 DEF AuditClaimed, a
  <2>8. UnitsSpared(r)'
    <3>1. ASSUME NEW u \in Unit
          PROVE  u \in Row /\ u # a
      BY <1>1, RowAssumption DEF Row
    <3> QED
      BY <1>1, <2>6, <3>1 DEF UnitsSpared
  <2>9. \A b \in Audit : holder'[b] \in {holder[b], NoReq, r}
    BY <2>6 DEF Row
  <2> QED
    BY <2>1, <2>5, <2>7, <2>8, <2>9, OneKeepsAudits
<1> QED
  BY <1>3, <1>4 DEF ClaimAudit

LEMMA ReconcileKeepsAudits ==
  ASSUME DbInv, TypeOKAudits, AuditsConsistent, NEW r \in Completions, ReconcileProduct(r)
  PROVE  AuditsConsistent'
<1> DEFINE c == completing[r]
           planned(p) == {tr \in c.todo : ProductOf[tr.unit] = p}
           applied(p) == Applied(r, planned(p))
           shifts(p) == SetToSeq({tr \in applied(p) : Shift(tr) # 0})
           loc == AuditLocation[AuditOf[r]]
           row(p) == AdjustedRow(Visible(r, p), shifts(p), loc)
           units(p) == [u \in {tr.unit : tr \in applied(p)} |->
                          ReconciledUnit(r, planned(p), u)]
<1>1. r \in Req /\ AuditOf[r] \in Audit /\ AuditClaimed(r) /\ UnitsSpared(r)
  BY AuditRequest DEF AuditsConsistent
<1>2. c.pc = "reconcile" /\ c.todo \in SUBSET UnitTransition
  BY DEF TypeOKAudits, ReconcileProduct, CompletionState
<1>3. PICK p \in NextProducts(c.todo) :
        \/ Rollback(r) /\ EndCompletion(r, "failed")
        \/ /\ Stage(r, WriteStock(p, row(p), units(p)))
           /\ completing' = [completing EXCEPT ![r].todo = @ \ planned(p)]
  BY DEF ReconcileProduct
<1>4. p \in Product
  <2>1. p \in {ProductOf[tr.unit] : tr \in c.todo}
    BY DEF NextProducts
  <2> QED
    BY <1>2, <2>1, OpeningAssumption DEF UnitTransition
<1>5. planned(p) \in SUBSET UnitTransition
  BY <1>2
<1>6. applied(p) \in SUBSET UnitTransition
  BY <1>5 DEF Applied, HomeApplied
<1>7. CASE Rollback(r) /\ EndCompletion(r, "failed")
  BY <1>7, EndKeepsAudits DEF Answered
<1>8. CASE /\ Stage(r, WriteStock(p, row(p), units(p)))
           /\ completing' = [completing EXCEPT ![r].todo = @ \ planned(p)]
  <2> DEFINE stock == row(p)
             unitRows == units(p)
             rows == WriteStock(p, stock, unitRows)
  <2>1. DOMAIN unitRows \subseteq Unit
    BY <1>6 DEF UnitTransition
  <2>2. ASSUME NEW u \in DOMAIN unitRows
        PROVE  Spares(committed[u], unitRows[u])
    <3>1. u \in {tr.unit : tr \in applied(p)} /\ u \in Unit
      BY <2>1
    <3>2. holder[u] = r => Spares(committed[u], pending[u])
      BY <1>1, <3>1 DEF UnitsSpared
    <3>3. Spares(committed[u], ReconciledUnit(r, planned(p), u))
      <4> HIDE DEF planned
      <4> QED
        BY <1>1, <1>5, <3>1, <3>2, ReconciledSpares
    <3> QED
      BY <3>1, <3>3
  <2>3. completing'[r].pc = "reconcile"
        /\ \A q \in Completions \ {r} : completing'[q] = completing[q]
    BY <1>2, <1>8 DEF TypeOKAudits, CompletionState
  <2>4. Stage(r, rows)
    BY <1>8
  <2> HIDE DEF stock, unitRows, c
  <2>5. DOMAIN rows = {p} \cup DOMAIN unitRows /\ \A u \in Unit : u # p /\
           (u \in DOMAIN unitRows => rows[u] = unitRows[u])
    BY <1>4, RowAssumption DEF WriteStock
  <2> HIDE DEF rows
  <2>6. Sparing(r, {})
    BY <2>4 DEF Sparing
  <2>7. /\ committed' = committed
        /\ \A a \in Audit : holder'[a] = holder[a] /\ pending'[a] = pending[a]
    <3>1. \A a \in Audit : a \in Row /\ a \notin DOMAIN rows
      BY <1>4, <2>1, <2>5, RowAssumption DEF Row
    <3> QED
      BY <2>4, <3>1 DEF Stage
  <2>8. AuditClaimed(r)'
    BY <1>1, <1>2, <2>3, <2>7 DEF AuditClaimed, c
  <2>9. UnitsSpared(r)'
    <3> SUFFICES ASSUME NEW u \in Unit, holder'[u] = r
                 PROVE  Spares(committed'[u], pending'[u])
      BY DEF UnitsSpared
    <3>1. u \in Row
      BY DEF Row
    <3>2. CASE u \in DOMAIN unitRows
      BY <2>2, <2>4, <2>5, <2>7, <3>1, <3>2 DEF Stage
    <3>3. CASE u \notin DOMAIN unitRows
      <4>1. holder'[u] = holder[u] /\ pending'[u] = pending[u]
        BY <2>4, <2>5, <3>1, <3>3 DEF Stage
      <4> QED
        BY <1>1, <2>7, <4>1 DEF UnitsSpared
    <3> QED
      BY <3>2, <3>3
  <2>10. \A a \in Audit : holder'[a] \in {holder[a], NoReq, r}
    BY <2>7
  <2> QED
    BY <2>3, <2>6, <2>8, <2>9, <2>10, OneKeepsAudits
<1> QED
  BY <1>3, <1>7, <1>8

(* The header an audit is created or cancelled with, in a transaction of   *)
(* its own.                                                                *)
LEMMA HeaderKeepsAudits ==
  ASSUME AuditsConsistent, NEW q \in Req \ Completions, UNCHANGED completing,
         NEW a \in Audit, NEW value, AutoCommit(Write(a, value))
  PROVE  AuditsConsistent'
<1>1. Sparing(q, {})
  BY DEF Sparing
<1>2. \A b \in Audit : holder'[b] \in {holder[b], NoReq}
  BY DEF AutoCommit
<1> QED
  BY <1>1, <1>2, OthersKeepAudits

LEMMA AuditsNextConsistent ==
  ASSUME DbInv, TypeOKAudits, AuditsConsistent, AuditsNext,
         (Creations \cup Scanners \cup Cancellations) \cap Completions = {}
  PROVE  AuditsConsistent'
<1>1. ASSUME NEW q \in Req \ Completions, UNCHANGED completing, UNCHANGED dbVars
      PROVE  AuditsConsistent'
  <2>1. Sparing(q, {})
    BY <1>1 DEF Sparing
  <2>2. \A a \in Audit : holder'[a] \in {holder[a], NoReq}
    BY <1>1 DEF dbVars
  <2> QED
    BY <1>1, <2>1, <2>2, OthersKeepAudits
<1>2. ASSUME NEW r \in Creations \cup Scanners,
             CreateInventoryAudit(r) \/ ScanStep(r) \/ AbortScan(r)
      PROVE  AuditsConsistent'
  <2>1. r \in Req \ Completions /\ AuditOf[r] \in Audit
    BY AuditRequest
  <2>2. CASE CreateInventoryAudit(r)
    <3>1. AutoCommit(Write(AuditOf[r], [status |-> "IN_PROGRESS"])) /\ UNCHANGED completing
      BY <2>2 DEF CreateInventoryAudit
    <3> QED
      BY <2>1, <3>1, HeaderKeepsAudits
  <2>3. CASE ScanStep(r) \/ AbortScan(r)
    BY <1>1, <2>1, <2>3 DEF ScanStep, ReadAuditHeader, ResolveScans, InsertScans, AbortScan
  <2> QED
    BY <1>2, <2>2, <2>3
<1>3. ASSUME NEW r \in Cancellations,
             ReadForCancel(r) \/ WriteCancelled(r) \/ AbortCancel(r)
      PROVE  AuditsConsistent'
  <2>1. r \in Req \ Completions /\ AuditOf[r] \in Audit
    BY AuditRequest
  <2>2. CASE WriteCancelled(r)
    <3>1. AutoCommit(Write(AuditOf[r], [status |-> "CANCELLED"])) /\ UNCHANGED completing
      BY <2>2 DEF WriteCancelled
    <3> QED
      BY <2>1, <3>1, HeaderKeepsAudits
  <2>3. CASE ReadForCancel(r) \/ AbortCancel(r)
    BY <1>1, <2>1, <2>3 DEF ReadForCancel, AbortCancel
  <2> QED
    BY <1>3, <2>2, <2>3
<1>4. ASSUME NEW r \in Completions,
             ReadForCompletion(r) \/ CompletionStep(r) \/ AbortCompletion(r)
      PROVE  AuditsConsistent'
  <2> DEFINE c == completing[r]
             claimed == {"refresh", "plan", "reconcile"}
  <2>1. c \in CompletionState
    BY DEF TypeOKAudits
  <2>2. CASE ReadForCompletion(r)
    <3>1. /\ c.pc = "idle" /\ completing'[r].pc \in {"claim", "ok", "failed"}
          /\ \A q \in Completions \ {r} : completing'[q] = completing[q]
      BY <2>1, <2>2 DEF ReadForCompletion, EndCompletion, TypeOKAudits, CompletionState, IdleCompletion
    <3>2. UNCHANGED dbVars
      BY <2>2 DEF ReadForCompletion
    <3> QED
      BY <3>1, <3>2, TablesKeepAudits
  <2>3. CASE RefreshScanResults(r) \/ PlanUnitTransitions(r)
    <3>1. c.pc \in claimed /\ completing'[r].pc \in claimed
      <4>1. c.pc \in claimed
        BY <2>3 DEF RefreshScanResults, PlanUnitTransitions
      <4>2. CASE RefreshScanResults(r)
        BY <4>1, <4>2 DEF RefreshScanResults, TypeOKAudits
      <4>3. CASE PlanUnitTransitions(r)
        <5>1. PICK todo : completing' = [completing EXCEPT
                 ![r] = [@ EXCEPT !.pc = "reconcile", !.todo = todo]]
          BY <4>3 DEF PlanUnitTransitions
        <5>2. completing'[r] = [c EXCEPT !.pc = "reconcile", !.todo = todo]
          BY <5>1 DEF TypeOKAudits
        <5> QED
          BY <2>1, <4>1, <5>2 DEF CompletionState
      <4> QED
        BY <2>3, <4>2, <4>3
    <3>2. UNCHANGED dbVars /\ \A q \in Completions \ {r} : completing'[q] = completing[q]
      BY <2>3 DEF RefreshScanResults, PlanUnitTransitions, TypeOKAudits
    <3> QED
      BY <3>1, <3>2, TablesKeepAudits
  <2>4. CASE CommitCompletion(r) \/ AbortCompletion(r)
    BY <2>4, EndKeepsAudits DEF CommitCompletion, AbortCompletion, Answered
  <2> QED
    BY <1>4, <2>2, <2>3, <2>4, ClaimKeepsAudits, ReconcileKeepsAudits DEF CompletionStep
<1> QED
  BY <1>2, <1>3, <1>4 DEF AuditsNext

-----------------------------------------------------------------------------
(* What completes an audit.                                                *)

(* No step of another handler does.                                        *)
LEMMA OthersCompleteNothing ==
  ASSUME AuditsConsistent, NEW q \in Req \ Completions, Sparing(q, Audit), NEW a \in Audit
  PROVE  ~ CompletedBy(a)
<1>1. a \in Row \cap Audit /\ holder[a] # q
  BY RowAssumption DEF Row, AuditsConsistent
<1>2. committed'[a] = committed[a]
  BY <1>1, SparingRows
<1> QED
  BY <1>2 DEF CompletedBy

(* Of an audit's handlers the commit of a completion does, alone.          *)
LEMMA CompletedByCommit ==
  ASSUME AuditsNext, NEW a \in Audit, CompletedBy(a)
  PROVE  \E r \in Completions : CommitCompletion(r)
<1>1. ASSUME committed' = committed
      PROVE  FALSE
  BY <1>1 DEF CompletedBy
<1>2. ASSUME NEW value, value.status # "COMPLETED", NEW b, AutoCommit(Write(b, value))
      PROVE  FALSE
  <2>1. a \in Row
    BY DEF Row
  <2>2. committed'[a] \in {value, committed[a]}
    BY <1>2, <2>1 DEF AutoCommit, Write
  <2> QED
    BY <1>2, <2>2 DEF CompletedBy
<1>3. ASSUME NEW r \in Creations \cup Scanners,
             CreateInventoryAudit(r) \/ ScanStep(r) \/ AbortScan(r)
      PROVE  FALSE
  <2>1. CASE CreateInventoryAudit(r)
    <3>1. AutoCommit(Write(AuditOf[r], [status |-> "IN_PROGRESS"]))
      BY <2>1 DEF CreateInventoryAudit
    <3> QED
      BY <1>2, <3>1
  <2>2. CASE ScanStep(r) \/ AbortScan(r)
    BY <1>1, <2>2 DEF ScanStep, ReadAuditHeader, ResolveScans, InsertScans, AbortScan, dbVars
  <2> QED
    BY <1>3, <2>1, <2>2
<1>4. ASSUME NEW r \in Cancellations,
             ReadForCancel(r) \/ WriteCancelled(r) \/ AbortCancel(r)
      PROVE  FALSE
  <2>1. CASE WriteCancelled(r)
    <3>1. AutoCommit(Write(AuditOf[r], [status |-> "CANCELLED"]))
      BY <2>1 DEF WriteCancelled
    <3> QED
      BY <1>2, <3>1
  <2>2. CASE ReadForCancel(r) \/ AbortCancel(r)
    BY <1>1, <2>2 DEF ReadForCancel, AbortCancel, dbVars
  <2> QED
    BY <1>4, <2>1, <2>2
<1>5. ASSUME NEW r \in Completions, ~ CommitCompletion(r),
             ReadForCompletion(r) \/ CompletionStep(r) \/ AbortCompletion(r)
      PROVE  FALSE
  BY <1>1, <1>5 DEF CompletionStep, ReadForCompletion, ClaimAudit, RefreshScanResults,
     PlanUnitTransitions, ReconcileProduct, AbortCompletion, Stage, Rollback, dbVars
<1> QED
  BY <1>3, <1>4, <1>5 DEF AuditsNext

LEMMA CommitSparesUnits ==
  ASSUME AuditsConsistent, NEW r \in Completions, CommitCompletion(r),
         NEW u \in Unit, committed'[u] # committed[u]
  PROVE  Spares(committed[u], committed'[u])
<1>1. u \in Row /\ Commit(r)
  BY DEF Row, CommitCompletion
<1>2. holder[u] = r /\ committed'[u] = pending[u]
  BY <1>1 DEF Commit
<1> QED
  BY <1>2 DEF AuditsConsistent, UnitsSpared

(* A completion that has something to reconcile ends well only by it.      *)
LEMMA ReconciledIsCompleted ==
  ASSUME TypeOKAudits, AuditsConsistent, AuditsNext, NEW r \in Completions,
         (Creations \cup Scanners \cup Cancellations) \cap Completions = {},
         completing[r].pc = "reconcile", completing'[r].pc = "ok"
  PROVE  CompletedBy(AuditOf[r])
<1>1. completing'[r] # completing[r]
  OBVIOUS
<1>2. PICK q \in Completions : ReadForCompletion(q) \/ CompletionStep(q) \/ AbortCompletion(q)
  BY <1>1 DEF AuditsNext, CreateInventoryAudit, ScanStep, ReadAuditHeader, ResolveScans,
              InsertScans, AbortScan, ReadForCancel, WriteCancelled, AbortCancel
<1>3. q = r
  BY <1>1, <1>2 DEF TypeOKAudits, ReadForCompletion, CompletionStep, AbortCompletion, ClaimAudit,
     RefreshScanResults, PlanUnitTransitions, ReconcileProduct, CommitCompletion, EndCompletion
<1>4. completing[r] \in CompletionState /\ DOMAIN completing = Completions
  BY DEF TypeOKAudits
<1>5. CommitCompletion(r)
  <2>1. ~ ReadForCompletion(r) /\ ~ ClaimAudit(r) /\ ~ RefreshScanResults(r)
        /\ ~ PlanUnitTransitions(r)
    BY DEF ReadForCompletion, ClaimAudit, RefreshScanResults, PlanUnitTransitions
  <2>2. ~ AbortCompletion(r)
    BY <1>4 DEF AbortCompletion, EndCompletion, IdleCompletion
  <2>3. ~ ReconcileProduct(r)
    <3> SUFFICES ASSUME ReconcileProduct(r)
                 PROVE  FALSE
      OBVIOUS
    <3>1. PICK planned : EndCompletion(r, "failed")
                         \/ completing' = [completing EXCEPT ![r].todo = @ \ planned]
      BY DEF ReconcileProduct
    <3>2. CASE EndCompletion(r, "failed")
      BY <1>4, <3>2 DEF EndCompletion, IdleCompletion
    <3>3. CASE completing' = [completing EXCEPT ![r].todo = @ \ planned]
      <4>1. completing'[r].pc = "reconcile"
        BY <1>4, <3>3 DEF CompletionState
      <4> QED
        BY <4>1
    <3> QED
      BY <3>1, <3>2, <3>3
  <2> QED
    BY <1>2, <1>3, <2>1, <2>2, <2>3 DEF CompletionStep
<1> DEFINE a == AuditOf[r]
<1>6. a \in Row /\ Commit(r)
  BY <1>5, AuditRequest DEF Row, CommitCompletion
<1>7. /\ holder[a] = r
      /\ committed[a].status = "IN_PROGRESS" /\ pending[a].status = "COMPLETED"
  BY DEF AuditsConsistent, AuditClaimed
<1> HIDE DEF a
<1>8. committed'[a] = pending[a]
  BY <1>6, <1>7 DEF Commit
<1> QED
  BY <1>7, <1>8 DEF CompletedBy, a

-----------------------------------------------------------------------------
(* What the plan of a completion has for one unit.                         *)

LEMMA IdlePlans ==
  ASSUME NEW r \in Completions, NEW outcome, TypeOKAudits, EndCompletion(r, outcome)
  PROVE  PlanOnce(completing'[r].scanned, completing'[r].todo)
<1>1. completing'[r].scanned = {} /\ completing'[r].todo = {}
  BY DEF EndCompletion, TypeOKAudits, IdleCompletion
<1> QED
  BY <1>1 DEF PlanOnce

(* A plan that gets shorter stays one.                                     *)
LEMMA PartOfPlan ==
  ASSUME NEW scanned, NEW todo, NEW part \in SUBSET todo, PlanOnce(scanned, todo)
  PROVE  PlanOnce(scanned, part)
BY DEF PlanOnce

LEMMA ScannedOnce ==
  ASSUME NEW r \in Completions, TypeOKAudits, RefreshScanResults(r)
  PROVE  PlanOnce(completing'[r].scanned, completing'[r].todo)
<1>1. PICK units : /\ completing'[r].todo = {}
                   /\ completing'[r].scanned =
                        {[unit |-> u, status |-> committed[u].status, loc |-> committed[u].loc] :
                           u \in units}
  <2> DEFINE a == AuditOf[r]
             seen == [t \in Tag |-> IF scans[a][t].result = "NONE" THEN Unscanned
                                    ELSE ScanResult(a, t)]
             found == {v \in {seen[t].unit : t \in Tag} \ {NoUnit} :
                         /\ committed[v].status \in AUDIT_MANAGED_STATUSES
                         /\ ~ committed[ProductOf[v]].isArchived}
  <2> WITNESS found
  <2> QED
    BY DEF RefreshScanResults, TypeOKAudits
<1> QED
  BY <1>1 DEF PlanOnce

LEMMA PlanHasOnce ==
  ASSUME NEW a, NEW scanned \in SUBSET ScannedUnit,
         \A s, t \in scanned : s.unit = t.unit => s = t
  PROVE  PlanOnce(scanned, HomeTransitions(a, scanned) \cup AwayTransitions(a, scanned))
<1> DEFINE home == HomeTransitions(a, scanned)
           away == AwayTransitions(a, scanned)
<1>1. \A x \in home : ~ x.away
  BY DEF HomeTransitions
<1>2. \A x \in away : /\ x.away /\ x.to = "MISPLACED"
                      /\ \E s \in scanned : x.unit = s.unit /\ x.from = s.status
  BY DEF AwayTransitions
<1>3. ASSUME NEW x \in home, NEW y \in home, x.unit = y.unit
      PROVE  x = y
  <2> DEFINE to(u) == IF u \in {s.unit : s \in scanned} THEN "IN_STOCK"
                      ELSE IF committed[u].status = "IN_STOCK" THEN "MISSING"
                      ELSE committed[u].status
             tr(u) == [unit |-> u, from |-> committed[u].status, to |-> to(u), away |-> FALSE]
  <2>1. \A z \in home : \E u : z = tr(u)
    BY DEF HomeTransitions
  <2> HIDE DEF home, to
  <2>2. \A z \in home : z = tr(z.unit)
    BY <2>1
  <2> HIDE DEF tr
  <2> QED
    BY <1>3, <2>2
<1>4. ASSUME NEW x \in away, NEW y \in away, x.unit = y.unit
      PROVE  x = y
  <2> DEFINE tr(s) == [unit |-> s.unit, from |-> s.status, to |-> "MISPLACED", away |-> TRUE]
  <2>1. \A z \in away : \E s \in scanned : z = tr(s)
    BY DEF AwayTransitions
  <2>2. PICK s \in scanned, t \in scanned : x = tr(s) /\ y = tr(t)
    BY <2>1
  <2>3. s.unit = t.unit
    BY <1>4, <2>2
  <2> QED
    BY <2>2, <2>3
<1>5. ASSUME NEW x \in home, NEW y \in away, x.unit = y.unit
      PROVE  x.to = "IN_STOCK"
  <2>1. x.unit \in {s.unit : s \in scanned}
    BY <1>2, <1>5
  <2> QED
    BY <2>1 DEF HomeTransitions
<1> HIDE DEF home, away
<1>6. PlanOnce(scanned, home \cup away)
  BY <1>1, <1>2, <1>3, <1>4, <1>5 DEF PlanOnce
<1> QED
  BY <1>6 DEF home, away

LEMMA AuditsPlanOnce ==
  ASSUME TypeOKAudits, PlannedOnce, AuditsNext
  PROVE  PlannedOnce'
<1>1. ASSUME UNCHANGED completing
      PROVE  PlannedOnce'
  BY <1>1 DEF PlannedOnce
<1>2. ASSUME NEW r \in Completions,
             \A q \in Completions \ {r} : completing'[q] = completing[q],
             PlanOnce(completing'[r].scanned, completing'[r].todo)
      PROVE  PlannedOnce'
  BY <1>2 DEF PlannedOnce
<1>3. ASSUME NEW r \in Creations \cup Scanners,
             CreateInventoryAudit(r) \/ ScanStep(r) \/ AbortScan(r)
      PROVE  UNCHANGED completing
  BY <1>3 DEF CreateInventoryAudit, ScanStep, ReadAuditHeader, ResolveScans, InsertScans, AbortScan
<1>4. ASSUME NEW r \in Cancellations,
             ReadForCancel(r) \/ WriteCancelled(r) \/ AbortCancel(r)
      PROVE  UNCHANGED completing
  BY <1>4 DEF ReadForCancel, WriteCancelled, AbortCancel
<1>5. ASSUME NEW r \in Completions,
             ReadForCompletion(r) \/ CompletionStep(r) \/ AbortCompletion(r)
      PROVE  /\ \A q \in Completions \ {r} : completing'[q] = completing[q]
             /\ PlanOnce(completing'[r].scanned, completing'[r].todo)
  <2> DEFINE c == completing[r]
  <2>1. c \in CompletionState /\ PlanOnce(c.scanned, c.todo) /\ DOMAIN completing = Completions
    BY DEF TypeOKAudits, PlannedOnce
  <2>2. ASSUME NEW outcome, EndCompletion(r, outcome)
        PROVE  /\ \A q \in Completions \ {r} : completing'[q] = completing[q]
               /\ PlanOnce(completing'[r].scanned, completing'[r].todo)
    <3>1. \A q \in Completions \ {r} : completing'[q] = completing[q]
      BY <2>2 DEF EndCompletion, TypeOKAudits
    <3> QED
      BY <2>2, <3>1, IdlePlans
  <2>3. ASSUME NEW pc, completing' = [completing EXCEPT ![r].pc = pc]
        PROVE  /\ \A q \in Completions \ {r} : completing'[q] = completing[q]
               /\ PlanOnce(completing'[r].scanned, completing'[r].todo)
    <3>1. completing'[r] = [c EXCEPT !.pc = pc]
          /\ \A q \in Completions \ {r} : completing'[q] = completing[q]
      BY <2>1, <2>3
    <3>2. completing'[r].scanned = c.scanned /\ completing'[r].todo = c.todo
      BY <2>1, <3>1 DEF CompletionState
    <3> QED
      BY <2>1, <3>1, <3>2
  <2>4. CASE ReadForCompletion(r)
    <3>1. \/ completing' = [completing EXCEPT ![r].pc = "claim"]
          \/ EndCompletion(r, "ok") \/ EndCompletion(r, "failed")
      BY <2>4 DEF ReadForCompletion
    <3> QED
      BY <2>2, <2>3, <3>1
  <2>5. CASE ClaimAudit(r)
    <3>1. \/ completing' = [completing EXCEPT ![r].pc = "refresh"]
          \/ EndCompletion(r, "ok")
      BY <2>5 DEF ClaimAudit
    <3> QED
      BY <2>2, <2>3, <3>1
  <2>6. CASE RefreshScanResults(r)
    <3>1. \A q \in Completions \ {r} : completing'[q] = completing[q]
      BY <2>6 DEF RefreshScanResults, TypeOKAudits
    <3> QED
      BY <2>6, <3>1, ScannedOnce
  <2>7. CASE PlanUnitTransitions(r)
    <3> DEFINE all == HomeTransitions(AuditOf[r], c.scanned) \cup AwayTransitions(AuditOf[r], c.scanned)
               todo == {tr \in all : tr.from # tr.to}
    <3>1. completing' = [completing EXCEPT ![r] = [@ EXCEPT !.pc = "reconcile", !.todo = todo]]
      BY <2>7 DEF PlanUnitTransitions
    <3>2. PlanOnce(c.scanned, all)
      BY <2>1, PlanHasOnce DEF PlanOnce, CompletionState
    <3> HIDE DEF all
    <3>3. PlanOnce(c.scanned, todo)
      BY <3>2, PartOfPlan
    <3> HIDE DEF todo
    <3>4. completing'[r] = [c EXCEPT !.pc = "reconcile", !.todo = todo]
          /\ \A q \in Completions \ {r} : completing'[q] = completing[q]
      BY <2>1, <3>1
    <3>5. completing'[r].scanned = c.scanned /\ completing'[r].todo = todo
      BY <2>1, <3>4 DEF CompletionState
    <3> QED
      BY <3>3, <3>4, <3>5
  <2>8. CASE ReconcileProduct(r)
    <3>1. PICK planned : EndCompletion(r, "failed")
                         \/ completing' = [completing EXCEPT ![r].todo = @ \ planned]
      BY <2>8 DEF ReconcileProduct
    <3>2. CASE completing' = [completing EXCEPT ![r].todo = @ \ planned]
      <4>1. completing'[r] = [c EXCEPT !.todo = c.todo \ planned]
            /\ \A q \in Completions \ {r} : completing'[q] = completing[q]
        BY <2>1, <3>2
      <4>2. completing'[r].scanned = c.scanned /\ completing'[r].todo = c.todo \ planned
        BY <2>1, <4>1 DEF CompletionState
      <4> QED
        BY <2>1, <4>1, <4>2, PartOfPlan
    <3> QED
      BY <2>2, <3>1, <3>2
  <2>9. CASE CommitCompletion(r) \/ AbortCompletion(r)
    BY <2>2, <2>9 DEF CommitCompletion, AbortCompletion
  <2> QED
    BY <1>5, <2>4, <2>5, <2>6, <2>7, <2>8, <2>9 DEF CompletionStep
<1> QED
  BY <1>1, <1>2, <1>3, <1>4, <1>5 DEF AuditsNext
=============================================================================
