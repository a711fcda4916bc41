-------------------------- MODULE ProductUnitsProofs --------------------------
(***************************************************************************)
(* Every step of the unit handlers keeps the tables' invariant and its own *)
(* local variables well typed.                                             *)
(***************************************************************************)
EXTENDS ProductUnits, StockDbProofs

(* What is to be shown of each step.                                       *)
UnitsStep == DbStep /\ TypeOKUnits'

(* A handler that ends keeps nothing.                                      *)
LEMMA EndChangeKeeps ==
  ASSUME TypeOKUnits, NEW r \in Changes, NEW outcome \in {"ok", "failed"},
         EndChange(r, outcome), UNCHANGED <<edit, registration>>
  PROVE  TypeOKUnits'
<1>1. AtPc(outcome).pc \notin {"write", "commit"}
  BY DEF AtPc
<1> HIDE DEF AtPc
<1> QED
  BY <1>1 DEF TypeOKUnits, EndChange

LEMMA EndEditKeeps ==
  ASSUME TypeOKUnits, NEW r \in Edits, NEW outcome \in {"ok", "failed"},
         EndEdit(r, outcome), UNCHANGED <<change, registration>>
  PROVE  TypeOKUnits'
<1>1. AtPc(outcome).pc # "write"
  BY DEF AtPc
<1> QED
  BY <1>1 DEF TypeOKUnits, EndEdit

LEMMA GoRegistrationKeeps ==
  ASSUME TypeOKUnits, NEW r \in Registrations,
         NEW pc \in {"idle", "write", "commit", "ok", "failed"},
         GoRegistration(r, pc), UNCHANGED <<change, edit>>
  PROVE  TypeOKUnits'
BY DEF TypeOKUnits, GoRegistration

(* A unit update outside a transaction.                                    *)
LEMMA UnitUpdated ==
  ASSUME DbInv, NEW u \in Unit, NEW value \in UnitRow, AutoCommit(Write(u, value))
  PROVE  DbStep
<1>1. \A x \in DOMAIN Write(u, value) : x \in Row /\ RowOK(x, Write(u, value)[x])
  BY RowAssumption DEF Write, RowOK, Row
<1>2. \A p \in Product : p \notin DOMAIN Write(u, value)
  BY RowAssumption DEF Write
<1> QED
  BY <1>1, <1>2, AutoCommitKeeps DEF DbStep

-----------------------------------------------------------------------------
(* changeProductUnitStatus                                                 *)

LEMMA ReadForChangeKeeps ==
  ASSUME DbInv, TypeOKUnits, NEW r \in Changes, ReadForChange(r)
  PROVE  UnitsStep
<1>1. DbStep
  BY TablesUnchanged DEF ReadForChange
<1>2. PICK body \in ChangeBodies :
        \/ EndChange(r, "failed")
        \/ change' = [change EXCEPT
             ![r] = [pc |-> "write", body |-> body,
                     loc |-> NextLocation(committed[body.unit], body),
                     delta |-> QuantityDelta(committed[body.unit].status, body.status),
                     key |-> MovementKey(committed[body.unit].status, body.status,
                               QuantityDelta(committed[body.unit].status, body.status))]]
  BY DEF ReadForChange
<1>3. CASE EndChange(r, "failed")
  BY <1>1, <1>3, EndChangeKeeps DEF ReadForChange, UnitsStep
<1>4. CASE change' = [change EXCEPT
             ![r] = [pc |-> "write", body |-> body,
                     loc |-> NextLocation(committed[body.unit], body),
                     delta |-> QuantityDelta(committed[body.unit].status, body.status),
                     key |-> MovementKey(committed[body.unit].status, body.status,
                               QuantityDelta(committed[body.unit].status, body.status))]]
  <2> DEFINE current == committed[body.unit]
             loc == NextLocation(current, body)
             delta == QuantityDelta(current.status, body.status)
             key == MovementKey(current.status, body.status, delta)
             c == [pc |-> "write", body |-> body, loc |-> loc, delta |-> delta,
                   key |-> key]
  <2>1. body \in ChangeBody
    BY UnitsAssumption
  <2>2. current \in UnitRow
    BY <2>1 DEF ChangeBody, DbInv, TypeOKDb, DbTypeOK
  <2>3. loc \in Location \cup {NoLocation}
    BY <2>1, <2>2 DEF NextLocation, ChangeBody, UnitRow
  <2>4. delta \in {-1, 0, 1}
    BY DEF QuantityDelta
  <2>5. key \in SystemKey
    BY DEF MovementKey, SystemKey
  <2>6. change' = [change EXCEPT ![r] = c]
    BY <1>4
  <2> HIDE DEF current, loc, delta, key
  <2>7. c \in ChangeState
    BY <2>1, <2>3, <2>4, <2>5 DEF ChangeState
  <2> HIDE DEF c
  <2>8. TypeOKUnits'
    BY <2>6, <2>7 DEF TypeOKUnits, ReadForChange
  <2> QED
    BY <1>1, <2>8 DEF UnitsStep
<1> QED
  BY <1>2, <1>3, <1>4

(* The unit's new row.                                                     *)
LEMMA ChangedUnitType ==
  ASSUME TypeOKUnits, NEW r \in Changes, change[r].pc = "write"
  PROVE  /\ ChangedUnit(r) \in UnitRow
         /\ change[r].body.unit \in Unit
         /\ change[r].key \in SystemKey /\ change[r].delta \in Int
         /\ change[r].loc \in Location \cup {NoLocation}
<1>1. change[r] \in ChangeState
  BY DEF TypeOKUnits
<1>2. change[r].body \in ChangeBody
  BY <1>1 DEF ChangeState
<1> QED
  BY <1>1, <1>2 DEF ChangedUnit, ChangeState, ChangeBody, UnitRow

LEMMA WriteStatusKeeps ==
  ASSUME DbInv, TypeOKUnits, NEW r \in Changes, WriteStatus(r)
  PROVE  UnitsStep
<1>1. change[r].body.unit \in Unit /\ ChangedUnit(r) \in UnitRow
  BY ChangedUnitType DEF WriteStatus
<1>2. DbStep
  BY <1>1, UnitUpdated DEF WriteStatus
<1>3. TypeOKUnits'
  BY EndChangeKeeps DEF WriteStatus
<1> QED
  BY <1>2, <1>3 DEF UnitsStep

LEMMA WriteStatusAndQuantityKeeps ==
  ASSUME DbInv, TypeOKUnits, NEW r \in Changes, WriteStatusAndQuantity(r)
  PROVE  UnitsStep
<1> DEFINE u == change[r].body.unit
           p == ProductOf[u]
           d == [change[r] EXCEPT !.pc = "commit"]
<1>1. change[r].pc = "write" /\ change[r] \in ChangeState
  BY DEF WriteStatusAndQuantity, TypeOKUnits
<1>2. /\ ChangedUnit(r) \in UnitRow /\ u \in Unit
      /\ change[r].key \in SystemKey /\ change[r].delta \in Int
      /\ change[r].loc \in Location \cup {NoLocation}
  BY <1>1, ChangedUnitType
<1>3. p \in Product /\ r \in Req
  BY <1>2, OpeningAssumption, UnitsAssumption
<1>4. CASE Rollback(r) /\ EndChange(r, "failed")
  BY <1>3, <1>4, RolledBack, EndChangeKeeps DEF WriteStatusAndQuantity, UnitsStep
<1>5. CASE /\ ~ Oversold(ChangedRow(r))
           /\ Stage(r, WriteStock(p, ChangedRow(r), Write(u, ChangedUnit(r))))
           /\ change' = [change EXCEPT ![r].pc = "commit"]
  <2>1. d = [pc |-> "commit", body |-> change[r].body, loc |-> change[r].loc,
             delta |-> change[r].delta, key |-> change[r].key]
    BY <1>1 DEF ChangeState
  <2>2. change' = [change EXCEPT ![r] = d]
    BY <1>5 DEF TypeOKUnits
  <2> HIDE DEF d
  <2>3. d \in ChangeState
    BY <1>1, <2>1 DEF ChangeState
  <2>4. TypeOKUnits'
    BY <2>2, <2>3 DEF TypeOKUnits, WriteStatusAndQuantity
  <2>5. ChangedRow(r) = Posted(Visible(r, p), change[r].key, change[r].delta, u,
                               change[r].loc, NoSale, 0)
    BY DEF ChangedRow
  <2>6. Visible(r, p) \in ProductRow
    BY <1>3, VisibleOK DEF RowOK, Row
  <2> HIDE DEF u, p
  <2>7. Visible(r, p).quantityOnHand + change[r].delta >= 0
    BY <1>2, <1>5, <2>5, <2>6, PostedQuantity
  <2>8. UnitRowsOK(Write(u, ChangedUnit(r)))
    BY <1>2 DEF UnitRowsOK, Write
  <2>9. DbStep
    BY <1>2, <1>3, <1>5, <2>5, <2>7, <2>8, StagePosted
  <2> QED
    BY <2>4, <2>9 DEF UnitsStep
<1> QED
  BY <1>4, <1>5 DEF WriteStatusAndQuantity

LEMMA CommitChangeKeeps ==
  ASSUME DbInv, TypeOKUnits, NEW r \in Changes, CommitChange(r)
  PROVE  UnitsStep
BY UnitsAssumption, Committed, EndChangeKeeps DEF CommitChange, UnitsStep

LEMMA AbortChangeKeeps ==
  ASSUME DbInv, TypeOKUnits, NEW r \in Changes, AbortChange(r)
  PROVE  UnitsStep
BY UnitsAssumption, RolledBack, EndChangeKeeps DEF AbortChange, UnitsStep

-----------------------------------------------------------------------------
(* updateProductUnit                                                       *)

LEMMA ReadForEditKeeps ==
  ASSUME DbInv, TypeOKUnits, NEW r \in Edits, ReadForEdit(r)
  PROVE  UnitsStep
<1>1. DbStep
  BY TablesUnchanged DEF ReadForEdit
<1>2. PICK body \in EditBodies :
        EndEdit(r, "failed") \/ edit' = [edit EXCEPT ![r] = [pc |-> "write", body |-> body]]
  BY DEF ReadForEdit
<1>3. CASE EndEdit(r, "failed")
  BY <1>1, <1>3, EndEditKeeps DEF ReadForEdit, UnitsStep
<1>4. CASE edit' = [edit EXCEPT ![r] = [pc |-> "write", body |-> body]]
  <2>1. [pc |-> "write", body |-> body] \in EditState
    BY UnitsAssumption DEF EditState
  <2>2. TypeOKUnits'
    BY <1>4, <2>1 DEF TypeOKUnits, ReadForEdit
  <2> QED
    BY <1>1, <2>2 DEF UnitsStep
<1> QED
  BY <1>2, <1>3, <1>4

LEMMA WriteLocationKeeps ==
  ASSUME DbInv, TypeOKUnits, NEW r \in Edits, WriteLocation(r)
  PROVE  UnitsStep
<1> DEFINE body == edit[r].body
           value == [committed[body.unit] EXCEPT !.loc = body.loc]
<1>1. body \in EditBody
  BY DEF WriteLocation, TypeOKUnits, EditState
<1>2. body.unit \in Unit /\ body.loc \in Location \cup {NoLocation}
  BY <1>1 DEF EditBody
<1>3. value \in UnitRow
  <2>1. committed[body.unit] \in UnitRow
    BY <1>2 DEF DbInv, TypeOKDb, DbTypeOK
  <2> QED
    BY <1>2, <2>1 DEF UnitRow
<1>4. AutoCommit(Write(body.unit, value))
  BY DEF WriteLocation
<1> HIDE DEF value
<1>5. DbStep
  BY <1>2, <1>3, <1>4, UnitUpdated
<1>6. TypeOKUnits'
  BY EndEditKeeps DEF WriteLocation
<1> QED
  BY <1>5, <1>6 DEF UnitsStep

LEMMA AbortEditKeeps ==
  ASSUME DbInv, TypeOKUnits, NEW r \in Edits, AbortEdit(r)
  PROVE  UnitsStep
BY TablesUnchanged, EndEditKeeps DEF AbortEdit, UnitsStep

-----------------------------------------------------------------------------
(* registerProductUnits                                                    *)

(* A batch of registrations is a run of movements by one, each with the    *)
(* balance it would have left on its own: the row stays balanced.          *)
LEMMA RegisteredOK ==
  ASSUME NEW p \in Product, NEW row \in ProductRow, Balanced(p, row),
         NEW body \in RegistrationBody
  PROVE  LET new == RegisteredRow(row, body)
         IN  /\ new \in ProductRow
             /\ Balanced(p, new)
             /\ Continues(row.ledger, new.ledger)
<1> DEFINE n == Len(body.units)
           batch == [i \in 1 .. n |->
                       Movement(body.type, 1, row.quantityOnHand + i, body.units[i],
                                body.loc, NoSale, 0)]
           new == RegisteredRow(row, body)
<1>1. row.quantityOnHand \in Nat
  BY LedgerType
<1>2. /\ body.units \in Seq(Unit) /\ n \in Nat
      /\ body.type \in SystemKey /\ body.loc \in Location
  BY DEF RegistrationBody
<1>3. \A i \in 1 .. n : /\ batch[i].quantityAfter = row.quantityOnHand + i
                        /\ batch[i].quantityChange = 1
  BY DEF Movement
<1>4. batch \in Seq(StockMovement) /\ Len(batch) = n
  <2>1. \A i \in 1 .. n : batch[i] \in StockMovement
    BY <1>1, <1>2 DEF Movement, StockMovement
  <2>2. batch = [i \in 1 .. n |-> batch[i]]
    OBVIOUS
  <2> HIDE DEF batch, n
  <2> QED
    BY <1>2, <2>1, <2>2
<1>5. new = [quantityOnHand |-> row.quantityOnHand + n, ledger |-> row.ledger \o batch,
             isArchived |-> row.isArchived, card |-> row.card]
  <2> DEFINE moved == [row EXCEPT !.quantityOnHand = @ + n]
             whole == row.ledger \o batch
  <2>1. new = [moved EXCEPT !.ledger = whole]
    BY Zenon DEF RegisteredRow
  <2>2. moved = [quantityOnHand |-> row.quantityOnHand + n,
                 ledger |-> row.ledger, isArchived |-> row.isArchived, card |-> row.card]
    BY DEF ProductRow
  <2> HIDE DEF moved, new, batch, whole
  <2>3. new = [quantityOnHand |-> row.quantityOnHand + n, ledger |-> whole,
               isArchived |-> row.isArchived, card |-> row.card]
    BY <2>1, <2>2
  <2> QED
    BY <2>3 DEF whole
<1> HIDE DEF batch, new, n
<1>6. \A i \in 1 .. n + 1 : BatchBefore(row, batch, i) = row.quantityOnHand + (i - 1)
  BY <1>1, <1>2, <1>3 DEF BatchBefore
<1>7. \A i \in 1 .. Len(batch) :
        batch[i].quantityAfter = BatchBefore(row, batch, i) + batch[i].quantityChange
  BY <1>1, <1>2, <1>3, <1>4, <1>6
<1>8. new = [quantityOnHand |-> BatchBefore(row, batch, Len(batch) + 1),
             ledger |-> row.ledger \o batch, isArchived |-> row.isArchived, card |-> row.card]
  <2>1. n + 1 \in 1 .. n + 1 /\ row.quantityOnHand + ((n + 1) - 1) = row.quantityOnHand + n
    BY <1>1, <1>2
  <2>2. BatchBefore(row, batch, Len(batch) + 1) = row.quantityOnHand + n
    BY <1>4, <1>6, <2>1
  <2> QED
    BY <1>5, <2>2
<1>9. new.quantityOnHand \in Nat
  BY <1>1, <1>2, <1>5
<1>10. /\ new \in ProductRow /\ Balanced(p, new)
       /\ Continues(row.ledger, new.ledger)
  BY <1>4, <1>7, <1>8, <1>9, BatchPostedOK
<1> QED
  BY <1>10 DEF new

LEMMA CheckRegistrationKeeps ==
  ASSUME DbInv, TypeOKUnits, NEW r \in Registrations, CheckRegistration(r)
  PROVE  UnitsStep
BY TablesUnchanged, GoRegistrationKeeps DEF CheckRegistration, UnitsStep

LEMMA CreateUnitsKeeps ==
  ASSUME DbInv, TypeOKUnits, NEW r \in Registrations, CreateUnits(r)
  PROVE  UnitsStep
<1> DEFINE body == RegistrationOf[r]
           p == body.product
           row == RegisteredRow(Visible(r, p), body)
           created == [u \in NewUnits(body) |-> [status |-> "IN_STOCK", loc |-> body.loc]]
<1>1. body \in RegistrationBody /\ r \in Req
  BY UnitsAssumption
<1>2. p \in Product /\ UnitRowsOK(created)
  BY <1>1 DEF UnitRowsOK, RegistrationBody, UnitRow, ProductUnitStatus, STOCK_COUNTED_STATUSES, NewUnits
<1>3. Visible(r, p) \in ProductRow /\ Balanced(p, Visible(r, p))
  BY <1>2, VisibleOK DEF RowOK, Row
<1>4. /\ row \in ProductRow /\ Balanced(p, row)
      /\ Continues(Visible(r, p).ledger, row.ledger)
  BY <1>1, <1>2, <1>3, RegisteredOK
<1>5. Stage(r, WriteStock(p, row, created))
  BY DEF CreateUnits
<1>6. DbStep
  BY <1>1, <1>2, <1>4, <1>5, StageStock
<1>7. TypeOKUnits'
  BY GoRegistrationKeeps DEF CreateUnits
<1> QED
  BY <1>6, <1>7 DEF UnitsStep

LEMMA CommitRegistrationKeeps ==
  ASSUME DbInv, TypeOKUnits, NEW r \in Registrations, CommitRegistration(r)
  PROVE  UnitsStep
BY UnitsAssumption, Committed, GoRegistrationKeeps DEF CommitRegistration, UnitsStep

LEMMA AbortRegistrationKeeps ==
  ASSUME DbInv, TypeOKUnits, NEW r \in Registrations, AbortRegistration(r)
  PROVE  UnitsStep
BY UnitsAssumption, RolledBack, GoRegistrationKeeps DEF AbortRegistration, UnitsStep

-----------------------------------------------------------------------------
(* Every step of a unit handler.                                           *)
LEMMA UnitsNextKeeps ==
  ASSUME DbInv, TypeOKUnits, UnitsNext
  PROVE  UnitsStep
<1>1. ASSUME NEW r \in Changes, ReadForChange(r) \/ ChangeStep(r) \/ AbortChange(r)
      PROVE  UnitsStep
  BY <1>1, ReadForChangeKeeps, WriteStatusKeeps, WriteStatusAndQuantityKeeps,
     CommitChangeKeeps, AbortChangeKeeps DEF ChangeStep
<1>2. ASSUME NEW r \in Edits, ReadForEdit(r) \/ WriteLocation(r) \/ AbortEdit(r)
      PROVE  UnitsStep
  BY <1>2, ReadForEditKeeps, WriteLocationKeeps, AbortEditKeeps
<1>3. ASSUME NEW r \in Registrations,
             CheckRegistration(r) \/ RegistrationStep(r) \/ AbortRegistration(r)
      PROVE  UnitsStep
  BY <1>3, CheckRegistrationKeeps, CreateUnitsKeeps, CommitRegistrationKeeps,
     AbortRegistrationKeeps DEF RegistrationStep
<1> QED
  BY <1>1, <1>2, <1>3 DEF UnitsNext

-----------------------------------------------------------------------------
(* What the unit handlers leave to the requests of S, none of their own:   *)
(* their movements belong to no sale.                                      *)

LEMMA UnitElsewhere ==
  ASSUME DbInv, NEW S \in SUBSET Req, KeptAside(S), NEW u \in Unit, NEW value,
         AutoCommit(Write(u, value))
  PROVE  Elsewhere(S)
<1>1. \A x \in DOMAIN Write(u, value) : x \notin Sale /\ x \notin Product
  BY RowAssumption DEF Write
<1> QED
  BY <1>1, AutoCommitElsewhere

LEMMA WriteStatusAndQuantityElsewhere ==
  ASSUME DbInv, TypeOKUnits, NEW S \in SUBSET Req, KeptAside(S), NEW r \in Changes,
         r \notin S, WriteStatusAndQuantity(r)
  PROVE  Elsewhere(S)
<1> DEFINE u == change[r].body.unit
           p == ProductOf[u]
           c == change[r]
<1>1. c.pc = "write" /\ r \in Req \ S
  BY UnitsAssumption DEF WriteStatusAndQuantity
<1>2. /\ ChangedUnit(r) \in UnitRow /\ u \in Unit /\ c.key \in SystemKey /\ c.delta \in Int
      /\ c.loc \in Location \cup {NoLocation}
  BY <1>1, ChangedUnitType
<1>3. p \in Product /\ u \in Unit \cup {NoUnit}
  BY <1>2, OpeningAssumption
<1>4. CASE Rollback(r)
  BY <1>1, <1>4, RollbackElsewhere
<1>5. CASE Stage(r, WriteStock(p, ChangedRow(r), Write(u, ChangedUnit(r))))
  <2>1. ChangedRow(r) = Posted(Visible(r, p), c.key, c.delta, u, c.loc, NoSale, 0)
    BY DEF ChangedRow
  <2>2. UnitRowsOK(Write(u, ChangedUnit(r)))
    BY <1>2 DEF UnitRowsOK, Write
  <2> HIDE DEF u, p, c
  <2> QED
    BY <1>1, <1>2, <1>3, <1>5, <2>1, <2>2, MovementElsewhere
<1> QED
  BY <1>4, <1>5 DEF WriteStatusAndQuantity

(* The batch of a registration: a movement for each unit, of no sale.      *)
LEMMA RegisteredLedger ==
  ASSUME NEW row \in ProductRow, NEW body \in RegistrationBody
  PROVE  \E batch \in Seq(StockMovement) :
            /\ RegisteredRow(row, body).ledger = row.ledger \o batch
            /\ \A i \in 1 .. Len(batch) : batch[i].sale = NoSale /\ batch[i].unit \in Unit
<1> DEFINE n == Len(body.units)
           batch == [i \in 1 .. n |->
                       Movement(body.type, 1, row.quantityOnHand + i, body.units[i],
                                body.loc, NoSale, 0)]
           new == RegisteredRow(row, body)
<1>1. row.quantityOnHand \in Nat /\ row.ledger \in Seq(StockMovement)
  BY LedgerType
<1>2. /\ body.units \in Seq(Unit) /\ n \in Nat
      /\ body.type \in SystemKey /\ body.loc \in Location
  BY DEF RegistrationBody
<1>3. \A i \in 1 .. n : /\ batch[i] \in StockMovement
                        /\ batch[i].sale = NoSale /\ batch[i].unit \in Unit
  BY <1>1, <1>2 DEF Movement, StockMovement
<1>4. batch \in Seq(StockMovement) /\ Len(batch) = n
  <2>1. batch = [i \in 1 .. n |-> batch[i]]
    OBVIOUS
  <2> HIDE DEF batch, n
  <2> QED
    BY <1>2, <1>3, <2>1
<1>5. new.ledger = row.ledger \o batch
  <2> DEFINE moved == [row EXCEPT !.quantityOnHand = @ + n]
             whole == row.ledger \o batch
  <2>1. new = [moved EXCEPT !.ledger = whole]
    BY Zenon DEF RegisteredRow
  <2>2. moved = [quantityOnHand |-> row.quantityOnHand + n,
                 ledger |-> row.ledger, isArchived |-> row.isArchived, card |-> row.card]
    BY DEF ProductRow
  <2> HIDE DEF moved, new, batch, whole
  <2>3. new.ledger = whole
    BY <2>1, <2>2
  <2> QED
    BY <2>3 DEF whole
<1> HIDE DEF batch, new, n
<1> QED
  BY <1>3, <1>4, <1>5 DEF new

LEMMA RegisteredAside ==
  ASSUME NEW row \in ProductRow, NEW body \in RegistrationBody
  PROVE  LET new == RegisteredRow(row, body)
         IN  new.ledger \in Seq(StockMovement) /\ ContinuesAside(row.ledger, new.ledger)
<1>1. PICK batch \in Seq(StockMovement) :
         /\ RegisteredRow(row, body).ledger = row.ledger \o batch
         /\ \A i \in 1 .. Len(batch) : batch[i].sale = NoSale
  BY RegisteredLedger
<1> QED
  BY <1>1, LedgerType, AsideConcat

LEMMA CreateUnitsElsewhere ==
  ASSUME DbInv, NEW S \in SUBSET Req, KeptAside(S), NEW r \in Registrations,
         r \notin S, CreateUnits(r)
  PROVE  Elsewhere(S)
<1> DEFINE body == RegistrationOf[r]
           p == body.product
           row == RegisteredRow(Visible(r, p), body)
           created == [u \in NewUnits(body) |-> [status |-> "IN_STOCK", loc |-> body.loc]]
<1>1. body \in RegistrationBody /\ r \in Req \ S
  BY UnitsAssumption
<1>2. p \in Product /\ UnitRowsOK(created)
  BY <1>1 DEF UnitRowsOK, RegistrationBody, UnitRow, ProductUnitStatus, STOCK_COUNTED_STATUSES, NewUnits
<1>3. Visible(r, p) \in ProductRow
  BY <1>2, VisibleOK DEF RowOK, Row
<1>4. row.ledger \in Seq(StockMovement) /\ ContinuesAside(Visible(r, p).ledger, row.ledger)
  BY <1>1, <1>3, RegisteredAside
<1>5. Stage(r, WriteStock(p, row, created))
  BY DEF CreateUnits
<1> HIDE DEF row, created, p
<1> QED
  BY <1>1, <1>2, <1>4, <1>5, StockElsewhere

LEMMA UnitsElsewhere ==
  ASSUME DbInv, TypeOKUnits, NEW S \in SUBSET Req, KeptAside(S),
         S \cap (Changes \cup Edits \cup Registrations) = {}, UnitsNext
  PROVE  Elsewhere(S)
<1>1. ASSUME NEW r \in Changes, ReadForChange(r) \/ ChangeStep(r) \/ AbortChange(r)
      PROVE  Elsewhere(S)
  <2>1. r \in Req \ S
    BY UnitsAssumption
  <2>2. CASE ReadForChange(r)
    BY <2>2, UnchangedElsewhere DEF ReadForChange
  <2>3. CASE WriteStatus(r)
    <3>1. change[r].body.unit \in Unit
      BY <2>3, ChangedUnitType DEF WriteStatus
    <3> QED
      BY <2>3, <3>1, UnitElsewhere DEF WriteStatus
  <2>4. CASE WriteStatusAndQuantity(r)
    BY <2>1, <2>4, WriteStatusAndQuantityElsewhere
  <2>5. CASE CommitChange(r)
    BY <2>1, <2>5, CommitElsewhere DEF CommitChange
  <2>6. CASE AbortChange(r)
    BY <2>1, <2>6, RollbackElsewhere DEF AbortChange
  <2> QED
    BY <1>1, <2>2, <2>3, <2>4, <2>5, <2>6 DEF ChangeStep
<1>2. ASSUME NEW r \in Edits, ReadForEdit(r) \/ WriteLocation(r) \/ AbortEdit(r)
      PROVE  Elsewhere(S)
  <2>1. CASE WriteLocation(r)
    <3>1. edit[r].body.unit \in Unit
      BY <2>1 DEF WriteLocation, TypeOKUnits, EditState, EditBody
    <3> QED
      BY <2>1, <3>1, UnitElsewhere DEF WriteLocation
  <2>2. CASE ReadForEdit(r) \/ AbortEdit(r)
    BY <2>2, UnchangedElsewhere DEF ReadForEdit, AbortEdit
  <2> QED
    BY <1>2, <2>1, <2>2
<1>3. ASSUME NEW r \in Registrations,
             CheckRegistration(r) \/ RegistrationStep(r) \/ AbortRegistration(r)
      PROVE  Elsewhere(S)
  <2>1. r \in Req \ S
    BY UnitsAssumption
  <2>2. CASE CheckRegistration(r)
    BY <2>2, UnchangedElsewhere DEF CheckRegistration
  <2>3. CASE CreateUnits(r)
    BY <2>1, <2>3, CreateUnitsElsewhere
  <2>4. CASE CommitRegistration(r)
    BY <2>1, <2>4, CommitElsewhere DEF CommitRegistration
  <2>5. CASE AbortRegistration(r)
    BY <2>1, <2>5, RollbackElsewhere DEF AbortRegistration
  <2> QED
    BY <1>3, <2>2, <2>3, <2>4, <2>5 DEF RegistrationStep
<1> QED
  BY <1>1, <1>2, <1>3 DEF UnitsNext

-----------------------------------------------------------------------------
(* The unit handlers write products and units.                             *)
LEMMA UnitsSpare ==
  ASSUME TypeOKUnits, UnitsNext
  PROVE  \E q \in Changes \cup Edits \cup Registrations : Sparing(q, Claims)
<1>1. ASSUME NEW r \in Changes, ReadForChange(r) \/ ChangeStep(r) \/ AbortChange(r)
      PROVE  Sparing(r, Claims)
  <2>1. CASE ReadForChange(r) \/ CommitChange(r) \/ AbortChange(r)
    BY <2>1 DEF ReadForChange, CommitChange, AbortChange, Sparing
  <2>2. CASE WriteStatus(r) \/ WriteStatusAndQuantity(r)
    <3> DEFINE u == change[r].body.unit
    <3>1. u \in Unit /\ ProductOf[u] \in Product
      BY <2>2, ChangedUnitType, OpeningAssumption DEF WriteStatus, WriteStatusAndQuantity
    <3>2. CASE WriteStatus(r)
      <4>1. u \notin Claims /\ AutoCommit(Write(u, ChangedUnit(r)))
        BY <3>1, <3>2, StockNoClaim DEF WriteStatus
      <4> QED
        BY <4>1, RowSpares
    <3>3. CASE WriteStatusAndQuantity(r)
      <4>1. Rollback(r) \/
            Stage(r, WriteStock(ProductOf[u], ChangedRow(r), Write(u, ChangedUnit(r))))
        BY <3>3 DEF WriteStatusAndQuantity
      <4>2. DOMAIN Write(u, ChangedUnit(r)) \subseteq Unit
        BY <3>1 DEF Write
      <4>3. CASE Rollback(r)
        BY <4>3 DEF Sparing
      <4> QED
        BY <3>1, <4>1, <4>2, <4>3, StockSpares
    <3> QED
      BY <2>2, <3>2, <3>3
  <2> QED
    BY <1>1, <2>1, <2>2 DEF ChangeStep
<1>2. ASSUME NEW r \in Edits, ReadForEdit(r) \/ WriteLocation(r) \/ AbortEdit(r)
      PROVE  Sparing(r, Claims)
  <2>1. CASE WriteLocation(r)
    <3> DEFINE u == edit[r].body.unit
    <3>1. u \in Unit
      BY <2>1 DEF WriteLocation, TypeOKUnits, EditState, EditBody
    <3>2. u \notin Claims
      BY <3>1, StockNoClaim
    <3> QED
      BY <2>1, <3>2, RowSpares DEF WriteLocation
  <2>2. CASE ReadForEdit(r) \/ AbortEdit(r)
    BY <2>2 DEF ReadForEdit, AbortEdit, Sparing
  <2> QED
    BY <1>2, <2>1, <2>2
<1>3. ASSUME NEW r \in Registrations,
             CheckRegistration(r) \/ RegistrationStep(r) \/ AbortRegistration(r)
      PROVE  Sparing(r, Claims)
  <2>1. CASE CreateUnits(r)
    <3> DEFINE body == RegistrationOf[r]
               created == [u \in NewUnits(body) |-> [status |-> "IN_STOCK", loc |-> body.loc]]
    <3>1. body.product \in Product /\ DOMAIN created \subseteq Unit
      BY UnitsAssumption DEF RegistrationBody, NewUnits
    <3> QED
      BY <2>1, <3>1, StockSpares DEF CreateUnits
  <2>2. CASE CheckRegistration(r) \/ CommitRegistration(r) \/ AbortRegistration(r)
    BY <2>2 DEF CheckRegistration, CommitRegistration, AbortRegistration, Sparing
  <2> QED
    BY <1>3, <2>1, <2>2 DEF RegistrationStep
<1> QED
  BY <1>1, <1>2, <1>3 DEF UnitsNext
=============================================================================
