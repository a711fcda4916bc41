---------------------------- MODULE ProductUnits ----------------------------
(***************************************************************************)
(* The unit handlers of product-unit.service.ts that change stock or the   *)
(* place of a unit: registerProductUnits, updateProductUnit's location     *)
(* patch, changeProductUnitStatus and retireProductUnit.  The last three   *)
(* read the unit in one transaction and write it in a later one, without a *)
(* condition on what they read.  Identifiers (tags, serial numbers) are    *)
(* not modelled here.                                                      *)
(***************************************************************************)
EXTENDS StockDb

CONSTANTS
  Changes,             \* the requests that run changeProductUnitStatus or retire
  Edits,               \* the requests that run updateProductUnit
  Registrations,       \* the requests that run registerProductUnits
  ChangeBodies,        \* [unit, status, loc]: the changes clients ask for
  EditBodies,          \* [unit, loc]: the location patches clients ask for
  RegistrationOf       \* [product, units, loc, type]: what each registration asks for

VARIABLES change, edit, registration    \* local variables of the running handlers

unitLocals == <<change, edit, registration>>
unitVars == <<committed, pending, holder, change, edit, registration>>

ChangeBody == [unit: Unit, status: ProductUnitStatus, loc: Location \cup {NoLocation}]
EditBody == [unit: Unit, loc: Location \cup {NoLocation}]
RegistrationBody ==
  [product: Product, units: Seq(Unit) \ {<<>>}, loc: Location, type: SystemKey]

NewUnits(body) == {body.units[i] : i \in 1 .. Len(body.units)}

(* A unit row is created once, under an id the database has just drawn.    *)
ASSUME UnitsAssumption ==
  /\ Changes \subseteq Req /\ Edits \subseteq Req /\ Registrations \subseteq Req
  /\ \A b \in ChangeBodies : b \in ChangeBody
  /\ \A b \in EditBodies : b \in EditBody
  /\ RegistrationOf \in [Registrations -> RegistrationBody]
  /\ \A r \in Registrations :
        LET b == RegistrationOf[r]
        IN  /\ \A i, j \in 1 .. Len(b.units) : b.units[i] = b.units[j] => i = j
            /\ \A u \in NewUnits(b) :
                  ProductOf[u] = b.product /\ OpeningUnit[u] = Unregistered
  /\ \A q, r \in Registrations :
        q # r => NewUnits(RegistrationOf[q]) \cap NewUnits(RegistrationOf[r]) = {}

(* retireProductUnit: a change to DISPOSED that names no location.         *)
Retirement(u) == [unit |-> u, status |-> "DISPOSED", loc |-> NoLocation]

ChangeState ==
  [pc: {"write", "commit"}, body: ChangeBody,
   loc: Location \cup {NoLocation}, delta: {-1, 0, 1}, key: SystemKey]
EditState == [pc: {"write"}, body: EditBody]
TypeOKUnits ==
  /\ DOMAIN change = Changes
  /\ \A r \in Changes : change[r].pc \in {"write", "commit"} => change[r] \in ChangeState
  /\ DOMAIN edit = Edits
  /\ \A r \in Edits : edit[r].pc = "write" => edit[r] \in EditState
  /\ registration \in [Registrations -> {"idle", "write", "commit", "ok", "failed"}]

AtPc(pc) == [pc |-> pc]

InitUnitLocals ==
  /\ change = [r \in Changes |-> AtPc("idle")]
  /\ edit = [r \in Edits |-> AtPc("idle")]
  /\ registration = [r \in Registrations |-> "idle"]

EndChange(r, outcome) == change' = [change EXCEPT ![r] = AtPc(outcome)]
EndEdit(r, outcome) == edit' = [edit EXCEPT ![r] = AtPc(outcome)]
GoRegistration(r, pc) == registration' = [registration EXCEPT ![r] = pc]

Counted(status) == status \in STOCK_COUNTED_STATUSES

(* getProductUnitForWrite finds the unit of a product that is not archived.*)
Findable(u) ==
  committed[u].status # "UNREGISTERED" /\ Live(committed[ProductOf[u]])

-----------------------------------------------------------------------------
(* changeProductUnitStatus                                                 *)

(* resolveNextLocationId                                                   *)
NextLocation(current, body) ==
  IF body.loc # NoLocation THEN body.loc
  ELSE IF body.status \in LOCATION_CLEARED_STATUSES THEN NoLocation
  ELSE current.loc

(* resolveStatusQuantityDelta                                              *)
QuantityDelta(from, to) ==
  IF Counted(from) = Counted(to) THEN 0 ELSE IF Counted(to) THEN 1 ELSE -1

(* resolveStatusMovementSystemKey                                          *)
MovementKey(from, to, delta) ==
  IF delta < 0 /\ to = "SOLD" THEN "SALE"
  ELSE IF delta > 0 /\ (from = "SOLD" \/ to = "RETURNED") THEN "RETURN"
  ELSE "ADJUSTMENT"

(* Everything up to the first write: the unit is read outside the          *)
(* transaction, and what it was decides the delta.                         *)
ReadForChange(r) ==
  /\ change[r].pc = "idle"
  /\ \E body \in ChangeBodies :
        LET current == committed[body.unit]
            loc == NextLocation(current, body)
            delta == QuantityDelta(current.status, body.status)
        IN  IF ~ Findable(body.unit) \/ (Counted(body.status) /\ loc = NoLocation)
              THEN EndChange(r, "failed")
              ELSE change' = [change EXCEPT
                      ![r] = [pc |-> "write", body |-> body, loc |-> loc, delta |-> delta,
                              key |-> MovementKey(current.status, body.status, delta)]]
  /\ UNCHANGED <<dbVars, edit, registration>>

ChangedUnit(r) == [status |-> change[r].body.status, loc |-> change[r].loc]

(* delta = 0: one unit update, in a transaction of its own.                *)
WriteStatus(r) ==
  /\ change[r].pc = "write" /\ change[r].delta = 0
  /\ AutoCommit(Write(change[r].body.unit, ChangedUnit(r)))
  /\ EndChange(r, "ok")
  /\ UNCHANGED <<edit, registration>>

ChangedRow(r) ==
  LET u == change[r].body.unit
  IN  Posted(Visible(r, ProductOf[u]), change[r].key, change[r].delta, u,
             change[r].loc, NoSale, 0)

(* delta # 0: the product's balance, the unit and the movement.            *)
WriteStatusAndQuantity(r) ==
  LET u == change[r].body.unit
      p == ProductOf[u]
  IN  /\ change[r].pc = "write" /\ change[r].delta # 0
      /\ Lockable(r, p) /\ Lockable(r, u)
      /\ IF Oversold(ChangedRow(r))
           THEN Rollback(r) /\ EndChange(r, "failed")
           ELSE /\ Stage(r, WriteStock(p, ChangedRow(r), Write(u, ChangedUnit(r))))
                /\ change' = [change EXCEPT ![r].pc = "commit"]
      /\ UNCHANGED <<edit, registration>>

CommitChange(r) ==
  /\ change[r].pc = "commit"
  /\ Commit(r) /\ EndChange(r, "ok")
  /\ UNCHANGED <<edit, registration>>

AbortChange(r) ==
  /\ change[r].pc \in {"write", "commit"}
  /\ Rollback(r) /\ EndChange(r, "failed")
  /\ UNCHANGED <<edit, registration>>

-----------------------------------------------------------------------------
(* updateProductUnit with a locationId in the patch                        *)

ReadForEdit(r) ==
  /\ edit[r].pc = "idle"
  /\ \E body \in EditBodies :
        IF \/ ~ Findable(body.unit)
           \/ body.loc = NoLocation /\ Counted(committed[body.unit].status)
          THEN EndEdit(r, "failed")
          ELSE edit' = [edit EXCEPT ![r] = [pc |-> "write", body |-> body]]
  /\ UNCHANGED <<dbVars, change, registration>>

WriteLocation(r) ==
  LET body == edit[r].body
  IN  /\ edit[r].pc = "write"
      /\ AutoCommit(Write(body.unit, [committed[body.unit] EXCEPT !.loc = body.loc]))
      /\ EndEdit(r, "ok")
      /\ UNCHANGED <<change, registration>>

AbortEdit(r) ==
  /\ edit[r].pc = "write"
  /\ EndEdit(r, "failed")
  /\ UNCHANGED <<dbVars, change, registration>>

-----------------------------------------------------------------------------
(* registerProductUnits                                                    *)

(* The checks before the transaction.                                      *)
CheckRegistration(r) ==
  LET p == RegistrationOf[r].product
  IN  /\ registration[r] = "idle"
      /\ GoRegistration(r, IF ~ Live(committed[p]) \/ p \notin Serialized
                             THEN "failed" ELSE "write")
      /\ UNCHANGED <<dbVars, change, edit>>

(* Mutant: every movement of a batch carries the balance after the batch.  *)
LastBalanceForAll(row, body) ==
  LET n == Len(body.units)
  IN  [row EXCEPT
        !.quantityOnHand = @ + n,
        !.ledger = @ \o [i \in 1 .. n |->
           Movement(body.type, 1, row.quantityOnHand + n, body.units[i], body.loc, NoSale, 0)]]

(* One increment for the batch, and a movement for each unit with the      *)
(* balance it would have left on its own.                                  *)
RegisteredRow(row, body) ==
  LET n == Len(body.units)
  IN  [row EXCEPT
        !.quantityOnHand = @ + n,
        !.ledger = @ \o [i \in 1 .. n |->
           Movement(body.type, 1, row.quantityOnHand + i, body.units[i], body.loc, NoSale, 0)]]

CreateUnits(r) ==
  LET body == RegistrationOf[r]
      p == body.product
  IN  /\ registration[r] = "write"
      /\ Stage(r, WriteStock(p, RegisteredRow(Visible(r, p), body),
                 [u \in NewUnits(body) |-> [status |-> "IN_STOCK", loc |-> body.loc]]))
      /\ GoRegistration(r, "commit")
      /\ UNCHANGED <<change, edit>>

CommitRegistration(r) ==
  /\ registration[r] = "commit"
  /\ Commit(r) /\ GoRegistration(r, "ok")
  /\ UNCHANGED <<change, edit>>

AbortRegistration(r) ==
  /\ registration[r] \in {"write", "commit"}
  /\ Rollback(r) /\ GoRegistration(r, "failed")
  /\ UNCHANGED <<change, edit>>

-----------------------------------------------------------------------------
UnitsWant(r) ==
  IF r \in Changes /\ change[r].pc = "write"
    THEN {change[r].body.unit}
         \cup (IF change[r].delta # 0 THEN {ProductOf[change[r].body.unit]} ELSE {})
  ELSE IF r \in Edits /\ edit[r].pc = "write" THEN {edit[r].body.unit}
  ELSE IF r \in Registrations /\ registration[r] = "write"
    THEN {RegistrationOf[r].product}
  ELSE {}

ChangeStep(r) == WriteStatus(r) \/ WriteStatusAndQuantity(r) \/ CommitChange(r)
RegistrationStep(r) == CreateUnits(r) \/ CommitRegistration(r)

UnitsNext ==
  \/ \E r \in Changes : ReadForChange(r) \/ ChangeStep(r) \/ AbortChange(r)
  \/ \E r \in Edits : ReadForEdit(r) \/ WriteLocation(r) \/ AbortEdit(r)
  \/ \E r \in Registrations :
        CheckRegistration(r) \/ RegistrationStep(r) \/ AbortRegistration(r)
=============================================================================
