--------------------------- MODULE StockMovements ---------------------------
(***************************************************************************)
(* recordStockMovement of stock-movements.service.ts: the movement type is *)
(* read before the transaction, the product in it, and the increment is    *)
(* applied to whatever the product's row holds by then.                    *)
(***************************************************************************)
EXTENDS StockDb

CONSTANTS
  Records,        \* the requests that run recordStockMovement
  RecordBodies    \* [product, effect, quantity, loc, transfer] clients send

VARIABLE record    \* local variables of the running handlers

RecordBody ==
  [product: Product, effect: {"INCREASE", "DECREASE", "ADJUSTMENT"}, quantity: Int,
   loc: Location \cup {NoLocation}, transfer: BOOLEAN]

ASSUME RecordsAssumption ==
  /\ Records \subseteq Req
  /\ \A b \in RecordBodies : b \in RecordBody

RecordState ==
  [pc: {"refs", "write", "commit"}, body: RecordBody, delta: Int]

RecordPc(pc) == [pc |-> pc]

TypeOKRecords ==
  /\ DOMAIN record = Records
  /\ \A r \in Records :
        record[r].pc \in {"refs", "write", "commit"} => record[r] \in RecordState

InitRecordLocals == record = [r \in Records |-> RecordPc("idle")]

EndRecord(r, outcome) == record' = [record EXCEPT ![r] = RecordPc(outcome)]

(* resolveDelta throws.                                                    *)
BadQuantity(effect, quantity) ==
  IF effect = "ADJUSTMENT" THEN quantity = 0 ELSE quantity < 1

(* What resolveDelta returns.                                              *)
Delta(effect, quantity) == IF effect = "DECREASE" THEN -quantity ELSE quantity

BeginRecord(r) ==
  /\ record[r].pc = "idle"
  /\ \E body \in RecordBodies :
        IF body.transfer \/ BadQuantity(body.effect, body.quantity)
          THEN EndRecord(r, "failed")
          ELSE record' = [record EXCEPT
                  ![r] = [pc |-> "refs", body |-> body,
                          delta |-> Delta(body.effect, body.quantity)]]
  /\ UNCHANGED dbVars

(* validateRefs, inside the transaction, takes no lock.                    *)
ValidateRefs(r) ==
  /\ record[r].pc = "refs"
  /\ IF ~ Live(Visible(r, record[r].body.product))
       THEN EndRecord(r, "failed")
       ELSE record' = [record EXCEPT ![r].pc = "write"]
  /\ UNCHANGED dbVars

(* The product's row after the movement.                                   *)
RecordedRow(r) ==
  LET body == record[r].body
  IN  Posted(Visible(r, body.product), "MANUAL", record[r].delta, NoUnit, body.loc, NoSale, 0)

WriteMovement(r) ==
  LET p == record[r].body.product
  IN  /\ record[r].pc = "write"
      /\ Lockable(r, p)
      /\ IF Oversold(RecordedRow(r))
           THEN Rollback(r) /\ EndRecord(r, "failed")
           ELSE /\ Stage(r, Write(p, RecordedRow(r)))
                /\ record' = [record EXCEPT ![r].pc = "commit"]

CommitRecord(r) ==
  /\ record[r].pc = "commit"
  /\ Commit(r) /\ EndRecord(r, "ok")

AbortRecord(r) ==
  /\ record[r].pc \in {"refs", "write", "commit"}
  /\ Rollback(r) /\ EndRecord(r, "failed")

RecordsWant(r) ==
  IF r \in Records /\ record[r].pc = "write" THEN {record[r].body.product} ELSE {}

RecordStep(r) == ValidateRefs(r) \/ WriteMovement(r) \/ CommitRecord(r)

RecordsNext == \E r \in Records : BeginRecord(r) \/ RecordStep(r) \/ AbortRecord(r)
=============================================================================
