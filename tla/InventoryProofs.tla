--------------------------- MODULE InventoryProofs ---------------------------
(***************************************************************************)
(* The composed handlers: the inductive invariant, the types, the balance  *)
(* of every committed ledger, and the refinement of the stock book, for    *)
(* any products, units, requests, carts and request bodies.                *)
(***************************************************************************)
EXTENDS Inventory, PosProofs, ProductUnitsProofs, AuditProofs

-----------------------------------------------------------------------------
(* recordStockMovement                                                     *)

RecordsStep == DbStep /\ TypeOKRecords'

LEMMA EndRecordKeeps ==
  ASSUME TypeOKRecords, NEW r \in Records, NEW outcome \in {"ok", "failed"},
         EndRecord(r, outcome)
  PROVE  TypeOKRecords'
<1>1. RecordPc(outcome).pc \notin {"refs", "write", "commit"}
  BY DEF RecordPc
<1> QED
  BY <1>1 DEF TypeOKRecords, EndRecord

LEMMA BeginRecordKeeps ==
  ASSUME DbInv, TypeOKRecords, NEW r \in Records, BeginRecord(r)
  PROVE  RecordsStep
<1>1. DbStep
  BY TablesUnchanged DEF BeginRecord
<1>2. PICK body \in RecordBodies :
        \/ EndRecord(r, "failed")
        \/ record' = [record EXCEPT ![r] = [pc |-> "refs", body |-> body,
                                           delta |-> Delta(body.effect, body.quantity)]]
  BY DEF BeginRecord
<1>3. CASE EndRecord(r, "failed")
  BY <1>1, <1>3, EndRecordKeeps DEF RecordsStep
<1>4. CASE record' = [record EXCEPT ![r] = [pc |-> "refs", body |-> body,
                                           delta |-> Delta(body.effect, body.quantity)]]
  <2>1. body \in RecordBody
    BY RecordsAssumption
  <2>2. Delta(body.effect, body.quantity) \in Int
    BY <2>1 DEF Delta, RecordBody
  <2>3. [pc |-> "refs", body |-> body, delta |-> Delta(body.effect, body.quantity)]
          \in RecordState
    BY <2>1, <2>2 DEF RecordState
  <2>4. TypeOKRecords'
    BY <1>4, <2>3 DEF TypeOKRecords
  <2> QED
    BY <1>1, <2>4 DEF RecordsStep
<1> QED
  BY <1>2, <1>3, <1>4

(* The handler goes on to its next statement.                              *)
LEMMA RecordAdvances ==
  ASSUME TypeOKRecords, NEW r \in Records, record[r] \in RecordState,
         NEW pc \in {"refs", "write", "commit"},
         record' = [record EXCEPT ![r].pc = pc]
  PROVE  TypeOKRecords'
<1> DEFINE d == [record[r] EXCEPT !.pc = pc]
<1>1. d = [pc |-> pc, body |-> record[r].body, delta |-> record[r].delta]
  BY DEF RecordState
<1>2. record' = [record EXCEPT ![r] = d]
  BY DEF TypeOKRecords
<1> HIDE DEF d
<1>3. d \in RecordState
  BY <1>1 DEF RecordState
<1> QED
  BY <1>2, <1>3 DEF TypeOKRecords

LEMMA ValidateRefsKeeps ==
  ASSUME DbInv, TypeOKRecords, NEW r \in Records, ValidateRefs(r)
  PROVE  RecordsStep
<1>1. DbStep
  BY TablesUnchanged DEF ValidateRefs
<1>2. CASE EndRecord(r, "failed")
  BY <1>1, <1>2, EndRecordKeeps DEF RecordsStep
<1>3. CASE record' = [record EXCEPT ![r].pc = "write"]
  <2>1. record[r] \in RecordState
    BY DEF ValidateRefs, TypeOKRecords
  <2> QED
    BY <1>1, <1>3, <2>1, RecordAdvances DEF RecordsStep
<1> QED
  BY <1>2, <1>3 DEF ValidateRefs

LEMMA WriteMovementKeeps ==
  ASSUME DbInv, TypeOKRecords, NEW r \in Records, WriteMovement(r)
  PROVE  RecordsStep
<1> DEFINE body == record[r].body
           p == body.product
<1>1. record[r] \in RecordState /\ r \in Req
  BY RecordsAssumption DEF WriteMovement, TypeOKRecords
<1>2. body \in RecordBody /\ record[r].delta \in Int
  BY <1>1 DEF RecordState
<1>3. p \in Product /\ body.loc \in Location \cup {NoLocation}
  BY <1>2 DEF RecordBody
<1>4. CASE Rollback(r) /\ EndRecord(r, "failed")
  BY <1>1, <1>4, RolledBack, EndRecordKeeps DEF RecordsStep
<1>5. CASE /\ ~ Oversold(RecordedRow(r))
           /\ Stage(r, Write(p, RecordedRow(r)))
           /\ record' = [record EXCEPT ![r].pc = "commit"]
  <2>1. TypeOKRecords'
    BY <1>1, <1>5, RecordAdvances
  <2>2. RecordedRow(r) = Posted(Visible(r, p), "MANUAL", record[r].delta, NoUnit, body.loc,
                                NoSale, 0)
    BY DEF RecordedRow
  <2>3. Visible(r, p) \in ProductRow
    BY <1>3, VisibleOK DEF RowOK, Row
  <2> HIDE DEF p, body
  <2>4. Visible(r, p).quantityOnHand + record[r].delta >= 0
    BY <1>2, <1>5, <2>2, <2>3, PostedQuantity
  <2>5. "MANUAL" \in SystemKey
    BY DEF SystemKey
  <2> DEFINE noUnits == [u \in {} |-> Unregistered]
  <2>6. Write(p, RecordedRow(r)) = WriteStock(p, RecordedRow(r), noUnits)
    BY DEF Write, WriteStock
  <2>7. UnitRowsOK(noUnits)
    BY DEF UnitRowsOK
  <2> HIDE DEF noUnits
  <2>8. Stage(r, WriteStock(p, Posted(Visible(r, p), "MANUAL", record[r].delta, NoUnit,
                                      body.loc, NoSale, 0), noUnits))
    BY <1>5, <2>2, <2>6
  <2>9. DbStep
    BY <1>1, <1>2, <1>3, <2>4, <2>5, <2>7, <2>8, StagePosted
  <2> QED
    BY <2>1, <2>9 DEF RecordsStep
<1> QED
  BY <1>4, <1>5 DEF WriteMovement

(* Every step of a manual movement.                                        *)
LEMMA RecordsNextKeeps ==
  ASSUME DbInv, TypeOKRecords, RecordsNext
  PROVE  RecordsStep
<1>1. ASSUME NEW r \in Records, CommitRecord(r) \/ AbortRecord(r)
      PROVE  RecordsStep
  BY <1>1, RecordsAssumption, Committed, RolledBack, EndRecordKeeps
     DEF CommitRecord, AbortRecord, RecordsStep
<1> QED
  BY <1>1, BeginRecordKeeps, ValidateRefsKeeps, WriteMovementKeeps
     DEF RecordsNext, RecordStep

-----------------------------------------------------------------------------
(* The product catalogue                                                   *)

CatalogStep == DbStep /\ TypeOKCatalog'

LEMMA EndCatalogKeeps ==
  ASSUME TypeOKCatalog, NEW r \in CatalogReq,
         NEW outcome \in {"ok", "failed"}, EndCatalog(r, outcome)
  PROVE  TypeOKCatalog'
<1>1. CatalogPc(outcome).pc # "write"
  BY DEF CatalogPc
<1> QED
  BY <1>1 DEF TypeOKCatalog, EndCatalog

LEMMA WillWriteKeeps ==
  ASSUME TypeOKCatalog, NEW r \in CatalogReq, NEW p \in Product, NEW body \in Card,
         WillWrite(r, p, body)
  PROVE  TypeOKCatalog'
<1>1. [pc |-> "write", product |-> p, body |-> body] \in CatalogWrite
  BY DEF CatalogWrite
<1> QED
  BY <1>1 DEF TypeOKCatalog, WillWrite

(* A creation writes to a product row.                                     *)
LEMMA CreationTargetType ==
  ASSUME NEW r \in ProductCreations, NEW body
  PROVE  CreationTarget(r, body) \in Product
<1> DEFINE owners == {p \in Product : committed[p].card.sku = body.sku}
<1>1. CASE owners = {}
  BY <1>1, CatalogAssumption DEF CreationTarget
<1>2. CASE owners # {}
  <2>1. (CHOOSE p \in owners : TRUE) \in owners
    <3> HIDE DEF owners
    <3> QED
      BY <1>2
  <2> QED
    BY <1>2, <2>1 DEF CreationTarget
<1> QED
  BY <1>1, <1>2

LEMMA ReadCatalogKeeps ==
  ASSUME DbInv, TypeOKCatalog, NEW r \in CatalogReq,
         \/ r \in Archivals /\ ReadForArchive(r)
         \/ r \in ProductUpdates /\ ReadForUpdate(r)
         \/ r \in ProductCreations /\ ReadForCreate(r)
  PROVE  CatalogStep
<1>1. DbStep
  BY TablesUnchanged DEF ReadForArchive, ReadForUpdate, ReadForCreate
<1>2. Unlisted \in Card
  BY DEF Unlisted, Card
<1>3. \/ EndCatalog(r, "failed")
      \/ \E p \in Product, body \in Card : WillWrite(r, p, body)
  <2>1. CASE r \in Archivals /\ ReadForArchive(r)
    BY <1>2, <2>1 DEF ReadForArchive
  <2>2. CASE r \in ProductUpdates /\ ReadForUpdate(r)
    BY <2>2, CatalogAssumption DEF ReadForUpdate, ProductBody
  <2>3. CASE r \in ProductCreations /\ ReadForCreate(r)
    BY <2>3, CatalogAssumption, CreationTargetType DEF ReadForCreate, ProductBody
  <2> QED
    BY <2>1, <2>2, <2>3
<1> QED
  BY <1>1, <1>3, EndCatalogKeeps, WillWriteKeeps DEF CatalogStep

LEMMA WriteProductKeeps ==
  ASSUME DbInv, TypeOKCatalog, NEW r \in CatalogReq, WriteProduct(r)
  PROVE  CatalogStep
<1> DEFINE p == catalog[r].product
           card == Patched(committed[p].card, catalog[r].body)
           row == Catalogued(r, committed[p], card)
<1>1. p \in Product /\ catalog[r].body \in Card
  BY DEF TypeOKCatalog, WriteProduct, CatalogWrite
<1>2. committed[p] \in ProductRow /\ Balanced(p, committed[p])
  BY <1>1 DEF DbInv, TypeOKDb, DbTypeOK, VersionsConsistent
<1>3. card \in Card
  <2>1. committed[p].card \in Card
    BY <1>2 DEF ProductRow
  <2> HIDE DEF p
  <2> QED
    BY <1>1, <2>1 DEF Patched, Card
<1>4. CASE EndCatalog(r, "failed") /\ UNCHANGED dbVars
  BY <1>4, TablesUnchanged, EndCatalogKeeps DEF CatalogStep
<1>5. CASE AutoCommit(Write(p, row)) /\ EndCatalog(r, "ok")
  <2> DEFINE archived == ArchivedBy(r, committed[p])
             updated == [committed[p] EXCEPT !.isArchived = archived, !.card = card]
  <2>1. row = [quantityOnHand |-> committed[p].quantityOnHand,
               ledger |-> committed[p].ledger, isArchived |-> archived, card |-> card]
    <3>1. row = updated
      BY DEF Catalogued
    <3> HIDE DEF row, p, card, archived
    <3> QED
      BY <1>2, <3>1 DEF ProductRow
  <2>2. archived \in BOOLEAN
    BY <1>2 DEF ArchivedBy, ProductRow
  <2> HIDE DEF row, p, card, archived
  <2>3. row \in ProductRow
    BY <1>2, <1>3, <2>1, <2>2 DEF ProductRow
  <2>4. Balanced(p, row)
    BY <1>2, <2>1 DEF Balanced
  <2>5. \A x \in DOMAIN Write(p, row) : x \in Row /\ RowOK(x, Write(p, row)[x])
    BY <1>1, <2>3, <2>4, RowAssumption DEF Write, RowOK, Row
  <2>6. \A q \in Product : q \in DOMAIN Write(p, row) =>
          Write(p, row)[q].ledger = committed[q].ledger
    BY <2>1 DEF Write
  <2>7. DbStep
    BY <1>5, <2>5, <2>6, AutoCommitKeeps DEF DbStep
  <2> QED
    BY <1>5, <2>7, EndCatalogKeeps DEF CatalogStep
<1> QED
  BY <1>4, <1>5 DEF WriteProduct

(* Every step of the catalogue.                                            *)
LEMMA CatalogNextKeeps ==
  ASSUME DbInv, TypeOKCatalog, CatalogNext
  PROVE  CatalogStep
<1>1. ASSUME NEW r \in CatalogReq, AbortCatalog(r)
      PROVE  CatalogStep
  BY <1>1, TablesUnchanged, EndCatalogKeeps DEF AbortCatalog, CatalogStep
<1> QED
  BY <1>1, ReadCatalogKeeps, WriteProductKeeps DEF CatalogNext, CatalogReq

-----------------------------------------------------------------------------
(* Receipt imports                                                         *)

ReceiptsStep == DbStep /\ TypeOKReceipts'

(* What the local variables of one receipt may be.                         *)
ReceiptOK(v) ==
  /\ DOMAIN v = {"pc", "matches", "next", "supplier"}
  /\ v.pc \in ReceiptPc /\ v.next \in Nat \ {0}
  /\ v.pc = "stock" => v.supplier \in Supplier
  /\ Resolved(v.matches)

LEMMA ReceiptAdvances ==
  ASSUME TypeOKReceipts, NEW r \in Receipts, NEW v, ReceiptOK(v), suppliers' \subseteq Supplier,
         receipt' = [receipt EXCEPT ![r] = v]
  PROVE  TypeOKReceipts'
BY DEF TypeOKReceipts, ReceiptOK

LEMMA ReceiptLocals ==
  ASSUME TypeOKReceipts, NEW r \in Receipts
  PROVE  ReceiptOK(receipt[r]) /\ suppliers \subseteq Supplier
BY DEF TypeOKReceipts, ReceiptOK

LEMMA AtReceiptOK ==
  ASSUME NEW pc \in ReceiptPc \ {"stock"}
  PROVE  ReceiptOK(AtReceipt(pc))
<1>1. Resolved(NoMatches)
  BY DEF Resolved, NoMatches
<1> QED
  BY <1>1 DEF ReceiptOK, AtReceipt

LEMMA EndReceiptKeeps ==
  ASSUME TypeOKReceipts, NEW r \in Receipts, NEW outcome \in {"ok", "failed"},
         EndReceipt(r, outcome), suppliers' \subseteq Supplier
  PROVE  TypeOKReceipts'
<1>1. ReceiptOK(AtReceipt(outcome))
  BY AtReceiptOK DEF ReceiptPc
<1> QED
  BY <1>1, ReceiptAdvances DEF EndReceipt

(* The handler goes on to its next statement.                              *)
LEMMA ReceiptGoesOn ==
  ASSUME TypeOKReceipts, NEW r \in Receipts, NEW pc \in {"reserve", "match"},
         receipt' = [receipt EXCEPT ![r].pc = pc], UNCHANGED suppliers
  PROVE  TypeOKReceipts'
<1> DEFINE v == [receipt[r] EXCEPT !.pc = pc]
<1>1. ReceiptOK(receipt[r]) /\ suppliers' \subseteq Supplier
  BY ReceiptLocals
<1>2. ReceiptOK(v)
  BY <1>1 DEF ReceiptOK, ReceiptPc
<1>3. receipt' = [receipt EXCEPT ![r] = v]
  OBVIOUS
<1> QED
  BY <1>1, <1>2, <1>3, ReceiptAdvances

LEMMA ReserveIdempotencyKeyKeeps ==
  ASSUME DbInv, TypeOKReceipts, NEW r \in Receipts, ReserveIdempotencyKey(r)
  PROVE  ReceiptsStep
<1> DEFINE key == ReceiptOf[r].key
<1>1. UNCHANGED suppliers /\ suppliers' \subseteq Supplier
  BY ReceiptLocals DEF ReserveIdempotencyKey
<1>2. CASE EndReceipt(r, "failed") /\ UNCHANGED dbVars
  BY <1>1, <1>2, TablesUnchanged, EndReceiptKeeps DEF ReceiptsStep
<1>3. CASE receipt' = [receipt EXCEPT ![r].pc = "match"] /\ UNCHANGED dbVars
  BY <1>1, <1>3, TablesUnchanged, ReceiptGoesOn DEF ReceiptsStep, ReceiptPc
<1>4. CASE key # NoKey /\ Claimed(r, key) /\ receipt' = [receipt EXCEPT ![r].pc = "match"]
  <2>1. key \in IdempotencyKey /\ r \in Req
    BY <1>4, ReceiptsAssumption DEF ReceiptBody
  <2> DEFINE rows == Write(key, [used |-> TRUE])
  <2>2. DOMAIN rows = {key} /\ rows[key] = [used |-> TRUE]
    BY DEF Write
  <2>3. [used |-> TRUE] \in KeyRow
    BY DEF KeyRow
  <2>4. Stage(r, rows)
    BY <1>4 DEF Claimed
  <2> HIDE DEF key, rows
  <2>5. \A x \in DOMAIN rows : x \in Row /\ RowOK(x, rows[x])
    BY <2>1, <2>2, <2>3, RowAssumption DEF Row, RowOK
  <2>6. \A p \in Product : p \notin DOMAIN rows
    BY <2>1, <2>2, RowAssumption
  <2>7. DbInv' /\ committed' = committed
    BY <2>1, <2>4, <2>5, <2>6, StageKeeps
  <2>8. DbStep
    BY <2>7, NothingPublished DEF DbStep
  <2> QED
    BY <1>1, <1>4, <2>8, ReceiptGoesOn DEF ReceiptsStep, ReceiptPc
<1> QED
  BY <1>2, <1>3, <1>4 DEF ReserveIdempotencyKey

(* What a query answers are products.                                      *)
LEMMA MatchMapsType ==
  ASSUME NEW r \in Receipts, NEW field, NEW map \in MatchMaps(r, field), NEW t \in DOMAIN map
  PROVE  map[t] \in Product
BY DEF MatchMaps

LEMMA BuildProductMatchMapKeeps ==
  ASSUME DbInv, TypeOKReceipts, NEW r \in Receipts, BuildProductMatchMap(r)
  PROVE  ReceiptsStep
<1> DEFINE v == receipt[r]
           field == MatchField[v.next]
           pc == IF field = "name" THEN "supplier" ELSE "match"
           next == IF field = "name" THEN 1 ELSE v.next + 1
<1>1. ReceiptOK(v) /\ suppliers' \subseteq Supplier /\ DbStep
  BY ReceiptLocals, TablesUnchanged DEF BuildProductMatchMap
<1>2. PICK map \in MatchMaps(r, field) :
        receipt' = [receipt EXCEPT ![r].matches[field] = map, ![r].pc = pc, ![r].next = next]
  BY DEF BuildProductMatchMap
<1> DEFINE matches == [v.matches EXCEPT ![field] = map]
           w == [v EXCEPT !.matches = matches, !.pc = pc, !.next = next]
<1>3. Resolved(matches)
  <2>1. \A t \in DOMAIN map : map[t] \in Product
    BY <1>2, MatchMapsType
  <2>2. Resolved(v.matches)
    BY <1>1 DEF ReceiptOK
  <2> HIDE DEF field, v
  <2> QED
    BY <2>1, <2>2 DEF Resolved
<1>4. ReceiptOK(w)
  <2> HIDE DEF matches, field, v
  <2> QED
    BY <1>1, <1>3 DEF ReceiptOK, ReceiptPc
<1>5. receipt' = [receipt EXCEPT ![r] = w]
  <2> HIDE DEF field, pc, next
  <2> QED
    BY <1>1, <1>2 DEF TypeOKReceipts, ReceiptOK
<1> HIDE DEF w
<1> QED
  BY <1>1, <1>4, <1>5, ReceiptAdvances DEF ReceiptsStep

LEMMA FindOrCreateSupplierKeeps ==
  ASSUME DbInv, TypeOKReceipts, NEW r \in Receipts, FindOrCreateSupplier(r)
  PROVE  ReceiptsStep
<1>1. ReceiptOK(receipt[r]) /\ suppliers \subseteq Supplier /\ suppliers' \subseteq Supplier
      /\ DbStep
  BY ReceiptLocals, TablesUnchanged DEF FindOrCreateSupplier
<1>2. [name |-> ReceiptOf[r].supplier, by |-> r] \in Supplier
  BY ReceiptsAssumption DEF ReceiptBody, Supplier
<1>3. PICK s \in Supplier :
        receipt' = [receipt EXCEPT ![r].pc = "stock", ![r].supplier = s]
  BY <1>1, <1>2 DEF FindOrCreateSupplier
<1> DEFINE v == [receipt[r] EXCEPT !.pc = "stock", !.supplier = s]
<1>4. ReceiptOK(v)
  BY <1>1 DEF ReceiptOK, ReceiptPc
<1>5. receipt' = [receipt EXCEPT ![r] = v]
  BY <1>3
<1> HIDE DEF v
<1> QED
  BY <1>1, <1>4, <1>5, ReceiptAdvances DEF ReceiptsStep

(* What a client sends.                                                    *)
LEMMA ReceiptBodyType ==
  ASSUME NEW r \in Receipts
  PROVE  ReceiptOf[r] \in ReceiptBody /\ \A i \in DOMAIN Items(r) : Items(r)[i] \in ReceiptItem
<1>1. ReceiptOf[r] \in ReceiptBody
  BY ReceiptsAssumption
<1>2. Items(r) \in Seq(ReceiptItem)
  BY <1>1 DEF ReceiptBody, Items
<1> QED
  BY <1>1, <1>2

(* A line posts its quantity to a row of the product, whatever the card.   *)
LEMMA StockedKeeps ==
  ASSUME DbInv, NEW r \in Receipts, NEW i \in DOMAIN Items(r), NEW p \in Product,
         NEW row \in ProductRow, Balanced(p, row), row.ledger = Visible(r, p).ledger,
         Stage(r, Write(p, StockedRow(r, row, Items(r)[i].quantity)))
  PROVE  DbStep
<1> DEFINE quantity == Items(r)[i].quantity
           loc == ReceiptOf[r].loc
           card == [row.card EXCEPT !.loc = IF loc = NoLocation THEN row.card.loc ELSE loc]
           placed == [row EXCEPT !.card = card]
           new == Posted(placed, "PURCHASE", quantity, NoUnit, loc, NoSale, 0)
<1>1. r \in Req /\ loc \in Location \cup {NoLocation} /\ quantity \in Nat
  BY ReceiptBodyType, ReceiptsAssumption DEF ReceiptBody, ReceiptItem
<1>2. card \in Card /\ row.card \in Card
  BY <1>1 DEF ProductRow, Card
<1>3. placed = [quantityOnHand |-> row.quantityOnHand, ledger |-> row.ledger,
                isArchived |-> row.isArchived, card |-> card]
  BY DEF ProductRow
<1>4. StockedRow(r, row, quantity) = new
  BY <1>2 DEF StockedRow, ProductRow, Card
<1>5. placed \in ProductRow /\ Balanced(p, placed)
  <2> HIDE DEF card, placed
  <2> QED
    BY <1>2, <1>3 DEF ProductRow, Balanced
<1>6. placed.quantityOnHand + quantity >= 0
  BY <1>1, <1>5 DEF ProductRow
<1>7. "PURCHASE" \in SystemKey
  BY DEF SystemKey
<1>8. placed.ledger = row.ledger
  BY <1>3
<1> HIDE DEF placed, quantity, loc, card
<1>9. new \in ProductRow /\ Balanced(p, new) /\ Continues(placed.ledger, new.ledger)
  <2>1. quantity \in Int /\ NoUnit \in Unit \cup {NoUnit} /\ NoSale \in Sale \cup {NoSale}
        /\ 0 \in Nat
    BY <1>1
  <2> QED
    BY <1>1, <1>5, <1>6, <1>7, <2>1, PostedOK
<1>10. Continues(Visible(r, p).ledger, new.ledger)
  BY <1>8, <1>9
<1> DEFINE noUnits == [u \in {} |-> Unregistered]
<1>11. Write(p, new) = WriteStock(p, new, noUnits)
  BY DEF Write, WriteStock
<1>12. UnitRowsOK(noUnits)
  BY DEF UnitRowsOK
<1>13. Stage(r, WriteStock(p, new, noUnits))
  BY <1>4, <1>11 DEF quantity
<1> HIDE DEF new, noUnits
<1> QED
  BY <1>1, <1>9, <1>10, <1>12, <1>13, StageStock

LEMMA NewCardType ==
  ASSUME NEW r \in Receipts, NEW i \in DOMAIN Items(r)
  PROVE  NewCard(r, i) \in Card /\ DrawnFor[r][i] \in Product
<1>1. Items(r)[i] \in ReceiptItem /\ ReceiptOf[r] \in ReceiptBody
  BY ReceiptBodyType
<1>2. DrawnFor[r][i] \in Product /\ GeneratedSku[r][i] \in Text
  BY ReceiptsAssumption
<1> QED
  BY <1>1, <1>2 DEF NewCard, ReceiptBody, ReceiptItem, Card

(* findProductInMap finds a product or nothing.                            *)
LEMMA FindProductType ==
  ASSUME NEW item, NEW matches, Resolved(matches), FindProductInMap(item, matches) # NoProduct
  PROVE  FindProductInMap(item, matches) \in Product
BY DEF FindProductInMap, Resolved

LEMMA IndexedResolved ==
  ASSUME NEW matches, Resolved(matches), NEW p \in Product, NEW card
  PROVE  Resolved(Indexed(matches, p, card))
<1> DEFINE indexed == Indexed(matches, p, card)
<1>1. \A field \in {"barcode", "sku", "name"} :
        indexed[field] \in {matches[field], With(matches[field], card[field], p)}
  BY DEF Indexed
<1>2. \A field \in {"barcode", "sku", "name"} :
        \A t \in DOMAIN With(matches[field], card[field], p) :
           With(matches[field], card[field], p)[t] \in Product
  BY DEF With, Resolved
<1> HIDE DEF indexed
<1> QED
  BY <1>1, <1>2 DEF Resolved, indexed

LEMMA StockReceiptLineKeeps ==
  ASSUME DbInv, TypeOKReceipts, NEW r \in Receipts, StockReceiptLine(r)
  PROVE  ReceiptsStep
<1> DEFINE i == receipt[r].next
           p == FindProductInMap(Items(r)[i], receipt[r].matches)
           drawn == DrawnFor[r][i]
<1>1. /\ ReceiptOK(receipt[r]) /\ r \in Req
      /\ UNCHANGED suppliers /\ suppliers' \subseteq Supplier
  BY ReceiptLocals, ReceiptsAssumption DEF StockReceiptLine
<1>2. i \in DOMAIN Items(r)
  <2>1. i \in Nat \ {0} /\ i <= Len(Items(r)) /\ Items(r) \in Seq(ReceiptItem)
    BY <1>1, ReceiptsAssumption DEF StockReceiptLine, ReceiptOK, Items, ReceiptBody
  <2> HIDE DEF i
  <2> QED
    BY <2>1
<1>3. ASSUME NEW q \in Product
      PROVE  Visible(r, q) \in ProductRow /\ Balanced(q, Visible(r, q))
  BY VisibleOK DEF RowOK, Row
<1>4. Resolved(receipt[r].matches)
  BY <1>1 DEF ReceiptOK
<1>5. CASE p # NoProduct /\ StockMatched(r, i, p)
  <2> DEFINE v == [receipt[r] EXCEPT !.next = @ + 1]
  <2>1. p \in Product
    BY <1>4, <1>5, FindProductType
  <2>2. Stage(r, Write(p, StockedRow(r, Visible(r, p), Items(r)[i].quantity)))
        /\ receipt' = [receipt EXCEPT ![r] = v]
    BY <1>5 DEF StockMatched
  <2>3. ReceiptOK(v)
    BY <1>1 DEF ReceiptOK
  <2> HIDE DEF i, p, v
  <2>4. DbStep
    BY <1>2, <1>3, <2>1, <2>2, StockedKeeps
  <2> QED
    BY <1>1, <2>2, <2>3, <2>4, ReceiptAdvances DEF ReceiptsStep
<1>6. CASE Rollback(r) /\ EndReceipt(r, "failed")
  BY <1>1, <1>6, RolledBack, EndReceiptKeeps DEF ReceiptsStep
<1>7. CASE /\ p = NoProduct /\ StockCreated(r, i)
           /\ ~ (Rollback(r) /\ EndReceipt(r, "failed"))
  <2> DEFINE row == Visible(r, drawn)
             card == NewCard(r, i)
             created == [row EXCEPT !.card = card, !.isArchived = FALSE]
             indexed == Indexed(receipt[r].matches, drawn, card)
             v == [receipt[r] EXCEPT !.next = @ + 1, !.matches = indexed]
  <2>1. Stage(r, Write(drawn, StockedRow(r, created, Items(r)[i].quantity)))
        /\ receipt' = [receipt EXCEPT ![r].next = @ + 1,
                                      ![r].matches = Indexed(@, drawn, card)]
    BY <1>7 DEF StockCreated
  <2>2. card \in Card /\ drawn \in Product
    BY <1>2, NewCardType
  <2>3. Resolved(indexed)
    BY <1>4, <2>2, IndexedResolved
  <2>4. ReceiptOK(v)
    <3> HIDE DEF indexed
    <3> QED
      BY <1>1, <2>3 DEF ReceiptOK
  <2>5. row \in ProductRow /\ Balanced(drawn, row)
    BY <1>3, <2>2
  <2>9. receipt' = [receipt EXCEPT ![r] = v]
    <3> HIDE DEF drawn, card
    <3> QED
      BY <1>1, <2>1 DEF TypeOKReceipts, ReceiptOK
  <2> HIDE DEF i, drawn, card, v, row, indexed
  <2>6. created = [quantityOnHand |-> row.quantityOnHand, ledger |-> row.ledger,
                   isArchived |-> FALSE, card |-> card]
    <3>1. created = [[row EXCEPT !.card = card] EXCEPT !.isArchived = FALSE]
      OBVIOUS
    <3>2. row = [quantityOnHand |-> row.quantityOnHand, ledger |-> row.ledger,
                 isArchived |-> row.isArchived, card |-> row.card]
      BY <2>5 DEF ProductRow
    <3>3. [row EXCEPT !.card = card] =
            [quantityOnHand |-> row.quantityOnHand, ledger |-> row.ledger,
             isArchived |-> row.isArchived, card |-> card]
      BY <3>2
    <3> HIDE DEF created
    <3> QED
      BY <3>1, <3>3
  <2> HIDE DEF created
  <2>7. created \in ProductRow /\ Balanced(drawn, created) /\ created.ledger = row.ledger
    BY <2>2, <2>5, <2>6 DEF ProductRow, Balanced
  <2>8. DbStep
    BY <1>2, <2>1, <2>2, <2>7, StockedKeeps DEF row
  <2> QED
    BY <1>1, <2>4, <2>8, <2>9, ReceiptAdvances DEF ReceiptsStep
<1> QED
  BY <1>5, <1>6, <1>7 DEF StockReceiptLine

LEMMA CommitReceiptKeeps ==
  ASSUME DbInv, TypeOKReceipts, NEW r \in Receipts, CommitReceipt(r)
  PROVE  ReceiptsStep
<1>1. r \in Req /\ suppliers \subseteq Supplier /\ receipt[r].supplier \in Supplier
  BY ReceiptLocals, ReceiptsAssumption DEF ReceiptOK, CommitReceipt
<1>2. suppliers' \subseteq Supplier
  BY <1>1 DEF CommitReceipt
<1> QED
  BY <1>1, <1>2, Committed, EndReceiptKeeps DEF CommitReceipt, ReceiptsStep

(* Every step of a receipt.                                                *)
LEMMA ReceiptsNextKeeps ==
  ASSUME DbInv, TypeOKReceipts, ReceiptsNext
  PROVE  ReceiptsStep
<1>1. ASSUME NEW r \in Receipts, PreviewReceiptImport(r)
      PROVE  ReceiptsStep
  BY <1>1, TablesUnchanged, EndReceiptKeeps, ReceiptGoesOn, ReceiptLocals
     DEF PreviewReceiptImport, ReceiptsStep, ReceiptPc
<1>2. ASSUME NEW r \in Receipts, AbortReceipt(r)
      PROVE  ReceiptsStep
  BY <1>2, ReceiptsAssumption, RolledBack, EndReceiptKeeps, ReceiptLocals
     DEF AbortReceipt, ReceiptsStep
<1> QED
  BY <1>1, <1>2, ReserveIdempotencyKeyKeeps, BuildProductMatchMapKeeps,
     FindOrCreateSupplierKeeps, StockReceiptLineKeeps, CommitReceiptKeeps
     DEF ReceiptsNext, ReceiptStep

-----------------------------------------------------------------------------
(* The dashboard only reads.                                               *)

ReportsStep == DbStep /\ TypeOKReports'

LEMMA ReportsNextKeeps ==
  ASSUME DbInv, TypeOKReports, ReportsNext
  PROVE  ReportsStep
<1>1. UNCHANGED dbVars
  BY DEF ReportsNext, ReportStep, BeginReport, BuildTotals, BuildByCategory, BuildByLocation,
         BuildAttention, AbortReport, Reports
<1>2. \E r \in DashboardReads : \E page : report' = [report EXCEPT ![r] = page]
  BY DEF ReportsNext, ReportStep, BeginReport, BuildTotals, BuildByCategory, BuildByLocation,
         BuildAttention, AbortReport, Reports
<1>3. TypeOKReports'
  BY <1>2 DEF TypeOKReports
<1> QED
  BY <1>1, <1>3, TablesUnchanged DEF ReportsStep

-----------------------------------------------------------------------------
(* The composition.                                                        *)

LEMMA StockInvParts ==
  StockInv <=> /\ DbInv /\ PosInv /\ TypeOKUnits
               /\ TypeOKRecords /\ TypeOKCatalog /\ TypeOKAudits
               /\ TypeOKReceipts /\ TypeOKReports
BY DEF StockInv, InventoryTypeOK, TypeOK, DbInv, PosInv

(* The handlers start out idle over the opening balances.                  *)
LEMMA InitInv == Init => StockInv
<1> SUFFICES ASSUME Init PROVE StockInv
  OBVIOUS
<1>1. DbInv /\ PosInv
  BY InitDbOK, InitPosLocalsOK DEF Init
<1>2. TypeOKUnits
  BY DEF Init, InitUnitLocals, TypeOKUnits, AtPc
<1>3. TypeOKRecords
  BY DEF Init, InitRecordLocals, TypeOKRecords, RecordPc
<1>4. TypeOKCatalog
  BY DEF Init, InitCatalogLocals, TypeOKCatalog, CatalogPc
<1>5. TypeOKAudits
  BY InitAuditsOK DEF Init
<1>6. TypeOKReceipts
  <2>1. ReceiptOK(AtReceipt("idle"))
    BY AtReceiptOK DEF ReceiptPc
  <2> QED
    BY <2>1, ReceiptsAssumption DEF Init, InitReceiptLocals, TypeOKReceipts, ReceiptOK
<1>7. TypeOKReports
  BY DEF Init, InitReportLocals, TypeOKReports
<1> QED
  BY <1>1, <1>2, <1>3, <1>4, <1>5, <1>6, <1>7, StockInvParts

(* A handler's step does not touch the local variables of another.         *)
LEMMA LocalsUntouched ==
  /\ PosInv /\ UNCHANGED posLocals => PosInv'
  /\ TypeOKUnits /\ UNCHANGED unitLocals => TypeOKUnits'
  /\ TypeOKRecords /\ UNCHANGED record => TypeOKRecords'
  /\ TypeOKCatalog /\ UNCHANGED catalog => TypeOKCatalog'
  /\ TypeOKAudits /\ UNCHANGED auditLocals => TypeOKAudits'
  /\ TypeOKReceipts /\ UNCHANGED receiptLocals => TypeOKReceipts'
  /\ TypeOKReports /\ UNCHANGED report => TypeOKReports'
<1>1. PosInv /\ UNCHANGED posLocals => PosInv'
  BY DEF PosInv, TypeOKPos, PosLocalsConsistent, posLocals
<1>2. TypeOKUnits /\ UNCHANGED unitLocals => TypeOKUnits'
  BY DEF TypeOKUnits, unitLocals
<1>3. TypeOKRecords /\ UNCHANGED record => TypeOKRecords'
  BY DEF TypeOKRecords
<1>4. TypeOKCatalog /\ UNCHANGED catalog => TypeOKCatalog'
  BY DEF TypeOKCatalog
<1>5. TypeOKAudits /\ UNCHANGED auditLocals => TypeOKAudits'
  BY DEF TypeOKAudits, auditLocals
<1>6. TypeOKReceipts /\ UNCHANGED receiptLocals => TypeOKReceipts'
  BY DEF TypeOKReceipts, receiptLocals
<1>7. TypeOKReports /\ UNCHANGED report => TypeOKReports'
  BY DEF TypeOKReports
<1> QED
  BY <1>1, <1>2, <1>3, <1>4, <1>5, <1>6, <1>7

(* Every step keeps the inductive invariant and continues the committed    *)
(* ledgers.                                                                *)
LEMMA NextKeeps ==
  ASSUME StockInv, [Next \/ Done]_vars
  PROVE  StockInv' /\ LedgersGrow
<1>1. /\ DbInv /\ PosInv /\ TypeOKUnits
      /\ TypeOKRecords /\ TypeOKCatalog /\ TypeOKAudits
      /\ TypeOKReceipts /\ TypeOKReports
  BY StockInvParts
<1>2. SUFFICES /\ DbStep
               /\ PosInv' /\ TypeOKUnits' /\ TypeOKRecords'
               /\ TypeOKCatalog' /\ TypeOKAudits'
               /\ TypeOKReceipts' /\ TypeOKReports'
  BY DEF DbStep, StockInv, InventoryTypeOK, TypeOK, DbInv, PosInv
<1>3. CASE InPos(PosNext)
  BY <1>1, <1>3, PosNextKeeps, LocalsUntouched DEF InPos, PosStep
<1>4. CASE InUnits(UnitsNext)
  BY <1>1, <1>4, UnitsNextKeeps, LocalsUntouched DEF InUnits, UnitsStep
<1>5. CASE InRecords(RecordsNext)
  BY <1>1, <1>5, RecordsNextKeeps, LocalsUntouched DEF InRecords, RecordsStep
<1>6. CASE InCatalog(CatalogNext)
  BY <1>1, <1>6, CatalogNextKeeps, LocalsUntouched DEF InCatalog, CatalogStep
<1>7. CASE InAudits(AuditsNext)
  BY <1>1, <1>7, AuditsNextKeeps, LocalsUntouched DEF InAudits, AuditsStep
<1>8. CASE InReceipts(ReceiptsNext)
  BY <1>1, <1>8, ReceiptsNextKeeps, LocalsUntouched DEF InReceipts, ReceiptsStep
<1>9. CASE InReports(ReportsNext)
  BY <1>1, <1>9, ReportsNextKeeps, LocalsUntouched DEF InReports, ReportsStep
<1>10. CASE UNCHANGED vars
  <2>1. UNCHANGED dbVars /\ UNCHANGED posLocals /\ UNCHANGED unitLocals
        /\ UNCHANGED record /\ UNCHANGED catalog /\ UNCHANGED auditLocals
        /\ UNCHANGED receiptLocals /\ UNCHANGED report
    BY <1>10 DEF vars, dbVars, posLocals, unitLocals, auditLocals, receiptLocals
  <2> QED
    BY <1>1, <2>1, TablesUnchanged, LocalsUntouched
<1> QED
  BY <1>3, <1>4, <1>5, <1>6, <1>7, <1>8, <1>9, <1>10 DEF Next, Done

(* The inductive invariant holds throughout.                               *)
THEOREM StockInvariant == Spec => []StockInv
<1>1. StockInv /\ [Next \/ Done]_vars => StockInv'
  BY NextKeeps
<1> QED
  BY <1>1, InitInv, PTL DEF Spec

(* The tables and the handlers' local variables stay well typed; a balance *)
(* is never negative, committed or pending.                                *)
THEOREM TypesCorrect == Spec => []InventoryTypeOK
<1>1. StockInv => InventoryTypeOK
  BY DEF StockInv
<1> QED
  BY <1>1, StockInvariant, PTL

(* Every committed ledger is an unbroken chain of balances that ends in    *)
(* quantityOnHand, whatever requests run and however they interleave.      *)
THEOREM LedgersBalanced == Spec => []LedgerBalanced
<1>1. StockInv => LedgerBalanced
  BY DEF StockInv, VersionsConsistent, LedgerBalanced
<1> QED
  BY <1>1, StockInvariant, PTL

-----------------------------------------------------------------------------
(* The refinement of the stock book.                                       *)

(* Two committed states with balanced ledgers, the second continuing the   *)
(* first, are a step of the book.                                          *)
LEMMA LedgersAreBooks ==
  ASSUME StockInv, StockInv', LedgersGrow
  PROVE  Book!Enter
<1> DEFINE book == [p \in Product |-> committed[p].ledger]
<1>1. ASSUME NEW p \in Product
      PROVE  /\ Book!Appended(committed[p].ledger, committed'[p].ledger)
             /\ \A i \in Len(committed[p].ledger) + 1 .. Len(committed'[p].ledger) :
                   committed'[p].ledger[i].quantityAfter =
                     Book!BalanceAfter(p, committed'[p].ledger, i - 1)
                       + committed'[p].ledger[i].quantityChange
             /\ committed'[p].quantityOnHand =
                  Book!BalanceAfter(p, committed'[p].ledger, Len(committed'[p].ledger))
             /\ committed'[p].quantityOnHand >= 0
  <2> DEFINE old == committed[p].ledger
             row == committed'[p]
             new == row.ledger
  <2>1. row \in ProductRow /\ Balanced(p, row)
    BY DEF StockInv, InventoryTypeOK, TypeOK, TypeOKDb, DbTypeOK, VersionsConsistent,
           Balanced, BalanceBefore
  <2>2. committed[p] \in ProductRow
    BY DEF StockInv, InventoryTypeOK, TypeOK, TypeOKDb, DbTypeOK
  <2>3. Len(old) \in Nat /\ Len(new) \in Nat /\ new \in Seq(StockMovement)
    BY <2>1, <2>2, LedgerType
  <2>4. Continues(old, new)
    BY DEF LedgersGrow
  <2> HIDE DEF old, row
  <2>5. \A i \in 1 .. Len(new) :
          new[i].quantityAfter = BalanceBefore(p, new, i) + new[i].quantityChange
    BY <2>1 DEF Balanced
  <2>6. \A i \in 1 .. Len(new) + 1 :
          BalanceBefore(p, new, i) = Book!BalanceAfter(p, new, i - 1)
    BY <2>3 DEF BalanceBefore, Book!BalanceAfter
  <2>7. row.quantityOnHand = Book!BalanceAfter(p, new, Len(new))
    <3>1. row.quantityOnHand = BalanceBefore(p, new, Len(new) + 1)
      BY <2>1 DEF Balanced
    <3>2. Len(new) + 1 \in 1 .. Len(new) + 1 /\ (Len(new) + 1) - 1 = Len(new)
      BY <2>3
    <3> QED
      BY <2>6, <3>1, <3>2
  <2>8. \A i \in Len(old) + 1 .. Len(new) : i \in 1 .. Len(new) /\ i \in 1 .. Len(new) + 1
    BY <2>3
  <2>9. Book!Appended(old, new)
    BY <2>4 DEF Continues, Book!Appended
  <2> HIDE DEF new
  <2>10. \A i \in Len(old) + 1 .. Len(new) :
           new[i].quantityAfter =
             Book!BalanceAfter(p, new, i - 1) + new[i].quantityChange
    BY <2>5, <2>6, <2>8
  <2>11. row.quantityOnHand >= 0
    BY <2>1, LedgerType
  <2> QED
    BY <2>7, <2>9, <2>10, <2>11 DEF old, new, row
<1>2. ASSUME NEW p \in Product
      PROVE  Book!Entered(p)
  BY <1>1 DEF Book!Entered
<1> QED
  BY <1>2 DEF Book!Enter

(* Committed stock implements the stock book: entries are only ever added  *)
(* at the end, each from the balance before it, and never below zero, also *)
(* when a commit enters movements of several products at once.             *)
THEOREM ImplementsBook == Spec => BookSpec
<1>1. Init => Book!InitBook
  <2> SUFFICES ASSUME Init PROVE Book!InitBook
    OBVIOUS
  <2>1. \A p \in Product : OpeningRow[p] =
          [quantityOnHand |-> Opening[p], ledger |-> <<>>, isArchived |-> FALSE,
           card |-> OpeningCard[p]]
    BY DEF OpeningRow, Row
  <2>2. \A p \in Product :
          committed[p].ledger = <<>> /\ committed[p].quantityOnHand = Opening[p]
    <3>1. committed = OpeningRow
      BY DEF Init, InitDb
    <3>2. TAKE p \in Product
    <3>3. committed[p] = [quantityOnHand |-> Opening[p], ledger |-> <<>>, isArchived |-> FALSE,
                             card |-> OpeningCard[p]]
      BY <2>1, <3>1
    <3> QED
      BY <3>3
  <2>3. [p \in Product |-> committed[p].ledger] = [p \in Product |-> <<>>]
    BY <2>2
  <2>4. [p \in Product |-> committed[p].quantityOnHand] = [p \in Product |-> Opening[p]]
    BY <2>2
  <2> QED
    BY <2>3, <2>4, Zenon DEF Book!InitBook
<1>2. StockInv /\ StockInv' /\ [Next \/ Done]_vars => [Book!Enter]_(Book!bookVars)
  BY NextKeeps, LedgersAreBooks
<1> QED
  BY <1>1, <1>2, StockInvariant, PTL DEF Spec, BookSpec, Book!BookSpec

-----------------------------------------------------------------------------
(* Sales.  What the point of sale relies on is not disturbed by the other  *)
(* handlers: none writes a sale or enters a movement of one.               *)

LEMMA WriteMovementElsewhere ==
  ASSUME DbInv, TypeOKRecords, NEW S \in SUBSET Req, KeptAside(S), NEW r \in Records,
         r \notin S, WriteMovement(r)
  PROVE  Elsewhere(S)
<1> DEFINE body == record[r].body
           p == body.product
           noUnits == [u \in {} |-> Unregistered]
<1>1. record[r] \in RecordState /\ r \in Req \ S
  BY RecordsAssumption DEF WriteMovement, TypeOKRecords
<1>2. body \in RecordBody /\ record[r].delta \in Int
  BY <1>1 DEF RecordState
<1>3. p \in Product /\ body.loc \in Location \cup {NoLocation}
  BY <1>2 DEF RecordBody
<1>4. CASE Rollback(r)
  BY <1>1, <1>4, RollbackElsewhere
<1>5. CASE Stage(r, Write(p, RecordedRow(r)))
  <2>1. RecordedRow(r) = Posted(Visible(r, p), "MANUAL", record[r].delta, NoUnit, body.loc,
                                NoSale, 0)
    BY DEF RecordedRow
  <2>2. "MANUAL" \in SystemKey
    BY DEF SystemKey
  <2>3. Write(p, RecordedRow(r)) = WriteStock(p, RecordedRow(r), noUnits)
    BY DEF Write, WriteStock
  <2>4. UnitRowsOK(noUnits)
    BY DEF UnitRowsOK
  <2> HIDE DEF noUnits, p, body
  <2>5. Stage(r, WriteStock(p, Posted(Visible(r, p), "MANUAL", record[r].delta, NoUnit,
                                      body.loc, NoSale, 0), noUnits))
    BY <1>5, <2>1, <2>3
  <2> QED
    BY <1>1, <1>2, <1>3, <2>2, <2>4, <2>5, MovementElsewhere
<1> QED
  BY <1>4, <1>5 DEF WriteMovement

LEMMA RecordsElsewhere ==
  ASSUME DbInv, TypeOKRecords, NEW S \in SUBSET Req, KeptAside(S), S \cap Records = {},
         RecordsNext
  PROVE  Elsewhere(S)
<1>1. PICK r \in Records : BeginRecord(r) \/ RecordStep(r) \/ AbortRecord(r)
  BY DEF RecordsNext
<1>2. r \in Req \ S
  BY RecordsAssumption
<1>3. CASE BeginRecord(r) \/ ValidateRefs(r)
  BY <1>3, UnchangedElsewhere DEF BeginRecord, ValidateRefs
<1>4. CASE WriteMovement(r)
  BY <1>2, <1>4, WriteMovementElsewhere
<1>5. CASE CommitRecord(r)
  BY <1>2, <1>5, CommitElsewhere DEF CommitRecord
<1>6. CASE AbortRecord(r)
  BY <1>2, <1>6, RollbackElsewhere DEF AbortRecord
<1> QED
  BY <1>1, <1>3, <1>4, <1>5, <1>6 DEF RecordStep

(* A card is written over a row, whose ledger stays.                       *)
LEMMA CataloguedLedger ==
  ASSUME NEW r, NEW row \in ProductRow, NEW card
  PROVE  Catalogued(r, row, card).ledger = row.ledger
<1> DEFINE moved == [row EXCEPT !.isArchived = ArchivedBy(r, row)]
<1>1. Catalogued(r, row, card) = [moved EXCEPT !.card = card]
  BY Zenon DEF Catalogued
<1>2. moved = [quantityOnHand |-> row.quantityOnHand, ledger |-> row.ledger,
               isArchived |-> ArchivedBy(r, row), card |-> row.card]
  BY DEF ProductRow
<1> HIDE DEF moved
<1> QED
  BY <1>1, <1>2

LEMMA CatalogElsewhere ==
  ASSUME DbInv, TypeOKCatalog, NEW S \in SUBSET Req, KeptAside(S), CatalogNext
  PROVE  Elsewhere(S)
<1>1. ASSUME NEW r \in CatalogReq, WriteProduct(r)
      PROVE  Elsewhere(S)
  <2> DEFINE p == catalog[r].product
             card == Patched(committed[p].card, catalog[r].body)
             rows == Write(p, Catalogued(r, committed[p], card))
  <2>1. p \in Product
    BY <1>1 DEF TypeOKCatalog, WriteProduct, CatalogWrite
  <2>2. committed[p] \in ProductRow
    BY <2>1 DEF DbInv, TypeOKDb, DbTypeOK
  <2>3. UNCHANGED dbVars \/ AutoCommit(rows)
    BY <1>1 DEF WriteProduct
  <2>4. DOMAIN rows = {p} /\ rows[p].ledger = committed[p].ledger
    <3> HIDE DEF p, card
    <3> QED
      BY <2>2, CataloguedLedger DEF Write
  <2> HIDE DEF p, rows
  <2> QED
    BY <2>1, <2>3, <2>4, UnchangedElsewhere, AutoCommitElsewhere, RowAssumption
<1>2. CASE UNCHANGED dbVars
  BY <1>2, UnchangedElsewhere
<1> QED
  BY <1>1, <1>2
     DEF CatalogNext, ReadForArchive, ReadForUpdate, ReadForCreate, AbortCatalog

(* A line of a receipt posts one purchase, which belongs to no sale.       *)
LEMMA StockedLedger ==
  ASSUME NEW r \in Receipts, NEW i \in DOMAIN Items(r), NEW row \in ProductRow
  PROVE  \E m \in StockMovement :
            /\ StockedRow(r, row, Items(r)[i].quantity).ledger = Append(row.ledger, m)
            /\ IsPurchase(m) /\ m.sale = NoSale
            /\ m.quantityChange = Items(r)[i].quantity /\ m.loc = ReceiptOf[r].loc
<1> DEFINE quantity == Items(r)[i].quantity
           loc == ReceiptOf[r].loc
           card == [row.card EXCEPT !.loc = IF loc = NoLocation THEN row.card.loc ELSE loc]
           placed == [row EXCEPT !.card = card]
           new == Posted(placed, "PURCHASE", quantity, NoUnit, loc, NoSale, 0)
           m == Movement("PURCHASE", quantity, placed.quantityOnHand + quantity, NoUnit, loc,
                         NoSale, 0)
<1>1. loc \in Location \cup {NoLocation} /\ quantity \in Int
  BY ReceiptBodyType, ReceiptsAssumption DEF ReceiptBody, ReceiptItem
<1>2. card \in Card /\ row.card \in Card
  BY <1>1 DEF ProductRow, Card
<1>3. placed = [quantityOnHand |-> row.quantityOnHand, ledger |-> row.ledger,
                isArchived |-> row.isArchived, card |-> card]
  BY DEF ProductRow
<1>4. StockedRow(r, row, quantity) = new
  BY <1>2 DEF StockedRow, ProductRow, Card
<1>5. placed \in ProductRow /\ placed.ledger = row.ledger
  <2> HIDE DEF card, placed
  <2> QED
    BY <1>2, <1>3 DEF ProductRow
<1> HIDE DEF placed, quantity, loc, card
<1>6. new.ledger = Append(placed.ledger, m) /\ m \in StockMovement
  <2>1. /\ "PURCHASE" \in SystemKey /\ NoUnit \in Unit \cup {NoUnit}
        /\ NoSale \in Sale \cup {NoSale} /\ 0 \in Nat
    BY DEF SystemKey
  <2> QED
    BY <1>1, <1>5, <2>1, PostedLedger, ZenonT(30)
<1>7. IsPurchase(m) /\ m.sale = NoSale /\ m.quantityChange = quantity /\ m.loc = loc
  BY DEF Movement, IsPurchase
<1> HIDE DEF new, m
<1> QED
  BY <1>4, <1>5, <1>6, <1>7 DEF quantity, loc

LEMMA StockedElsewhere ==
  ASSUME DbInv, NEW S \in SUBSET Req, KeptAside(S), NEW r \in Receipts, r \notin S,
         NEW i \in DOMAIN Items(r), NEW p \in Product,
         NEW row \in ProductRow, row.ledger = Visible(r, p).ledger,
         Stage(r, Write(p, StockedRow(r, row, Items(r)[i].quantity)))
  PROVE  Elsewhere(S)
<1> DEFINE new == StockedRow(r, row, Items(r)[i].quantity)
           noUnits == [u \in {} |-> Unregistered]
<1>1. r \in Req \ S
  BY ReceiptsAssumption
<1>2. PICK m \in StockMovement : new.ledger = Append(row.ledger, m) /\ m.sale = NoSale
  BY StockedLedger
<1>3. Write(p, new) = WriteStock(p, new, noUnits)
  BY DEF Write, WriteStock
<1>4. UnitRowsOK(noUnits)
  BY DEF UnitRowsOK
<1>5. Stage(r, WriteStock(p, new, noUnits))
  BY <1>3
<1> HIDE DEF new, noUnits
<1>6. new.ledger \in Seq(StockMovement) /\ ContinuesAside(Visible(r, p).ledger, new.ledger)
  <2>1. row.ledger \in Seq(StockMovement)
    BY LedgerType
  <2> QED
    BY <1>2, <2>1 DEF ContinuesAside, Continues
<1> QED
  BY <1>1, <1>4, <1>5, <1>6, StockElsewhere

(* A line of a receipt stocks in one product, on top of the row its        *)
(* transaction sees, or the receipt fails.                                 *)
LineStocked(r) ==
  LET i == receipt[r].next
  IN  /\ receipt[r].pc = "stock" /\ i \in Nat \ {0} /\ i <= Len(Items(r))
      /\ receipt'[r].pc = "stock" /\ receipt'[r].next = i + 1
      /\ \A q \in Receipts \ {r} : receipt'[q] = receipt[q]
      /\ \E p \in Product : \E row \in ProductRow :
            /\ row.ledger = Visible(r, p).ledger
            /\ Stage(r, Write(p, StockedRow(r, row, Items(r)[i].quantity)))

LEMMA LineStocks ==
  ASSUME DbInv, TypeOKReceipts, NEW r \in Receipts, StockReceiptLine(r)
  PROVE  \/ Rollback(r) /\ EndReceipt(r, "failed")
         \/ LineStocked(r)
<1> DEFINE i == receipt[r].next
           p == FindProductInMap(Items(r)[i], receipt[r].matches)
           drawn == DrawnFor[r][i]
<1>1. ReceiptOK(receipt[r]) /\ DOMAIN receipt = Receipts
  BY ReceiptLocals DEF TypeOKReceipts
<1>2. receipt[r].pc = "stock" /\ i \in Nat \ {0} /\ i <= Len(Items(r)) /\ i \in DOMAIN Items(r)
  <2>1. receipt[r].pc = "stock" /\ i \in Nat \ {0} /\ i <= Len(Items(r))
        /\ Items(r) \in Seq(ReceiptItem)
    BY <1>1, ReceiptsAssumption DEF StockReceiptLine, ReceiptOK, Items, ReceiptBody
  <2> HIDE DEF i
  <2> QED
    BY <2>1
<1>3. ASSUME NEW q \in Product
      PROVE  Visible(r, q) \in ProductRow
  BY VisibleOK, ReceiptsAssumption DEF RowOK, Row
<1>4. Resolved(receipt[r].matches)
  BY <1>1 DEF ReceiptOK
<1>5. CASE p # NoProduct /\ StockMatched(r, i, p)
  <2>1. p \in Product
    BY <1>4, <1>5, FindProductType
  <2>2. Stage(r, Write(p, StockedRow(r, Visible(r, p), Items(r)[i].quantity)))
    BY <1>5 DEF StockMatched
  <2>3. /\ receipt'[r].pc = "stock" /\ receipt'[r].next = i + 1
        /\ \A q \in Receipts \ {r} : receipt'[q] = receipt[q]
    BY <1>1, <1>2, <1>5 DEF StockMatched, ReceiptOK
  <2> QED
    BY <1>2, <1>3, <2>1, <2>2, <2>3 DEF LineStocked
<1>6. CASE Rollback(r) /\ EndReceipt(r, "failed")
  BY <1>6
<1>7. CASE /\ p = NoProduct /\ StockCreated(r, i) /\ ~ (Rollback(r) /\ EndReceipt(r, "failed"))
  <2> DEFINE row == Visible(r, drawn)
             card == NewCard(r, i)
             created == [row EXCEPT !.card = card, !.isArchived = FALSE]
  <2>1. Stage(r, Write(drawn, StockedRow(r, created, Items(r)[i].quantity)))
    BY <1>7 DEF StockCreated
  <2>2. card \in Card /\ drawn \in Product
    BY <1>2, NewCardType
  <2>3. row \in ProductRow
    BY <1>3, <2>2
  <2>4. /\ receipt'[r].pc = "stock" /\ receipt'[r].next = i + 1
        /\ \A q \in Receipts \ {r} : receipt'[q] = receipt[q]
    <3>1. ASSUME NEW matches,
                 receipt' = [receipt EXCEPT ![r].next = @ + 1, ![r].matches = matches]
          PROVE  /\ receipt'[r].pc = "stock" /\ receipt'[r].next = i + 1
                 /\ \A q \in Receipts \ {r} : receipt'[q] = receipt[q]
      BY <1>1, <1>2, <3>1 DEF ReceiptOK
    <3> QED
      BY <1>7, <3>1 DEF StockCreated
  <2> HIDE DEF drawn, card, row
  <2>5. created = [quantityOnHand |-> row.quantityOnHand, ledger |-> row.ledger,
                   isArchived |-> FALSE, card |-> card]
    <3>1. created = [[row EXCEPT !.card = card] EXCEPT !.isArchived = FALSE]
      OBVIOUS
    <3>2. row = [quantityOnHand |-> row.quantityOnHand, ledger |-> row.ledger,
                 isArchived |-> row.isArchived, card |-> row.card]
      BY <2>3 DEF ProductRow
    <3>3. [row EXCEPT !.card = card] =
            [quantityOnHand |-> row.quantityOnHand, ledger |-> row.ledger,
             isArchived |-> row.isArchived, card |-> card]
      BY <3>2
    <3> HIDE DEF created
    <3> QED
      BY <3>1, <3>3
  <2> HIDE DEF created
  <2>6. created \in ProductRow /\ created.ledger = row.ledger
    BY <2>2, <2>3, <2>5 DEF ProductRow
  <2> QED
    BY <1>2, <2>1, <2>2, <2>4, <2>6 DEF LineStocked, row
<1> QED
  BY <1>5, <1>6, <1>7 DEF StockReceiptLine

LEMMA StockReceiptLineElsewhere ==
  ASSUME DbInv, TypeOKReceipts, NEW S \in SUBSET Req, KeptAside(S), NEW r \in Receipts,
         r \notin S, StockReceiptLine(r)
  PROVE  Elsewhere(S)
<1>1. r \in Req \ S
  BY ReceiptsAssumption
<1>2. CASE Rollback(r)
  BY <1>1, <1>2, RollbackElsewhere
<1>3. CASE LineStocked(r)
  <2> DEFINE i == receipt[r].next
  <2>1. i \in Nat \ {0} /\ i <= Len(Items(r)) /\ Items(r) \in Seq(ReceiptItem)
    BY <1>3, ReceiptsAssumption DEF LineStocked, Items, ReceiptBody
  <2>2. PICK p \in Product, row \in ProductRow :
           /\ row.ledger = Visible(r, p).ledger
           /\ Stage(r, Write(p, StockedRow(r, row, Items(r)[i].quantity)))
    BY <1>3 DEF LineStocked
  <2> HIDE DEF i
  <2>3. i \in DOMAIN Items(r)
    BY <2>1
  <2> QED
    BY <2>2, <2>3, StockedElsewhere
<1> QED
  BY <1>2, <1>3, LineStocks

LEMMA ReceiptsElsewhere ==
  ASSUME DbInv, TypeOKReceipts, NEW S \in SUBSET Req, KeptAside(S), S \cap Receipts = {},
         ReceiptsNext
  PROVE  Elsewhere(S)
<1>1. PICK r \in Receipts : PreviewReceiptImport(r) \/ ReceiptStep(r) \/ AbortReceipt(r)
  BY DEF ReceiptsNext
<1>2. r \in Req \ S
  BY ReceiptsAssumption
<1>3. CASE PreviewReceiptImport(r) \/ BuildProductMatchMap(r) \/ FindOrCreateSupplier(r)
  BY <1>3, UnchangedElsewhere
     DEF PreviewReceiptImport, BuildProductMatchMap, FindOrCreateSupplier
<1>4. CASE ReserveIdempotencyKey(r)
  <2> DEFINE key == ReceiptOf[r].key
             rows == Write(key, [used |-> TRUE])
  <2>1. UNCHANGED dbVars \/ (key # NoKey /\ Stage(r, rows))
    BY <1>4 DEF ReserveIdempotencyKey, Claimed
  <2>2. key # NoKey => key \in IdempotencyKey
    BY ReceiptsAssumption DEF ReceiptBody
  <2>3. key # NoKey => RowsAside(r, rows)
    BY <2>2, RowAssumption DEF RowsAside, Write
  <2> HIDE DEF key, rows
  <2> QED
    BY <1>2, <2>1, <2>3, UnchangedElsewhere, StageElsewhere
<1>5. CASE StockReceiptLine(r)
  BY <1>2, <1>5, StockReceiptLineElsewhere
<1>6. CASE CommitReceipt(r)
  BY <1>2, <1>6, CommitElsewhere DEF CommitReceipt
<1>7. CASE AbortReceipt(r)
  BY <1>2, <1>7, RollbackElsewhere DEF AbortReceipt
<1> QED
  BY <1>1, <1>3, <1>4, <1>5, <1>6, <1>7 DEF ReceiptStep

(* A request of the point of sale runs no other handler.                   *)
LEMMA PosReqApart ==
  /\ PosReq \cap (Changes \cup Edits \cup Registrations) = {}
  /\ PosReq \cap Records = {}
  /\ PosReq \cap (Creations \cup Scanners \cup Completions \cup Cancellations) = {}
  /\ PosReq \cap Receipts = {}
<1> DEFINE handlers == <<Checkouts, Voids, Changes, Edits, Registrations, Records, CatalogReq,
                         Creations, Scanners, Completions, Cancellations, Receipts,
                         DashboardReads>>
<1>1. \A i, j \in 1 .. 13 : i # j => handlers[i] \cap handlers[j] = {}
  BY HandlerAssumption, Zenon
<1>2. /\ handlers[1] = Checkouts /\ handlers[2] = Voids /\ handlers[3] = Changes
      /\ handlers[4] = Edits /\ handlers[5] = Registrations /\ handlers[6] = Records
      /\ handlers[8] = Creations /\ handlers[9] = Scanners /\ handlers[10] = Completions
      /\ handlers[11] = Cancellations /\ handlers[12] = Receipts
  OBVIOUS
<1> HIDE DEF handlers
<1>3. \A i \in {1, 2}, j \in {3, 4, 5, 6, 8, 9, 10, 11, 12} :
         handlers[i] \cap handlers[j] = {}
  BY <1>1
<1> QED
  BY <1>2, <1>3 DEF PosReq

(* A step is one of the point of sale, or one that the point of sale sees  *)
(* nothing of.                                                             *)
LEMMA NextElsewhere ==
  ASSUME StockInv, SalesInv, [Next \/ Done]_vars
  PROVE  InPos(PosNext) \/ (Elsewhere(PosReq) /\ UNCHANGED posLocals)
<1>1. /\ DbInv /\ PosInv /\ TypeOKUnits
      /\ TypeOKRecords /\ TypeOKCatalog /\ TypeOKAudits
      /\ TypeOKReceipts /\ TypeOKReports
  BY StockInvParts
<1>2. KeptAside(PosReq) /\ PosReq \in SUBSET Req
  BY SalesKeptAside DEF SalesInv
<1>3. CASE InUnits(UnitsNext)
  BY <1>1, <1>2, <1>3, PosReqApart, UnitsElsewhere DEF InUnits
<1>4. CASE InRecords(RecordsNext)
  BY <1>1, <1>2, <1>4, PosReqApart, RecordsElsewhere DEF InRecords
<1>5. CASE InCatalog(CatalogNext)
  BY <1>1, <1>2, <1>5, CatalogElsewhere DEF InCatalog
<1>6. CASE InAudits(AuditsNext)
  BY <1>1, <1>2, <1>6, PosReqApart, AuditsElsewhere DEF InAudits
<1>7. CASE InReceipts(ReceiptsNext)
  BY <1>1, <1>2, <1>7, PosReqApart, ReceiptsElsewhere DEF InReceipts
<1>8. CASE InReports(ReportsNext)
  <2>1. UNCHANGED dbVars
    BY <1>8 DEF InReports, ReportsNext, ReportStep, BeginReport, BuildTotals, BuildByCategory,
           BuildByLocation, BuildAttention, AbortReport, Reports
  <2> QED
    BY <1>1, <1>2, <1>8, <2>1, UnchangedElsewhere DEF InReports
<1>9. CASE UNCHANGED vars
  <2>1. UNCHANGED dbVars /\ UNCHANGED posLocals
    BY <1>9 DEF vars, dbVars, posLocals
  <2> QED
    BY <1>1, <1>2, <2>1, UnchangedElsewhere
<1> QED
  BY <1>3, <1>4, <1>5, <1>6, <1>7, <1>8, <1>9 DEF Next, Done

LEMMA NextKeepsSales ==
  ASSUME StockInv, StockInv', SalesInv, LedgersGrow, [Next \/ Done]_vars
  PROVE  SalesInv'
<1>1. DbInv /\ PosInv
  BY StockInvParts
<1>2. DbInv'
  BY DEF StockInv, InventoryTypeOK, TypeOK, DbInv
<1>3. CASE InPos(PosNext)
  BY <1>1, <1>3, PosNextSales DEF InPos
<1>4. CASE Elsewhere(PosReq) /\ UNCHANGED posLocals
  BY <1>1, <1>2, <1>4, ElsewhereSales
<1> QED
  BY <1>3, <1>4, NextElsewhere

LEMMA SalesInvariant == Spec => [](StockInv /\ SalesInv)
<1>1. Init => StockInv /\ SalesInv
  BY InitInv, InitSalesOK DEF Init
<1>2. StockInv /\ SalesInv /\ [Next \/ Done]_vars => (StockInv /\ SalesInv)'
  BY NextKeeps, NextKeepsSales
<1> QED
  BY <1>1, <1>2, PTL DEF Spec

(* Under every interleaving of all the handlers that write stock, what a   *)
(* committed sale says was sold is what the ledgers say left, each line    *)
(* once and with its quantity and unit; and they say it of no sale that    *)
(* did not commit.                                                         *)
THEOREM SalesBooked == Spec => []SaleBooked
<1>1. SalesInv => SaleBooked
  BY DEF SalesInv
<1> QED
  BY <1>1, SalesInvariant, PTL

(* In every committed ledger a line that came back through a void came back*)
(* to the location its SALE movement names, whoever else wrote stock       *)
(* between the sale and the void.                                          *)
THEOREM ReturnsMatchSales == Spec => []ReturnedWhereSold
<1>1. SalesInv => ReturnedWhereSold
  BY DEF SalesInv
<1> QED
  BY <1>1, SalesInvariant, PTL

-----------------------------------------------------------------------------
(* Who writes the rows by which work is claimed: the audits their          *)
(* handlers, the keys the receipt imports, and nobody else either.         *)

LEMMA RecordsSpare ==
  ASSUME TypeOKRecords, RecordsNext
  PROVE  \E q \in Records : Sparing(q, Claims) /\ Sparing(q, Unit)
<1>1. PICK r \in Records : BeginRecord(r) \/ RecordStep(r) \/ AbortRecord(r)
  BY DEF RecordsNext
<1>2. CASE BeginRecord(r) \/ ValidateRefs(r) \/ CommitRecord(r) \/ AbortRecord(r)
  BY <1>2 DEF BeginRecord, ValidateRefs, CommitRecord, AbortRecord, Sparing
<1>3. CASE WriteMovement(r)
  <2>1. record[r].body.product \in Product
    BY <1>3 DEF WriteMovement, TypeOKRecords, RecordState, RecordBody
  <2>2. record[r].body.product \notin Claims \cup Unit
    BY <2>1, StockNoClaim, RowAssumption
  <2>3. CASE Rollback(r)
    BY <2>3 DEF Sparing
  <2> QED
    BY <1>3, <2>2, <2>3, RowSpares DEF WriteMovement
<1> QED
  BY <1>1, <1>2, <1>3 DEF RecordStep

LEMMA CatalogSpares ==
  ASSUME TypeOKCatalog, CatalogNext
  PROVE  \E q \in CatalogReq : Sparing(q, Claims) /\ Sparing(q, Unit)
<1>1. ASSUME NEW r \in CatalogReq, WriteProduct(r)
      PROVE  Sparing(r, Claims) /\ Sparing(r, Unit)
  <2>1. catalog[r].product \in Product
    BY <1>1 DEF WriteProduct, TypeOKCatalog, CatalogWrite
  <2>2. catalog[r].product \notin Claims \cup Unit
    BY <2>1, StockNoClaim, RowAssumption
  <2>3. CASE UNCHANGED dbVars
    BY <2>3 DEF Sparing
  <2> QED
    BY <1>1, <2>2, <2>3, RowSpares DEF WriteProduct
<1>2. ASSUME NEW r \in CatalogReq, UNCHANGED dbVars
      PROVE  Sparing(r, Claims) /\ Sparing(r, Unit)
  BY <1>2 DEF Sparing
<1> QED
  BY <1>1, <1>2
     DEF CatalogNext, CatalogReq, ReadForArchive, ReadForUpdate, ReadForCreate, AbortCatalog

LEMMA ReceiptsSpareAudits ==
  ASSUME TypeOKReceipts, NEW r \in Receipts,
         PreviewReceiptImport(r) \/ ReceiptStep(r) \/ AbortReceipt(r)
  PROVE  /\ Sparing(r, Audit) /\ Sparing(r, Unit)
         /\ ~ ReserveIdempotencyKey(r) => Sparing(r, IdempotencyKey)
<1>1. CASE /\ PreviewReceiptImport(r) \/ BuildProductMatchMap(r) \/ FindOrCreateSupplier(r)
              \/ CommitReceipt(r) \/ AbortReceipt(r)
  BY <1>1 DEF PreviewReceiptImport, BuildProductMatchMap, FindOrCreateSupplier, CommitReceipt,
              AbortReceipt, Sparing
<1>2. CASE ReserveIdempotencyKey(r)
  <2> DEFINE key == ReceiptOf[r].key
  <2>1. UNCHANGED dbVars \/ (key # NoKey /\ Stage(r, Write(key, [used |-> TRUE])))
    BY <1>2 DEF ReserveIdempotencyKey, Claimed
  <2>2. key # NoKey => key \notin Audit /\ key \notin Unit
    BY ReceiptsAssumption, RowAssumption DEF ReceiptBody
  <2>3. CASE UNCHANGED dbVars
    BY <1>2, <2>3 DEF Sparing
  <2> HIDE DEF key
  <2> QED
    BY <1>2, <2>1, <2>2, <2>3, RowSpares
<1>3. CASE StockReceiptLine(r)
  <2> DEFINE i == receipt[r].next
             p == FindProductInMap(Items(r)[i], receipt[r].matches)
  <2>1. ReceiptOK(receipt[r])
    BY ReceiptLocals
  <2>2. i \in DOMAIN Items(r)
    <3>1. i \in Nat \ {0} /\ i <= Len(Items(r)) /\ Items(r) \in Seq(ReceiptItem)
      BY <1>3, <2>1, ReceiptsAssumption DEF StockReceiptLine, ReceiptOK, Items, ReceiptBody
    <3> HIDE DEF i
    <3> QED
      BY <3>1
  <2>3. Resolved(receipt[r].matches)
    BY <2>1 DEF ReceiptOK
  <2>4. ASSUME NEW x \in Product, NEW value, Stage(r, Write(x, value))
        PROVE  Sparing(r, Audit) /\ Sparing(r, IdempotencyKey) /\ Sparing(r, Unit)
    <3>1. x \notin Audit /\ x \notin IdempotencyKey /\ x \notin Unit
      BY StockNoClaim, RowAssumption DEF Claims
    <3> QED
      BY <2>4, <3>1, RowSpares
  <2>5. CASE Rollback(r)
    BY <2>5 DEF Sparing
  <2>6. CASE p # NoProduct /\ StockMatched(r, i, p)
    <3>1. p \in Product
      BY <2>3, <2>6, FindProductType
    <3> HIDE DEF p, i
    <3> QED
      BY <2>4, <2>6, <3>1 DEF StockMatched
  <2>7. CASE StockCreated(r, i)
    <3>1. DrawnFor[r][i] \in Product
      BY <2>2, ReceiptsAssumption
    <3> HIDE DEF i
    <3> QED
      BY <2>4, <2>5, <2>7, <3>1 DEF StockCreated
  <2> QED
    BY <1>3, <2>6, <2>7 DEF StockReceiptLine
<1> QED
  BY <1>1, <1>2, <1>3 DEF ReceiptStep

LEMMA AuditsSpareKeys ==
  ASSUME TypeOKAudits, AuditsNext
  PROVE  \E q \in Creations \cup Scanners \cup Completions \cup Cancellations :
            Sparing(q, IdempotencyKey)
<1>1. ASSUME NEW a \in Audit
      PROVE  a \notin IdempotencyKey
  BY RowAssumption
<1>2. ASSUME NEW r \in Creations \cup Scanners,
             CreateInventoryAudit(r) \/ ScanStep(r) \/ AbortScan(r)
      PROVE  Sparing(r, IdempotencyKey)
  <2>1. CASE CreateInventoryAudit(r)
    BY <1>1, <2>1, AuditRequest, RowSpares DEF CreateInventoryAudit
  <2>2. CASE ScanStep(r) \/ AbortScan(r)
    BY <2>2 DEF ScanStep, ReadAuditHeader, ResolveScans, InsertScans, AbortScan, Sparing
  <2> QED
    BY <1>2, <2>1, <2>2
<1>3. ASSUME NEW r \in Cancellations,
             ReadForCancel(r) \/ WriteCancelled(r) \/ AbortCancel(r)
      PROVE  Sparing(r, IdempotencyKey)
  <2>1. CASE WriteCancelled(r)
    BY <1>1, <2>1, AuditRequest, RowSpares DEF WriteCancelled
  <2>2. CASE ReadForCancel(r) \/ AbortCancel(r)
    BY <2>2 DEF ReadForCancel, AbortCancel, Sparing
  <2> QED
    BY <1>3, <2>1, <2>2
<1>4. ASSUME NEW r \in Completions,
             ReadForCompletion(r) \/ CompletionStep(r) \/ AbortCompletion(r)
      PROVE  Sparing(r, IdempotencyKey)
  <2>1. CASE ReadForCompletion(r) \/ RefreshScanResults(r) \/ PlanUnitTransitions(r)
             \/ CommitCompletion(r) \/ AbortCompletion(r)
    BY <2>1 DEF ReadForCompletion, RefreshScanResults, PlanUnitTransitions, CommitCompletion,
                AbortCompletion, Sparing
  <2>2. CASE ClaimAudit(r)
    <3>1. UNCHANGED dbVars \/ Stage(r, Write(AuditOf[r], [status |-> "COMPLETED"]))
      BY <2>2 DEF ClaimAudit
    <3>2. CASE UNCHANGED dbVars
      BY <3>2 DEF Sparing
    <3> QED
      BY <1>1, <3>1, <3>2, AuditRequest, RowSpares
  <2>3. CASE ReconcileProduct(r)
    <3> DEFINE todo == completing[r].todo
               planned(p) == {tr \in todo : ProductOf[tr.unit] = p}
    <3>1. PICK p \in NextProducts(todo) :
            \/ Rollback(r)
            \/ \E row : Stage(r, WriteStock(p, row,
                                    [u \in {tr.unit : tr \in Applied(r, planned(p))} |->
                                       ReconciledUnit(r, planned(p), u)]))
      BY <2>3 DEF ReconcileProduct
    <3>2. todo \in SUBSET UnitTransition
      BY DEF TypeOKAudits, CompletionState
    <3>3. p \in Product
      <4>1. p \in {ProductOf[tr.unit] : tr \in todo}
        BY DEF NextProducts
      <4> QED
        BY <3>2, <4>1, OpeningAssumption DEF UnitTransition
    <3> DEFINE units == [u \in {tr.unit : tr \in Applied(r, planned(p))} |->
                           ReconciledUnit(r, planned(p), u)]
    <3>4. DOMAIN units \subseteq Unit
      BY <3>2 DEF Applied, HomeApplied, UnitTransition
    <3> HIDE DEF units, todo
    <3>5. CASE Rollback(r)
      BY <3>5 DEF Sparing
    <3>6. CASE \E row : Stage(r, WriteStock(p, row, units))
      <4>1. Sparing(r, Claims)
        BY <3>3, <3>4, <3>6, StockSpares
      <4> QED
        BY <4>1 DEF Sparing, Claims
    <3> QED
      BY <3>1, <3>5, <3>6 DEF units, todo
  <2> QED
    BY <1>4, <2>1, <2>2, <2>3 DEF CompletionStep
<1> QED
  BY <1>2, <1>3, <1>4 DEF AuditsNext

LEMMA ClaimsSpared ==
  ASSUME NEW q, Sparing(q, Claims)
  PROVE  Sparing(q, Audit) /\ Sparing(q, IdempotencyKey)
BY DEF Sparing, Claims

(* A completion and a receipt are handled by no other handler.             *)
LEMMA ClaimersApart ==
  /\ Completions \cap (PosReq \cup Changes \cup Edits \cup Registrations \cup Records
                       \cup CatalogReq \cup Creations \cup Scanners \cup Cancellations
                       \cup Receipts) = {}
  /\ Receipts \cap (PosReq \cup Changes \cup Edits \cup Registrations \cup Records
                    \cup CatalogReq \cup Creations \cup Scanners \cup Completions
                    \cup Cancellations) = {}
<1> DEFINE handlers == <<Checkouts, Voids, Changes, Edits, Registrations, Records, CatalogReq,
                         Creations, Scanners, Completions, Cancellations, Receipts,
                         DashboardReads>>
<1>1. \A i, j \in 1 .. 13 : i # j => handlers[i] \cap handlers[j] = {}
  BY HandlerAssumption, Zenon
<1>2. /\ handlers[1] = Checkouts /\ handlers[2] = Voids /\ handlers[3] = Changes
      /\ handlers[4] = Edits /\ handlers[5] = Registrations /\ handlers[6] = Records
      /\ handlers[7] = CatalogReq /\ handlers[8] = Creations /\ handlers[9] = Scanners
      /\ handlers[10] = Completions /\ handlers[11] = Cancellations /\ handlers[12] = Receipts
  OBVIOUS
<1> HIDE DEF handlers
<1>3. \A j \in {1, 2, 3, 4, 5, 6, 7, 8, 9, 11, 12} : handlers[10] \cap handlers[j] = {}
  BY <1>1
<1>4. \A j \in {1, 2, 3, 4, 5, 6, 7, 8, 9, 10, 11} : handlers[12] \cap handlers[j] = {}
  BY <1>1
<1>5. Completions \cap (PosReq \cup Changes \cup Edits \cup Registrations \cup Records
                       \cup CatalogReq \cup Creations \cup Scanners \cup Cancellations
                       \cup Receipts) = {}
  BY <1>2, <1>3 DEF PosReq
<1>6. Receipts \cap (PosReq \cup Changes \cup Edits \cup Registrations \cup Records
                    \cup CatalogReq \cup Creations \cup Scanners \cup Completions
                    \cup Cancellations) = {}
  BY <1>2, <1>4 DEF PosReq
<1> QED
  BY <1>5, <1>6

(* The requests that are neither completions nor receipts nor of an audit. *)
OtherReq == PosReq \cup Changes \cup Edits \cup Registrations \cup Records \cup CatalogReq

LEMMA OtherReqs == OtherReq \subseteq Req /\ OtherReq \cap (Completions \cup Receipts) = {}
<1>1. OtherReq \subseteq Req
  BY PosAssumption, UnitsAssumption, RecordsAssumption, CatalogAssumption DEF OtherReq, PosReq
<1>2. OtherReq \cap (Completions \cup Receipts) = {}
  BY ClaimersApart DEF OtherReq
<1> QED
  BY <1>1, <1>2

(* A step is one of an audit handler, one of a receipt, or one of a        *)
(* request that claims nothing.                                            *)
LEMMA StepKinds ==
  ASSUME StockInv, [Next \/ Done]_vars
  PROVE  \/ AuditsNext /\ UNCHANGED receiptLocals
         \/ ReceiptsNext /\ UNCHANGED auditLocals
         \/ \E q \in OtherReq : Sparing(q, Claims) /\ UNCHANGED <<auditLocals, receiptLocals>>
         \/ UNCHANGED dbVars /\ UNCHANGED <<auditLocals, receiptLocals>>
<1>1. /\ DbInv /\ PosInv /\ TypeOKUnits
      /\ TypeOKRecords /\ TypeOKCatalog /\ TypeOKAudits
      /\ TypeOKReceipts /\ TypeOKReports
  BY StockInvParts
<1>2. CASE InPos(PosNext)
  BY <1>1, <1>2, PosSpares DEF InPos, OtherReq
<1>3. CASE InUnits(UnitsNext)
  BY <1>1, <1>3, UnitsSpare DEF InUnits, OtherReq
<1>4. CASE InRecords(RecordsNext)
  BY <1>1, <1>4, RecordsSpare DEF InRecords, OtherReq
<1>5. CASE InCatalog(CatalogNext)
  BY <1>1, <1>5, CatalogSpares DEF InCatalog, OtherReq
<1>6. CASE InAudits(AuditsNext)
  BY <1>6 DEF InAudits
<1>7. CASE InReceipts(ReceiptsNext)
  BY <1>7 DEF InReceipts
<1>8. CASE InReports(ReportsNext)
  <2>1. UNCHANGED dbVars
    BY <1>8 DEF InReports, ReportsNext, ReportStep, BeginReport, BuildTotals, BuildByCategory,
           BuildByLocation, BuildAttention, AbortReport, Reports
  <2> QED
    BY <1>8, <2>1 DEF InReports
<1>9. CASE UNCHANGED vars
  BY <1>9 DEF vars, dbVars, auditLocals, receiptLocals
<1> QED
  BY <1>2, <1>3, <1>4, <1>5, <1>6, <1>7, <1>8, <1>9 DEF Next, Done

-----------------------------------------------------------------------------
(* Audits                                                                  *)

LEMMA InitAuditsConsistent == Init => AuditsConsistent
<1> SUFFICES ASSUME Init
             PROVE  AuditsConsistent
  OBVIOUS
<1>1. \A x \in Row : holder[x] = NoReq
  BY DEF Init, InitDb
<1>2. \A r \in Completions : r # NoReq /\ completing[r].pc = "idle" /\ AuditOf[r] \in Audit
  BY AuditRequest, RowAssumption DEF Init, InitAuditLocals, IdleCompletion
<1>3. \A r \in Completions : AuditClaimed(r) /\ UnitsSpared(r)
  BY <1>1, <1>2 DEF AuditClaimed, UnitsSpared, Row
<1> QED
  BY <1>1, <1>3 DEF AuditsConsistent, Row

(* Steps of requests that complete no audit.                               *)
LEMMA ElsewhereKeepsAudits ==
  ASSUME AuditsConsistent, NEW q \in Req \ Completions, Sparing(q, Audit), UNCHANGED completing
  PROVE  AuditsConsistent'
<1>1. \A a \in Audit : holder'[a] \in {holder[a], NoReq}
  BY SparingRows DEF Row
<1> QED
  BY <1>1, OthersKeepAudits

LEMMA NextKeepsAudits ==
  ASSUME StockInv, AuditsConsistent, [Next \/ Done]_vars
  PROVE  AuditsConsistent'
<1>1. DbInv /\ TypeOKAudits /\ TypeOKReceipts
  BY StockInvParts
<1>2. CASE AuditsNext
  BY <1>1, <1>2, ClaimersApart, AuditsNextConsistent
<1>3. CASE ReceiptsNext /\ UNCHANGED auditLocals
  <2>1. PICK r \in Receipts : PreviewReceiptImport(r) \/ ReceiptStep(r) \/ AbortReceipt(r)
    BY <1>3 DEF ReceiptsNext
  <2>2. r \in Req \ Completions
    BY ReceiptsAssumption, ClaimersApart
  <2>3. Sparing(r, Audit)
    BY <1>1, <2>1, ReceiptsSpareAudits
  <2>4. UNCHANGED completing
    BY <1>3 DEF auditLocals
  <2> QED
    BY <2>2, <2>3, <2>4, ElsewhereKeepsAudits
<1>4. ASSUME NEW q \in OtherReq, Sparing(q, Claims), UNCHANGED auditLocals
      PROVE  AuditsConsistent'
  <2>1. q \in Req \ Completions /\ UNCHANGED completing
    BY <1>4, OtherReqs DEF auditLocals
  <2> QED
    BY <1>4, <2>1, ClaimsSpared, ElsewhereKeepsAudits
<1>5. CASE UNCHANGED dbVars /\ UNCHANGED auditLocals
  BY <1>5 DEF AuditsConsistent, AuditClaimed, UnitsSpared, dbVars, auditLocals
<1> QED
  BY <1>2, <1>3, <1>4, <1>5, StepKinds

LEMMA AuditsInvariant == Spec => [](StockInv /\ AuditsConsistent)
<1>1. Init => StockInv /\ AuditsConsistent
  BY InitInv, InitAuditsConsistent
<1>2. StockInv /\ AuditsConsistent /\ [Next \/ Done]_vars => (StockInv /\ AuditsConsistent)'
  BY NextKeeps, NextKeepsAudits
<1> QED
  BY <1>1, <1>2, PTL DEF Spec

(* A step that completes an audit is the commit of a completion.           *)
LEMMA NextCompletesByCommit ==
  ASSUME StockInv, AuditsConsistent, [Next \/ Done]_vars, NEW a \in Audit, CompletedBy(a)
  PROVE  \E r \in Completions : CommitCompletion(r)
<1>1. DbInv /\ TypeOKAudits /\ TypeOKReceipts
  BY StockInvParts
<1>2. CASE AuditsNext
  BY <1>2, CompletedByCommit
<1>3. CASE ReceiptsNext
  <2>1. PICK r \in Receipts : PreviewReceiptImport(r) \/ ReceiptStep(r) \/ AbortReceipt(r)
    BY <1>3 DEF ReceiptsNext
  <2>2. r \in Req \ Completions
    BY ReceiptsAssumption, ClaimersApart
  <2>3. Sparing(r, Audit)
    BY <1>1, <2>1, ReceiptsSpareAudits
  <2> QED
    BY <2>2, <2>3, OthersCompleteNothing
<1>4. ASSUME NEW q \in OtherReq, Sparing(q, Claims)
      PROVE  FALSE
  <2>1. q \in Req \ Completions
    BY OtherReqs
  <2> QED
    BY <1>4, <2>1, ClaimsSpared, OthersCompleteNothing
<1>5. CASE UNCHANGED dbVars
  BY <1>5 DEF CompletedBy, dbVars
<1> QED
  BY <1>2, <1>3, <1>4, <1>5, StepKinds

(* The commit that completes an audit changes only units whose committed   *)
(* status by then is one audits manage, leaves them in such a status, and  *)
(* moves none, whatever sales, voids, status changes and moves of the same *)
(* units ran between the scan and the commit.                              *)
THEOREM AuditsSpareOthers == Spec => AuditSparesOthers
<1>1. StockInv /\ AuditsConsistent /\ [Next \/ Done]_vars
        => [(\E a \in Audit : CompletedBy(a)) =>
              \A u \in Unit :
                 committed'[u] # committed[u] => Spares(committed[u], committed'[u])]_auditVars
  <2> SUFFICES ASSUME StockInv, AuditsConsistent, [Next \/ Done]_vars,
                      NEW a \in Audit, CompletedBy(a),
                      NEW u \in Unit, committed'[u] # committed[u]
               PROVE  Spares(committed[u], committed'[u])
    OBVIOUS
  <2>1. PICK r \in Completions : CommitCompletion(r)
    BY NextCompletesByCommit
  <2> QED
    BY <2>1, CommitSparesUnits
<1> QED
  BY <1>1, AuditsInvariant, PTL DEF Spec, AuditSparesOthers

(* Of the requests that complete one audit, one that is answered well after*)
(* it had something to reconcile is the one whose commit took the audit    *)
(* from IN_PROGRESS to COMPLETED: no cancellation, no other completion and *)
(* no other handler gets between the claim and that commit.                *)
THEOREM OnlyOneReconciles == Spec => OneReconciliation
<1>1. StockInv /\ AuditsConsistent /\ [Next \/ Done]_vars
        => [\A r \in Completions :
              completing[r].pc = "reconcile" /\ completing'[r].pc = "ok"
                => CompletedBy(AuditOf[r])]_auditVars
  <2> SUFFICES ASSUME StockInv, AuditsConsistent, [Next \/ Done]_vars,
                      NEW r \in Completions,
                      completing[r].pc = "reconcile", completing'[r].pc = "ok"
               PROVE  CompletedBy(AuditOf[r])
    OBVIOUS
  <2>1. TypeOKAudits
    BY StockInvParts
  <2>2. ~ UNCHANGED auditLocals
    BY DEF auditLocals
  <2>3. AuditsNext
    BY <2>2, StepKinds
  <2> QED
    BY <2>1, <2>3, ClaimersApart, ReconciledIsCompleted
<1> QED
  BY <1>1, AuditsInvariant, PTL DEF Spec, OneReconciliation

-----------------------------------------------------------------------------
(* The idempotency keys of receipts                                        *)

LEMMA InitKeysConsistent == Init => KeysConsistent
<1> SUFFICES ASSUME Init
             PROVE  KeysConsistent
  OBVIOUS
<1>1. ASSUME NEW key \in IdempotencyKey
      PROVE  holder[key] = NoReq /\ committed[key].used = FALSE
  <2>1. /\ key \in Row /\ key \notin Product /\ key \notin Unit
        /\ key \notin Sale /\ key \notin Audit
    BY RowAssumption DEF Row
  <2> QED
    BY <2>1 DEF Init, InitDb, OpeningRow
<1>2. \A r \in Receipts : receipt[r].pc = "idle"
  BY DEF Init, InitReceiptLocals, AtReceipt
<1> QED
  BY <1>1, <1>2 DEF KeysConsistent, KeysTakenOnce, Imported, Claimant

(* The keys are as they were, and every receipt on the same side of its    *)
(* claim and of its end.                                                   *)
LEMMA SameKeysConsistent ==
  ASSUME KeysConsistent,
         \A key \in IdempotencyKey :
            holder'[key] = holder[key] /\ committed'[key] = committed[key]
            /\ pending'[key] = pending[key],
         \A r \in Receipts :
            (Claimant(r)' <=> Claimant(r)) /\ (receipt'[r].pc = "ok" <=> receipt[r].pc = "ok")
  PROVE  KeysConsistent'
<1>1. Imported' = Imported
  BY DEF Imported
<1>2. KeysTakenOnce'
  BY <1>1 DEF KeysConsistent, KeysTakenOnce
<1>3. \A r \in Receipts : ReceiptOf[r].key # NoKey => ReceiptOf[r].key \in IdempotencyKey
  BY ReceiptsAssumption DEF ReceiptBody
<1> QED
  BY <1>2, <1>3 DEF KeysConsistent

LEMMA OthersKeepKeys ==
  ASSUME KeysConsistent, NEW q \in Req \ Receipts, Sparing(q, IdempotencyKey), UNCHANGED receipt
  PROVE  KeysConsistent'
<1>1. ASSUME NEW key \in IdempotencyKey
      PROVE  holder'[key] = holder[key] /\ committed'[key] = committed[key]
             /\ pending'[key] = pending[key]
  <2>1. key \in Row \cap IdempotencyKey /\ holder[key] # q
    BY RowAssumption DEF Row, KeysConsistent
  <2> QED
    BY <2>1, SparingRows
<1>2. \A r \in Receipts :
         (Claimant(r)' <=> Claimant(r)) /\ (receipt'[r].pc = "ok" <=> receipt[r].pc = "ok")
  BY DEF Claimant
<1> QED
  BY <1>1, <1>2, SameKeysConsistent

(* The receipt r alone has come to pc.                                     *)
Reaches(r, pc) ==
  receipt'[r].pc = pc /\ \A q \in Receipts \ {r} : receipt'[q] = receipt[q]

LEMMA EndReaches ==
  ASSUME TypeOKReceipts, NEW r \in Receipts, NEW outcome, EndReceipt(r, outcome)
  PROVE  Reaches(r, outcome)
BY DEF TypeOKReceipts, EndReceipt, AtReceipt, Reaches

LEMMA ReachingConsistent ==
  ASSUME KeysConsistent, NEW r \in Receipts, NEW pc, Reaches(r, pc),
         \A key \in IdempotencyKey :
            holder'[key] = holder[key] /\ committed'[key] = committed[key]
            /\ pending'[key] = pending[key],
         Claimant(r) <=> pc \in {"match", "supplier", "stock"},
         receipt[r].pc # "ok", pc # "ok"
  PROVE  KeysConsistent'
<1>1. \A q \in Receipts :
         (Claimant(q)' <=> Claimant(q)) /\ (receipt'[q].pc = "ok" <=> receipt[q].pc = "ok")
  BY DEF Reaches, Claimant
<1> QED
  BY <1>1, SameKeysConsistent

(* The transaction of a receipt fails: its key is free again, ...          *)
LEMMA RollbackKeepsKeys ==
  ASSUME KeysConsistent, NEW r \in Receipts, Rollback(r), Reaches(r, "failed"),
         receipt[r].pc # "ok"
  PROVE  KeysConsistent'
<1>1. ASSUME NEW key \in IdempotencyKey
      PROVE  /\ holder'[key] = IF holder[key] = r THEN NoReq ELSE holder[key]
             /\ committed'[key] = committed[key]
             /\ holder[key] # r => pending'[key] = pending[key]
  <2>1. key \in Row
    BY DEF Row
  <2> QED
    BY <2>1 DEF Rollback, Released
<1>2. Imported' = Imported
  BY DEF Imported, Reaches
<1>3. KeysTakenOnce'
  BY <1>1, <1>2 DEF KeysConsistent, KeysTakenOnce
<1>4. ASSUME NEW key \in IdempotencyKey, holder'[key] # NoReq
      PROVE  \E q \in Receipts : holder'[key] = q /\ ReceiptOf[q].key = key /\ Claimant(q)'
  <2>1. holder[key] # r /\ holder'[key] = holder[key] /\ holder[key] # NoReq
    BY <1>1, <1>4
  <2>2. PICK q \in Receipts : holder[key] = q /\ ReceiptOf[q].key = key /\ Claimant(q)
    BY <2>1 DEF KeysConsistent
  <2>3. Claimant(q)'
    BY <2>1, <2>2 DEF Claimant, Reaches
  <2> QED
    BY <2>1, <2>2, <2>3
<1>5. ASSUME NEW q \in Receipts, Claimant(q)', ReceiptOf[q].key # NoKey
      PROVE  LET key == ReceiptOf[q].key
             IN  holder'[key] = q /\ pending'[key].used /\ ~ committed'[key].used
  <2>1. q # r /\ Claimant(q)
    BY <1>5 DEF Claimant, Reaches
  <2>2. ReceiptOf[q].key \in IdempotencyKey
    BY <1>5, ReceiptsAssumption DEF ReceiptBody
  <2>3. LET key == ReceiptOf[q].key
        IN  holder[key] = q /\ pending[key].used /\ ~ committed[key].used
    BY <1>5, <2>1 DEF KeysConsistent
  <2> QED
    BY <1>1, <2>1, <2>2, <2>3
<1> QED
  BY <1>3, <1>4, <1>5 DEF KeysConsistent

(* ... or it commits: its key is taken, and was not before.                *)
LEMMA CommitKeepsKeys ==
  ASSUME KeysConsistent, NEW r \in Receipts, Commit(r), Reaches(r, "ok"), Claimant(r)
  PROVE  KeysConsistent'
<1>1. ASSUME NEW key \in IdempotencyKey
      PROVE  /\ holder'[key] = IF holder[key] = r THEN NoReq ELSE holder[key]
             /\ committed'[key] = IF holder[key] = r THEN pending[key] ELSE committed[key]
             /\ pending'[key] = pending[key]
  <2>1. key \in Row
    BY DEF Row
  <2> QED
    BY <2>1 DEF Commit, Released
<1>2. Imported' = Imported \cup {r} /\ r \notin Imported
  BY DEF Imported, Reaches, Claimant
<1>3. ASSUME NEW q \in Receipts, ReceiptOf[q].key # NoKey
      PROVE  ReceiptOf[q].key \in IdempotencyKey
  BY <1>3, ReceiptsAssumption DEF ReceiptBody
<1>4. ASSUME NEW key \in IdempotencyKey
      PROVE  /\ holder[key] = r <=> ReceiptOf[r].key = key
             /\ holder[key] = r => pending[key].used /\ ~ committed[key].used
  <2>1. key # NoKey /\ r # NoReq
    BY ReceiptsAssumption, RowAssumption
  <2>2. CASE holder[key] = r
    <3>1. ReceiptOf[r].key = key
      BY <2>1, <2>2 DEF KeysConsistent
    <3> QED
      BY <2>1, <2>2, <3>1 DEF KeysConsistent
  <2>3. CASE ReceiptOf[r].key = key
    BY <2>1, <2>3 DEF KeysConsistent
  <2> QED
    BY <2>2, <2>3
<1>5. KeysTakenOnce'
  <2>1. ASSUME NEW key \in IdempotencyKey
        PROVE  committed'[key].used <=> \E q \in Imported' : ReceiptOf[q].key = key
    <3>1. committed[key].used <=> \E q \in Imported : ReceiptOf[q].key = key
      BY DEF KeysConsistent, KeysTakenOnce
    <3>2. CASE holder[key] = r
      BY <1>1, <1>2, <1>4, <3>2
    <3>3. CASE holder[key] # r
      BY <1>1, <1>2, <1>4, <3>1, <3>3
    <3> QED
      BY <3>2, <3>3
  <2>2. ASSUME NEW p \in Imported', NEW q \in Imported', ReceiptOf[p].key = ReceiptOf[q].key
        PROVE  p = q \/ ReceiptOf[q].key = NoKey
    <3>1. p \in Receipts /\ q \in Receipts
      BY DEF Imported
    <3>2. CASE p \in Imported /\ q \in Imported
      BY <2>2, <3>2 DEF KeysConsistent, KeysTakenOnce
    <3>3. ASSUME NEW x \in Imported, ReceiptOf[x].key = ReceiptOf[r].key
          PROVE  ReceiptOf[r].key = NoKey
      <4> SUFFICES ASSUME ReceiptOf[r].key # NoKey
                   PROVE  FALSE
        OBVIOUS
      <4> DEFINE key == ReceiptOf[r].key
      <4>1. key \in IdempotencyKey
        BY <1>3
      <4>2. ~ committed[key].used
        BY <1>4, <4>1
      <4>3. committed[key].used
        BY <3>3, <4>1 DEF KeysConsistent, KeysTakenOnce
      <4> QED
        BY <4>2, <4>3
    <3> QED
      BY <1>2, <2>2, <3>2, <3>3
  <2> QED
    BY <2>1, <2>2 DEF KeysTakenOnce
<1>6. ASSUME NEW key \in IdempotencyKey, holder'[key] # NoReq
      PROVE  \E q \in Receipts : holder'[key] = q /\ ReceiptOf[q].key = key /\ Claimant(q)'
  <2>1. holder[key] # r /\ holder'[key] = holder[key] /\ holder[key] # NoReq
    BY <1>1, <1>6
  <2>2. PICK q \in Receipts : holder[key] = q /\ ReceiptOf[q].key = key /\ Claimant(q)
    BY <2>1 DEF KeysConsistent
  <2>3. Claimant(q)'
    BY <2>1, <2>2 DEF Claimant, Reaches
  <2> QED
    BY <2>1, <2>2, <2>3
<1>7. ASSUME NEW q \in Receipts, Claimant(q)', ReceiptOf[q].key # NoKey
      PROVE  LET key == ReceiptOf[q].key
             IN  holder'[key] = q /\ pending'[key].used /\ ~ committed'[key].used
  <2>1. q # r /\ Claimant(q)
    BY <1>7 DEF Claimant, Reaches
  <2>2. ReceiptOf[q].key \in IdempotencyKey
    BY <1>3, <1>7
  <2>3. LET key == ReceiptOf[q].key
        IN  holder[key] = q /\ pending[key].used /\ ~ committed[key].used
    BY <1>7, <2>1 DEF KeysConsistent
  <2> QED
    BY <1>1, <2>1, <2>2, <2>3
<1> QED
  BY <1>5, <1>6, <1>7 DEF KeysConsistent

(* A receipt claims its key: nobody else held it, ...                      *)
LEMMA ClaimKeepsKeys ==
  ASSUME KeysConsistent, NEW r \in Receipts, NEW key \in IdempotencyKey,
         key = ReceiptOf[r].key, Stage(r, Write(key, [used |-> TRUE])),
         ~ committed[key].used, receipt[r].pc = "reserve", Reaches(r, "match")
  PROVE  KeysConsistent'
<1>1. ASSUME NEW k \in IdempotencyKey
      PROVE  /\ holder'[k] = IF k = key THEN r ELSE holder[k]
             /\ committed'[k] = committed[k]
             /\ k # key => pending'[k] = pending[k]
             /\ k = key => pending'[k].used
  <2>1. k \in Row
    BY DEF Row
  <2> QED
    BY <2>1 DEF Stage, Write
<1>2. Imported' = Imported
  BY DEF Imported, Reaches
<1>3. KeysTakenOnce'
  BY <1>1, <1>2 DEF KeysConsistent, KeysTakenOnce
<1>4. \A q \in Receipts : (Claimant(q)' <=> q = r \/ Claimant(q)) /\ ~ Claimant(r)
  BY DEF Claimant, Reaches
<1>5. ASSUME NEW k \in IdempotencyKey, holder'[k] # NoReq
      PROVE  \E q \in Receipts : holder'[k] = q /\ ReceiptOf[q].key = k /\ Claimant(q)'
  <2>1. CASE k = key
    BY <1>1, <1>4, <2>1
  <2>2. CASE k # key
    <3>1. holder'[k] = holder[k]
      BY <1>1, <2>2
    <3>2. PICK q \in Receipts : holder[k] = q /\ ReceiptOf[q].key = k /\ Claimant(q)
      BY <1>5, <3>1 DEF KeysConsistent
    <3> QED
      BY <1>4, <3>1, <3>2
  <2> QED
    BY <2>1, <2>2
(* ... so no other receipt with this key is past its claim.                *)
<1>6. ASSUME NEW q \in Receipts, q # r, Claimant(q)
      PROVE  ReceiptOf[q].key # key
  <2>1. Lockable(r, key)
    BY DEF Stage, Write
  <2>2. q # NoReq /\ key # NoKey
    BY ReceiptsAssumption, RowAssumption
  <2> QED
    BY <1>6, <2>1, <2>2 DEF KeysConsistent, Lockable
<1>7. ASSUME NEW q \in Receipts, Claimant(q)', ReceiptOf[q].key # NoKey
      PROVE  LET k == ReceiptOf[q].key
             IN  holder'[k] = q /\ pending'[k].used /\ ~ committed'[k].used
  <2>1. ReceiptOf[q].key \in IdempotencyKey
    BY <1>7, ReceiptsAssumption DEF ReceiptBody
  <2>2. CASE q = r
    BY <1>1, <2>2
  <2>3. CASE q # r
    <3>1. Claimant(q) /\ ReceiptOf[q].key # key
      BY <1>4, <1>6, <1>7, <2>3
    <3>2. LET k == ReceiptOf[q].key
          IN  holder[k] = q /\ pending[k].used /\ ~ committed[k].used
      BY <1>7, <3>1 DEF KeysConsistent
    <3> QED
      BY <1>1, <2>1, <3>1, <3>2
  <2> QED
    BY <2>2, <2>3
<1> QED
  BY <1>3, <1>5, <1>7 DEF KeysConsistent

(* A receipt without a key claims none.                                    *)
LEMMA UnkeyedKeepsKeys ==
  ASSUME KeysConsistent, NEW r \in Receipts, ReceiptOf[r].key = NoKey, UNCHANGED dbVars,
         receipt[r].pc = "reserve", Reaches(r, "match")
  PROVE  KeysConsistent'
<1>1. Imported' = Imported
  BY DEF Imported, Reaches
<1>2. \A q \in Receipts : Claimant(q)' <=> q = r \/ Claimant(q)
  BY DEF Claimant, Reaches
<1>3. holder' = holder /\ committed' = committed /\ pending' = pending
  BY DEF dbVars
<1> QED
  BY <1>1, <1>2, <1>3 DEF KeysConsistent, KeysTakenOnce

LEMMA ReservingKeepsKeys ==
  ASSUME KeysConsistent, TypeOKReceipts, NEW r \in Receipts, ReserveIdempotencyKey(r)
  PROVE  KeysConsistent'
<1> DEFINE key == ReceiptOf[r].key
<1>1. receipt' = [receipt EXCEPT ![r].pc = "match"] => Reaches(r, "match")
  BY DEF TypeOKReceipts, Reaches
<1>2. receipt[r].pc = "reserve"
  BY DEF ReserveIdempotencyKey
<1>3. \/ key = NoKey /\ Reaches(r, "match") /\ UNCHANGED dbVars
      \/ Reaches(r, "failed") /\ UNCHANGED dbVars
      \/ /\ key # NoKey /\ ~ committed[key].used
         /\ Stage(r, Write(key, [used |-> TRUE])) /\ Reaches(r, "match")
  BY <1>1, EndReaches DEF ReserveIdempotencyKey, Claimed
<1>4. key # NoKey => key \in IdempotencyKey
  BY ReceiptsAssumption DEF ReceiptBody
<1>5. CASE Reaches(r, "failed") /\ UNCHANGED dbVars
  <2>1. ~ Claimant(r)
    BY <1>2 DEF Claimant
  <2> QED
    BY <1>2, <1>5, <2>1, ReachingConsistent DEF dbVars
<1> QED
  BY <1>2, <1>3, <1>4, <1>5, UnkeyedKeepsKeys, ClaimKeepsKeys

(* A line stocks in one product, or the transaction of the receipt fails.  *)
LEMMA LineReaches ==
  ASSUME TypeOKReceipts, NEW r \in Receipts, StockReceiptLine(r)
  PROVE  \/ Rollback(r) /\ Reaches(r, "failed")
         \/ /\ \E p \in Product : \E row : Stage(r, Write(p, row))
            /\ Reaches(r, "stock")
<1> DEFINE i == receipt[r].next
           p == FindProductInMap(Items(r)[i], receipt[r].matches)
<1>1. ReceiptOK(receipt[r]) /\ receipt[r].pc = "stock" /\ DOMAIN receipt = Receipts
  BY ReceiptLocals DEF StockReceiptLine, TypeOKReceipts
<1>2. i \in DOMAIN Items(r)
  <2>1. i \in Nat \ {0} /\ i <= Len(Items(r)) /\ Items(r) \in Seq(ReceiptItem)
    BY <1>1, ReceiptsAssumption DEF StockReceiptLine, ReceiptOK, Items, ReceiptBody
  <2> HIDE DEF i
  <2> QED
    BY <2>1
<1>3. CASE p # NoProduct /\ StockMatched(r, i, p)
  <2>1. p \in Product
    BY <1>1, <1>3, FindProductType DEF ReceiptOK
  <2>2. Reaches(r, "stock")
    BY <1>1, <1>3 DEF StockMatched, ReceiptOK, Reaches
  <2> HIDE DEF p, i
  <2> QED
    BY <1>3, <2>1, <2>2 DEF StockMatched
<1>4. CASE StockCreated(r, i)
  <2>1. DrawnFor[r][i] \in Product
    BY <1>2, ReceiptsAssumption
  <2>2. ASSUME NEW matches,
               receipt' = [receipt EXCEPT ![r].next = @ + 1, ![r].matches = matches]
        PROVE  Reaches(r, "stock")
    BY <1>1, <2>2 DEF ReceiptOK, Reaches
  <2> HIDE DEF p, i
  <2> QED
    BY <1>4, <2>1, <2>2, EndReaches DEF StockCreated
<1> QED
  BY <1>3, <1>4 DEF StockReceiptLine

(* The steps of a receipt after its claim.                                 *)
LEMMA ClaimantKeepsKeys ==
  ASSUME KeysConsistent, TypeOKReceipts, NEW r \in Receipts,
         \/ BuildProductMatchMap(r) \/ FindOrCreateSupplier(r)
         \/ StockReceiptLine(r) \/ CommitReceipt(r)
  PROVE  KeysConsistent'
<1>1. Claimant(r) /\ receipt[r].pc # "ok"
  BY DEF BuildProductMatchMap, FindOrCreateSupplier, StockReceiptLine, CommitReceipt, Claimant
<1>2. CASE CommitReceipt(r)
  BY <1>1, <1>2, EndReaches, CommitKeepsKeys DEF CommitReceipt
<1>3. ASSUME NEW p \in Product, NEW row, Stage(r, Write(p, row)), Reaches(r, "stock")
      PROVE  KeysConsistent'
  <2>1. \A key \in IdempotencyKey :
           holder'[key] = holder[key] /\ committed'[key] = committed[key]
           /\ pending'[key] = pending[key]
    BY <1>3, RowAssumption DEF Stage, Write, Row
  <2> QED
    BY <1>1, <1>3, <2>1, ReachingConsistent
<1>4. CASE StockReceiptLine(r)
  BY <1>1, <1>3, <1>4, LineReaches, RollbackKeepsKeys
<1>5. CASE FindOrCreateSupplier(r)
  <2>1. PICK s : receipt' = [receipt EXCEPT ![r].pc = "stock", ![r].supplier = s]
    BY <1>5 DEF FindOrCreateSupplier
  <2>2. Reaches(r, "stock")
    BY <2>1 DEF TypeOKReceipts, Reaches
  <2> QED
    BY <1>1, <1>5, <2>2, ReachingConsistent DEF FindOrCreateSupplier, dbVars
<1>6. CASE BuildProductMatchMap(r)
  <2> DEFINE field == MatchField[receipt[r].next]
  <2>1. PICK map : receipt' = [receipt EXCEPT
               ![r].matches[field] = map,
               ![r].pc = IF field = "name" THEN "supplier" ELSE "match",
               ![r].next = IF field = "name" THEN 1 ELSE @ + 1]
    BY <1>6 DEF BuildProductMatchMap
  <2> HIDE DEF field
  <2>2. Reaches(r, "supplier") \/ Reaches(r, "match")
    BY <2>1 DEF TypeOKReceipts, Reaches
  <2>3. UNCHANGED dbVars
    BY <1>6 DEF BuildProductMatchMap
  <2> QED
    BY <1>1, <2>2, <2>3, ReachingConsistent DEF dbVars
<1> QED
  BY <1>2, <1>4, <1>5, <1>6

LEMMA ReceiptsNextConsistent ==
  ASSUME KeysConsistent, TypeOKReceipts, ReceiptsNext
  PROVE  KeysConsistent'
<1>1. PICK r \in Receipts : PreviewReceiptImport(r) \/ ReceiptStep(r) \/ AbortReceipt(r)
  BY DEF ReceiptsNext
<1>2. CASE PreviewReceiptImport(r)
  <2>1. receipt[r].pc = "idle" /\ UNCHANGED dbVars
    BY <1>2 DEF PreviewReceiptImport
  <2>2. receipt' = [receipt EXCEPT ![r].pc = "reserve"] => Reaches(r, "reserve")
    BY DEF TypeOKReceipts, Reaches
  <2>3. Reaches(r, "reserve") \/ Reaches(r, "failed")
    BY <1>2, <2>2, EndReaches DEF PreviewReceiptImport
  <2>4. ~ Claimant(r)
    BY <2>1 DEF Claimant
  <2> QED
    BY <2>1, <2>3, <2>4, ReachingConsistent DEF dbVars
<1>3. CASE AbortReceipt(r)
  BY <1>3, EndReaches, RollbackKeepsKeys DEF AbortReceipt
<1> QED
  BY <1>1, <1>2, <1>3, ReservingKeepsKeys, ClaimantKeepsKeys DEF ReceiptStep

LEMMA NextKeepsKeys ==
  ASSUME StockInv, KeysConsistent, [Next \/ Done]_vars
  PROVE  KeysConsistent'
<1>1. TypeOKAudits /\ TypeOKReceipts
  BY StockInvParts
<1>2. CASE AuditsNext /\ UNCHANGED receiptLocals
  <2>1. PICK q \in Creations \cup Scanners \cup Completions \cup Cancellations :
           Sparing(q, IdempotencyKey)
    BY <1>1, <1>2, AuditsSpareKeys
  <2>2. q \in Req \ Receipts
    BY AuditRequest, ClaimersApart
  <2> QED
    BY <1>2, <2>1, <2>2, OthersKeepKeys DEF receiptLocals
<1>3. CASE ReceiptsNext
  BY <1>1, <1>3, ReceiptsNextConsistent
<1>4. ASSUME NEW q \in OtherReq, Sparing(q, Claims), UNCHANGED receiptLocals
      PROVE  KeysConsistent'
  <2>1. q \in Req \ Receipts /\ UNCHANGED receipt
    BY <1>4, OtherReqs DEF receiptLocals
  <2> QED
    BY <1>4, <2>1, ClaimsSpared, OthersKeepKeys
<1>5. CASE UNCHANGED dbVars /\ UNCHANGED receiptLocals
  BY <1>5, SameKeysConsistent DEF dbVars, receiptLocals, Claimant
<1> QED
  BY <1>2, <1>3, <1>4, <1>5, StepKinds

LEMMA KeysInvariant == Spec => [](StockInv /\ KeysConsistent)
<1>1. Init => StockInv /\ KeysConsistent
  BY InitInv, InitKeysConsistent
<1>2. StockInv /\ KeysConsistent /\ [Next \/ Done]_vars => (StockInv /\ KeysConsistent)'
  BY NextKeeps, NextKeepsKeys
<1> QED
  BY <1>1, <1>2, PTL DEF Spec

(* However many receipts are sent with one idempotency key, and however    *)
(* they overlap or fail, at most one of them is answered with success, and *)
(* the key stays free until that one commits.                              *)
THEOREM KeysAlwaysTakenOnce == Spec => []KeysTakenOnce
<1>1. KeysConsistent => KeysTakenOnce
  BY DEF KeysConsistent
<1> QED
  BY <1>1, KeysInvariant, PTL

-----------------------------------------------------------------------------
(* What the receipts bought                                                *)

(* Bookings put together and carried over.                                 *)
LEMMA InPurchases ==
  ASSUME NEW version, NEW p, NEW i
  PROVE  <<p, i>> \in Purchases(version)
           <=> /\ p \in Product /\ i \in DOMAIN version[p].ledger
               /\ IsPurchase(version[p].ledger[i])
BY DEF Purchases

LEMMA PurchasePlace ==
  ASSUME NEW version, NEW e \in Purchases(version)
  PROVE  e = <<e[1], e[2]>>
BY DEF Purchases

LEMMA InNewPlaces ==
  ASSUME NEW old, NEW new, NEW held, NEW p, NEW i
  PROVE  <<p, i>> \in NewPlaces(old, new, held) <=> p \in held /\ i \in NewEntries(old, new, p)
BY DEF NewPlaces

LEMMA NewPlace ==
  ASSUME NEW old, NEW new, NEW held, NEW e \in NewPlaces(old, new, held)
  PROVE  e = <<e[1], e[2]>>
BY DEF NewPlaces

LEMMA InLines ==
  ASSUME NEW receipts, NEW r, NEW i
  PROVE  <<r, i>> \in LinesOf(receipts) <=> r \in receipts /\ i \in DOMAIN Items(r)
BY DEF LinesOf

LEMMA BookedElsewhere ==
  ASSUME NEW lines, NEW places, NEW old, NEW new, Booked(lines, places, old),
         \A e \in places : new[e[1]].ledger[e[2]] = old[e[1]].ledger[e[2]]
  PROVE  Booked(lines, places, new)
<1>1. PICK f \in [lines -> places] : Books(f, lines, places, old)
  BY DEF Booked
<1>2. \A a \in lines : f[a] \in places
  BY <1>1
<1>3. Books(f, lines, places, new)
  BY <1>1, <1>2 DEF Books
<1> QED
  BY <1>3 DEF Booked

LEMMA BookedTogether ==
  ASSUME NEW linesA, NEW linesB, NEW placesA, NEW placesB, NEW version,
         Booked(linesA, placesA, version), Booked(linesB, placesB, version),
         linesA \cap linesB = {}, placesA \cap placesB = {}
  PROVE  Booked(linesA \cup linesB, placesA \cup placesB, version)
<1>1. PICK f \in [linesA -> placesA] : Books(f, linesA, placesA, version)
  BY DEF Booked
<1>2. PICK g \in [linesB -> placesB] : Books(g, linesB, placesB, version)
  BY DEF Booked
<1> DEFINE lines == linesA \cup linesB
           places == placesA \cup placesB
           h == [a \in lines |-> IF a \in linesA THEN f[a] ELSE g[a]]
<1>3. \A a \in linesA : h[a] = f[a] /\ f[a] \in placesA
  BY <1>1
<1>4. \A a \in linesB : h[a] = g[a] /\ g[a] \in placesB /\ a \notin linesA
  BY <1>2
<1>5. h \in [lines -> places]
  BY <1>3, <1>4
<1> HIDE DEF h
<1>6. \A a, b \in lines : h[a] = h[b] => a = b
  BY <1>1, <1>2, <1>3, <1>4 DEF Books
<1>7. \A e \in places : \E a \in lines : h[a] = e
  BY <1>1, <1>2, <1>3, <1>4 DEF Books
<1>8. \A a \in lines :
        LET m == version[h[a][1]].ledger[h[a][2]]
        IN  /\ IsPurchase(m)
            /\ m.quantityChange = Items(a[1])[a[2]].quantity /\ m.loc = ReceiptOf[a[1]].loc
  BY <1>1, <1>2, <1>3, <1>4 DEF Books
<1> QED
  BY <1>5, <1>6, <1>7, <1>8 DEF Booked, Books

LEMMA BookedNone == \A version : Booked({}, {}, version)
<1> SUFFICES ASSUME NEW version
             PROVE  Booked({}, {}, version)
  OBVIOUS
<1> DEFINE f == [a \in {} |-> a]
<1>1. f \in [{} -> {}] /\ Books(f, {}, {}, version)
  BY DEF Books
<1> QED
  BY <1>1 DEF Booked

LEMMA BookedOne ==
  ASSUME NEW r, NEW i, NEW p, NEW j, NEW version,
         LET m == version[p].ledger[j]
         IN  /\ IsPurchase(m)
             /\ m.quantityChange = Items(r)[i].quantity /\ m.loc = ReceiptOf[r].loc
  PROVE  Booked({<<r, i>>}, {<<p, j>>}, version)
<1> DEFINE f == [a \in {<<r, i>>} |-> <<p, j>>]
<1>1. f \in [{<<r, i>>} -> {<<p, j>>}] /\ f[<<r, i>>] = <<p, j>>
  OBVIOUS
<1> HIDE DEF f
<1>2. Books(f, {<<r, i>>}, {<<p, j>>}, version)
  BY <1>1 DEF Books
<1> QED
  BY <1>1, <1>2 DEF Booked

(* Ledgers without new purchases.                                          *)
LEMMA UnboughtReflexive == \A s : Len(s) \in Nat => ContinuesUnbought(s, s)
BY ContinuesReflexive DEF ContinuesUnbought

LEMMA UnboughtTransitive ==
  ASSUME NEW s \in Seq(StockMovement), NEW t \in Seq(StockMovement),
         NEW u \in Seq(StockMovement), ContinuesUnbought(s, t), ContinuesUnbought(t, u)
  PROVE  ContinuesUnbought(s, u)
<1>1. Continues(s, u)
  BY ContinuesTransitive DEF ContinuesUnbought
<1>2. ASSUME NEW i \in Len(s) + 1 .. Len(u)
      PROVE  ~ IsPurchase(u[i])
  <2>1. CASE i <= Len(t)
    <3>1. i \in Len(s) + 1 .. Len(t) /\ i \in 1 .. Len(t)
      BY <2>1
    <3>2. u[i] = t[i]
      BY <3>1 DEF ContinuesUnbought, Continues
    <3> QED
      BY <3>1, <3>2 DEF ContinuesUnbought
  <2>2. CASE i > Len(t)
    BY <2>2 DEF ContinuesUnbought
  <2> QED
    BY <2>1, <2>2
<1> QED
  BY <1>1, <1>2 DEF ContinuesUnbought

(* Where no purchase was added, the purchases are what they were.          *)
LEMMA SamePurchases ==
  ASSUME NEW old, NEW new,
         \A p \in Product : /\ old[p].ledger \in Seq(StockMovement)
                            /\ new[p].ledger \in Seq(StockMovement)
                            /\ ContinuesUnbought(old[p].ledger, new[p].ledger)
  PROVE  /\ Purchases(new) = Purchases(old)
         /\ \A e \in Purchases(old) : new[e[1]].ledger[e[2]] = old[e[1]].ledger[e[2]]
<1>1. ASSUME NEW p \in Product
      PROVE  /\ \A i \in DOMAIN old[p].ledger :
                   i \in DOMAIN new[p].ledger /\ new[p].ledger[i] = old[p].ledger[i]
             /\ \A i \in DOMAIN new[p].ledger :
                   IsPurchase(new[p].ledger[i]) => i \in DOMAIN old[p].ledger
  <2> DEFINE s == old[p].ledger
             t == new[p].ledger
  <2>1. s \in Seq(StockMovement) /\ t \in Seq(StockMovement) /\ ContinuesUnbought(s, t)
    OBVIOUS
  <2> HIDE DEF s, t
  <2>2. /\ DOMAIN s = 1 .. Len(s) /\ DOMAIN t = 1 .. Len(t) /\ Len(s) \in Nat /\ Len(t) \in Nat
        /\ Len(s) <= Len(t) /\ \A i \in 1 .. Len(s) : t[i] = s[i]
        /\ \A i \in Len(s) + 1 .. Len(t) : ~ IsPurchase(t[i])
    BY <2>1 DEF ContinuesUnbought, Continues
  <2>3. ASSUME NEW i \in DOMAIN t, IsPurchase(t[i])
        PROVE  i \in DOMAIN s
    <3>1. i \in 1 .. Len(t) /\ i \notin Len(s) + 1 .. Len(t)
      BY <2>2, <2>3
    <3> QED
      BY <2>2, <3>1
  <2>4. \A i \in DOMAIN s : i \in DOMAIN t /\ t[i] = s[i]
    BY <2>2
  <2> QED
    BY <2>3, <2>4 DEF s, t
<1>2. ASSUME NEW p, NEW i
      PROVE  <<p, i>> \in Purchases(new) <=> <<p, i>> \in Purchases(old)
  <2>1. CASE p \in Product
    <3>1. i \in DOMAIN old[p].ledger =>
            i \in DOMAIN new[p].ledger /\ new[p].ledger[i] = old[p].ledger[i]
      BY <1>1, <2>1
    <3>2. i \in DOMAIN new[p].ledger /\ IsPurchase(new[p].ledger[i]) => i \in DOMAIN old[p].ledger
      BY <1>1, <2>1
    <3> QED
      BY <3>1, <3>2, InPurchases
  <2>2. CASE p \notin Product
    BY <2>2, InPurchases
  <2> QED
    BY <2>1, <2>2
<1>3. Purchases(new) = Purchases(old)
  <2>1. ASSUME NEW e \in Purchases(new)
        PROVE  e \in Purchases(old)
    BY <1>2, PurchasePlace
  <2>2. ASSUME NEW e \in Purchases(old)
        PROVE  e \in Purchases(new)
    BY <1>2, PurchasePlace
  <2> QED
    BY <2>1, <2>2
<1>4. ASSUME NEW e \in Purchases(old)
      PROVE  new[e[1]].ledger[e[2]] = old[e[1]].ledger[e[2]]
  <2>1. e[1] \in Product /\ e[2] \in DOMAIN old[e[1]].ledger
    BY PurchasePlace, InPurchases
  <2> QED
    BY <1>1, <2>1
<1> QED
  BY <1>3, <1>4

(* What another receipt has entered stays as long as it holds it.          *)
LEMMA ReceiptStands ==
  ASSUME NEW r \in Receipts, HeldStay(r), receipt'[r] = receipt[r], ReceiptConsistent(r)
  PROVE  ReceiptConsistent(r)'
<1>1. \A p \in Product : /\ holder'[p] = r <=> holder[p] = r
                         /\ holder[p] = r => committed'[p] = committed[p] /\ pending'[p] = pending[p]
  BY DEF HeldStay, Row
<1>2. Held(r)' = Held(r)
  BY <1>1 DEF Held
<1> DEFINE places == NewPlaces(committed, pending, Held(r))
<1>3. \A p \in Held(r) : NewEntries(committed', pending', p) = NewEntries(committed, pending, p)
  BY <1>1 DEF Held, NewEntries
<1>4. NewPlaces(committed', pending', Held(r)) = places
  BY <1>3 DEF NewPlaces
<1>5. CASE receipt[r].pc = "stock"
  <2>1. Booked(StockedLines(r), places, pending)
    BY <1>5 DEF ReceiptConsistent
  <2>2. \A e \in places : pending'[e[1]].ledger[e[2]] = pending[e[1]].ledger[e[2]]
    <3> TAKE e \in places
    <3>1. e[1] \in Held(r)
      BY NewPlace, InNewPlaces
    <3> QED
      BY <1>1, <3>1 DEF Held
  <2> HIDE DEF places
  <2>3. Booked(StockedLines(r), places, pending')
    BY <2>1, <2>2, BookedElsewhere
  <2>4. StockedLines(r)' = StockedLines(r)
    BY DEF StockedLines
  <2> QED
    BY <1>2, <1>4, <1>5, <2>3, <2>4 DEF ReceiptConsistent
<1>6. CASE receipt[r].pc # "stock"
  BY <1>2, <1>6 DEF ReceiptConsistent
<1> QED
  BY <1>5, <1>6

(* A statement, commit or rollback of q that enters no purchase.           *)
Unbuying(q) ==
  \/ \E rows :
        /\ Stage(q, rows)
        /\ \A p \in Product \cap DOMAIN rows :
              ContinuesUnbought(Visible(q, p).ledger, rows[p].ledger)
  \/ \E rows :
        /\ AutoCommit(rows)
        /\ \A p \in Product \cap DOMAIN rows : rows[p].ledger = committed[p].ledger
  \/ Commit(q) \/ Rollback(q) \/ UNCHANGED dbVars

LEMMA UnbuyingHeld ==
  ASSUME NEW q, Unbuying(q), NEW r \in Req \ {q}
  PROVE  HeldStay(r)
<1>1. Sparing(q, {})
  BY DEF Unbuying, Sparing
<1> QED
  BY <1>1, SparingHeld

LEMMA UnbuyingLedgers ==
  ASSUME DbInv, DbInv', NEW q \in Req \ Receipts, Unbuying(q), NEW p \in Product,
         holder[p] \notin Receipts => ContinuesUnbought(committed[p].ledger, pending[p].ledger)
  PROVE  /\ ContinuesUnbought(committed[p].ledger, committed'[p].ledger)
         /\ holder'[p] \notin Receipts =>
               ContinuesUnbought(committed'[p].ledger, pending'[p].ledger)
<1>1. /\ committed[p].ledger \in Seq(StockMovement) /\ Len(committed[p].ledger) \in Nat
      /\ pending[p].ledger \in Seq(StockMovement) /\ Len(pending[p].ledger) \in Nat
      /\ p \in Row
  BY LedgersTyped DEF Row
<1>2. /\ committed'[p].ledger \in Seq(StockMovement) /\ Len(committed'[p].ledger) \in Nat
      /\ pending'[p].ledger \in Seq(StockMovement) /\ Len(pending'[p].ledger) \in Nat
  BY LedgerType DEF DbInv, TypeOKDb, DbTypeOK
<1>3. ASSUME NEW rows, Stage(q, rows),
             \A x \in Product \cap DOMAIN rows :
                ContinuesUnbought(Visible(q, x).ledger, rows[x].ledger)
      PROVE  /\ ContinuesUnbought(committed[p].ledger, committed'[p].ledger)
             /\ holder'[p] \notin Receipts =>
                   ContinuesUnbought(committed'[p].ledger, pending'[p].ledger)
  <2>1. committed'[p] = committed[p]
    BY <1>3 DEF Stage
  <2>2. CASE p \in DOMAIN rows
    <3>1. /\ pending'[p] = rows[p] /\ Visible(q, p) = pending[p] /\ holder[p] \notin Receipts
      BY <1>1, <1>3, <2>2, VisibleIsPending, ReceiptsAssumption, RowAssumption DEF Stage, Lockable
    <3>2. ContinuesUnbought(pending[p].ledger, pending'[p].ledger)
      BY <1>3, <2>2, <3>1
    <3> QED
      BY <1>1, <1>2, <2>1, <3>1, <3>2, UnboughtReflexive, UnboughtTransitive
  <2>3. CASE p \notin DOMAIN rows
    <3>1. pending'[p] = pending[p] /\ holder'[p] = holder[p]
      BY <1>1, <1>3, <2>3 DEF Stage
    <3> QED
      BY <1>1, <2>1, <3>1, UnboughtReflexive
  <2> QED
    BY <2>2, <2>3
<1>4. ASSUME NEW rows, AutoCommit(rows),
             \A x \in Product \cap DOMAIN rows : rows[x].ledger = committed[x].ledger
      PROVE  /\ ContinuesUnbought(committed[p].ledger, committed'[p].ledger)
             /\ holder'[p] \notin Receipts =>
                   ContinuesUnbought(committed'[p].ledger, pending'[p].ledger)
  <2>1. committed'[p].ledger = committed[p].ledger /\ holder'[p] = holder[p]
    BY <1>1, <1>4 DEF AutoCommit
  <2>2. pending'[p].ledger \in {committed[p].ledger, pending[p].ledger}
    BY <1>1, <1>4 DEF AutoCommit
  <2> QED
    BY <1>1, <2>1, <2>2, UnboughtReflexive
<1>5. CASE Commit(q)
  <2>1. /\ committed'[p] = IF holder[p] = q THEN pending[p] ELSE committed[p]
        /\ holder'[p] = IF holder[p] = q THEN NoReq ELSE holder[p]
        /\ pending'[p] = pending[p]
    BY <1>1, <1>5 DEF Commit, Released
  <2> QED
    BY <1>1, <2>1, UnboughtReflexive
<1>6. CASE Rollback(q)
  <2>1. /\ pending'[p] = IF holder[p] = q THEN committed[p] ELSE pending[p]
        /\ holder'[p] = IF holder[p] = q THEN NoReq ELSE holder[p]
        /\ committed'[p] = committed[p]
    BY <1>1, <1>6 DEF Rollback, Released
  <2> QED
    BY <1>1, <2>1, UnboughtReflexive
<1>7. CASE UNCHANGED dbVars
  BY <1>1, <1>7, UnboughtReflexive DEF dbVars
<1> QED
  BY <1>3, <1>4, <1>5, <1>6, <1>7 DEF Unbuying

LEMMA UnbuyingKeepsReceipts ==
  ASSUME DbInv, DbInv', NEW q \in Req \ Receipts, Unbuying(q), ReceiptsConsistent,
         UNCHANGED receipt
  PROVE  ReceiptsConsistent'
<1>1. \A p \in Product :
         /\ committed[p].ledger \in Seq(StockMovement)
         /\ committed'[p].ledger \in Seq(StockMovement)
  BY LedgerType DEF DbInv, TypeOKDb, DbTypeOK
<1>2. \A p \in Product :
         /\ ContinuesUnbought(committed[p].ledger, committed'[p].ledger)
         /\ holder'[p] \notin Receipts =>
               ContinuesUnbought(committed'[p].ledger, pending'[p].ledger)
  BY UnbuyingLedgers DEF ReceiptsConsistent
<1>3. ReceiptsBooked'
  <2>1. /\ Purchases(committed') = Purchases(committed)
        /\ \A e \in Purchases(committed) :
              committed'[e[1]].ledger[e[2]] = committed[e[1]].ledger[e[2]]
    BY <1>1, <1>2, SamePurchases
  <2>2. Booked(LinesOf(Imported), Purchases(committed), committed')
    BY <2>1, BookedElsewhere DEF ReceiptsConsistent, ReceiptsBooked
  <2>3. Imported' = Imported
    BY DEF Imported
  <2> QED
    BY <2>1, <2>2, <2>3 DEF ReceiptsBooked
<1>4. ASSUME NEW r \in Receipts
      PROVE  ReceiptConsistent(r)'
  <2>1. r \in Req \ {q}
    BY ReceiptsAssumption
  <2> QED
    BY <2>1, UnbuyingHeld, ReceiptStands DEF ReceiptsConsistent
<1> QED
  BY <1>2, <1>3, <1>4 DEF ReceiptsConsistent

(* The steps of a receipt before its first line, and those of one that     *)
(* refuse it.                                                              *)
LEMMA BeforeLinesKeepsReceipts ==
  ASSUME ReceiptsConsistent, NEW r \in Receipts,
         \A q \in Receipts \ {r} : HeldStay(q) /\ receipt'[q] = receipt[q],
         \A p \in Product : /\ holder'[p] = holder[p]
                            /\ committed'[p] = committed[p] /\ pending'[p] = pending[p],
         receipt[r].pc \notin {"stock", "ok"}, receipt'[r].pc # "ok",
         receipt'[r].pc \in {"supplier", "stock"} => receipt'[r].next = 1
  PROVE  ReceiptsConsistent'
<1>1. Imported' = Imported
  BY DEF Imported
<1>2. Purchases(committed') = Purchases(committed)
  BY DEF Purchases
<1>3. ReceiptsBooked'
  <2>1. \A e \in Purchases(committed) :
          committed'[e[1]].ledger[e[2]] = committed[e[1]].ledger[e[2]]
    <3> TAKE e \in Purchases(committed)
    <3>1. e[1] \in Product
      BY PurchasePlace, InPurchases
    <3> QED
      BY <3>1
  <2>2. Booked(LinesOf(Imported), Purchases(committed), committed')
    BY <2>1, BookedElsewhere DEF ReceiptsConsistent, ReceiptsBooked
  <2> QED
    BY <1>1, <1>2, <2>2 DEF ReceiptsBooked
<1>4. ReceiptConsistent(r)'
  <2>1. Held(r)' = {}
    <3>1. Held(r) = {}
      BY DEF ReceiptsConsistent, ReceiptConsistent
    <3> QED
      BY <3>1 DEF Held
  <2>2. CASE receipt'[r].pc = "stock"
    <3>1. receipt'[r].next = 1 /\ Len(Items(r)) \in Nat
      BY <2>2, ReceiptsAssumption DEF Items, ReceiptBody
    <3>2. StockedLines(r)' = {} /\ NewPlaces(committed', pending', {}) = {}
      BY <3>1 DEF StockedLines, NewPlaces
    <3>3. NewPlaces(committed', pending', Held(r)') = {}
      BY <2>1, <3>2
    <3>4. Booked(StockedLines(r)', NewPlaces(committed', pending', Held(r)'), pending')
      BY <3>2, <3>3, BookedNone
    <3>5. receipt'[r].next <= Len(Items(r)) + 1
      BY <3>1
    <3> QED
      BY <2>2, <3>4, <3>5 DEF ReceiptConsistent
  <2>3. CASE receipt'[r].pc # "stock"
    BY <2>1, <2>3 DEF ReceiptConsistent
  <2> QED
    BY <2>2, <2>3
<1>5. \A q \in Receipts \ {r} : ReceiptConsistent(q)'
  BY ReceiptStands DEF ReceiptsConsistent
<1> QED
  BY <1>3, <1>4, <1>5 DEF ReceiptsConsistent

(* The receipt fails: what its transaction entered is gone.                *)
LEMMA RollbackKeepsReceipts ==
  ASSUME DbInv, ReceiptsConsistent, NEW r \in Receipts,
         \A q \in Receipts \ {r} : HeldStay(q), Rollback(r), Reaches(r, "failed"),
         receipt[r].pc # "ok"
  PROVE  ReceiptsConsistent'
<1>1. ASSUME NEW p \in Product
      PROVE  /\ pending'[p] = IF holder[p] = r THEN committed[p] ELSE pending[p]
             /\ holder'[p] = IF holder[p] = r THEN NoReq ELSE holder[p]
             /\ committed'[p] = committed[p]
  BY DEF Rollback, Released, Row
<1>2. Imported' = Imported /\ committed' = committed
  BY DEF Imported, Reaches, Rollback
<1>3. ReceiptsBooked'
  BY <1>2 DEF ReceiptsConsistent, ReceiptsBooked
<1>4. ReceiptConsistent(r)'
  <2>1. Held(r)' = {}
    BY <1>1, ReceiptsAssumption, RowAssumption DEF Held
  <2> QED
    BY <2>1 DEF ReceiptConsistent, Reaches
<1>5. \A q \in Receipts \ {r} : ReceiptConsistent(q)'
  BY ReceiptStands DEF ReceiptsConsistent, Reaches
<1>6. ASSUME NEW p \in Product, holder'[p] \notin Receipts
      PROVE  ContinuesUnbought(committed'[p].ledger, pending'[p].ledger)
  <2>1. Len(committed[p].ledger) \in Nat
    BY LedgersTyped
  <2> QED
    BY <1>1, <1>6, <2>1, UnboughtReflexive DEF ReceiptsConsistent
<1> QED
  BY <1>3, <1>4, <1>5, <1>6 DEF ReceiptsConsistent

(* One more line is entered.                                               *)
LEMMA LineKeepsReceipts ==
  ASSUME DbInv, ReceiptsConsistent, NEW r \in Receipts,
         \A q \in Receipts \ {r} : HeldStay(q), LineStocked(r)
  PROVE  ReceiptsConsistent'
<1> DEFINE i == receipt[r].next
<1>1. PICK p \in Product, row \in ProductRow :
         /\ row.ledger = Visible(r, p).ledger
         /\ Stage(r, Write(p, StockedRow(r, row, Items(r)[i].quantity)))
  BY DEF LineStocked
<1>2. /\ receipt[r].pc = "stock" /\ i \in Nat \ {0} /\ i <= Len(Items(r))
      /\ i \in DOMAIN Items(r) /\ Len(Items(r)) \in Nat
      /\ receipt'[r].pc = "stock" /\ receipt'[r].next = i + 1
  <2>1. Items(r) \in Seq(ReceiptItem)
    BY ReceiptsAssumption DEF Items, ReceiptBody
  <2> QED
    BY <2>1 DEF LineStocked
<1> DEFINE new == StockedRow(r, row, Items(r)[i].quantity)
<1>3. PICK m \in StockMovement :
         /\ new.ledger = Append(row.ledger, m)
         /\ IsPurchase(m)
         /\ m.quantityChange = Items(r)[i].quantity /\ m.loc = ReceiptOf[r].loc
  BY <1>2, StockedLedger
<1> HIDE DEF new, i
<1>4. /\ committed' = committed
      /\ \A x \in Row : /\ pending'[x] = IF x = p THEN new ELSE pending[x]
                        /\ holder'[x] = IF x = p THEN r ELSE holder[x]
      /\ Lockable(r, p) /\ p \in Row
  BY <1>1 DEF Stage, Write, Row, new
<1>5. \A x \in Product : x \in Row
  BY DEF Row
<1>6. Visible(r, p) = pending[p]
  BY <1>4, VisibleIsPending, ReceiptsAssumption
<1> DEFINE j == Len(pending[p].ledger) + 1
           lines == StockedLines(r)
           places == NewPlaces(committed, pending, Held(r))
<1>7. /\ pending[p].ledger \in Seq(StockMovement) /\ Len(pending[p].ledger) \in Nat
      /\ committed[p].ledger \in Seq(StockMovement) /\ Len(committed[p].ledger) \in Nat
      /\ Len(committed[p].ledger) <= Len(pending[p].ledger)
  BY LedgersTyped DEF DbInv, VersionsConsistent, Continues
<1>8. /\ pending'[p].ledger = Append(pending[p].ledger, m)
      /\ Len(pending'[p].ledger) = j /\ pending'[p].ledger[j] = m
      /\ \A k \in 1 .. Len(pending[p].ledger) : pending'[p].ledger[k] = pending[p].ledger[k]
  <2> DEFINE s == pending[p].ledger
  <2>1. pending'[p].ledger = Append(s, m) /\ s \in Seq(StockMovement)
    BY <1>1, <1>3, <1>4, <1>6, <1>7
  <2> HIDE DEF s
  <2>2. /\ Len(Append(s, m)) = Len(s) + 1 /\ Append(s, m)[Len(s) + 1] = m
        /\ \A k \in 1 .. Len(s) : Append(s, m)[k] = s[k]
    BY <2>1
  <2> QED
    BY <2>1, <2>2 DEF s
<1>9. \A x \in Product : x # p => pending'[x] = pending[x] /\ holder'[x] = holder[x]
  BY <1>4, <1>5
<1>10. Held(r)' = Held(r) \cup {p}
  BY <1>4, <1>5 DEF Held
<1>11. Booked(lines, places, pending')
  <2>1. Booked(lines, places, pending)
    BY <1>2 DEF ReceiptsConsistent, ReceiptConsistent, i
  <2>2. \A e \in places : pending'[e[1]].ledger[e[2]] = pending[e[1]].ledger[e[2]]
    <3> TAKE e \in places
    <3>1. e[1] \in Held(r) /\ e[2] \in NewEntries(committed, pending, e[1])
      BY NewPlace, InNewPlaces
    <3>2. CASE e[1] = p
      <4>1. e[2] \in 1 .. Len(pending[p].ledger)
        BY <1>7, <3>1, <3>2 DEF NewEntries
      <4> QED
        BY <1>8, <3>2, <4>1
    <3>3. CASE e[1] # p
      BY <1>9, <3>1, <3>3 DEF Held
    <3> QED
      BY <3>2, <3>3
  <2> HIDE DEF lines, places
  <2> QED
    BY <2>1, <2>2, BookedElsewhere
<1>12. Booked({<<r, i>>}, {<<p, j>>}, pending')
  <2> HIDE DEF j
  <2> QED
    BY <1>3, <1>8, BookedOne
<1>13. <<r, i>> \notin lines /\ StockedLines(r)' = lines \cup {<<r, i>>}
  <2>1. lines = {r} \X (1 .. i - 1) /\ StockedLines(r)' = {r} \X (1 .. i)
    BY <1>2 DEF StockedLines, i
  <2>2. 1 .. i = (1 .. i - 1) \cup {i} /\ i \notin 1 .. i - 1
    BY <1>2
  <2> HIDE DEF lines
  <2> QED
    BY <2>1, <2>2
<1>14. <<p, j>> \notin places
  <2>1. j \notin NewEntries(committed, pending, p)
    BY <1>7 DEF NewEntries
  <2> HIDE DEF j
  <2> QED
    BY <2>1, InNewPlaces
<1>15. NewPlaces(committed', pending', Held(r)') = places \cup {<<p, j>>}
  <2>1. ASSUME NEW x, NEW k
        PROVE  <<x, k>> \in NewPlaces(committed', pending', Held(r)')
                 <=> <<x, k>> \in places \/ <<x, k>> = <<p, j>>
    <3>1. CASE x = p
      <4>1. NewEntries(committed', pending', p) = NewEntries(committed, pending, p) \cup {j}
        BY <1>4, <1>7, <1>8 DEF NewEntries
      <4>2. p \notin Held(r) => NewEntries(committed, pending, p) = {}
        <5> SUFFICES ASSUME p \notin Held(r)
                     PROVE  NewEntries(committed, pending, p) = {}
          OBVIOUS
        <5>1. pending[p] = committed[p]
          BY <1>4 DEF Held, Lockable, DbInv, VersionsConsistent
        <5> QED
          BY <1>7, <5>1 DEF NewEntries
      <4> HIDE DEF j
      <4> QED
        BY <1>10, <3>1, <4>1, <4>2, InNewPlaces
    <3>2. CASE x # p
      <4>1. x \in Held(r) => NewEntries(committed', pending', x) = NewEntries(committed, pending, x)
        BY <1>4, <1>9, <3>2 DEF NewEntries, Held
      <4> HIDE DEF j
      <4> QED
        BY <1>10, <3>2, <4>1, InNewPlaces
    <3> QED
      BY <3>1, <3>2
  <2> DEFINE after == NewPlaces(committed', pending', Held(r)')
  <2> HIDE DEF j
  <2>2. ASSUME NEW e \in after
        PROVE  e \in places \cup {<<p, j>>}
    <3>1. e = <<e[1], e[2]>>
      BY NewPlace
    <3> HIDE DEF after, places
    <3> QED
      BY <2>1, <3>1 DEF after
  <2>3. ASSUME NEW e \in places \cup {<<p, j>>}
        PROVE  e \in after
    <3>1. e = <<e[1], e[2]>>
      BY NewPlace
    <3> HIDE DEF after, places
    <3> QED
      BY <2>1, <3>1 DEF after
  <2> QED
    BY <2>2, <2>3
<1>16. ReceiptConsistent(r)'
  <2> HIDE DEF lines, places, j
  <2>1. Booked(lines \cup {<<r, i>>}, places \cup {<<p, j>>}, pending')
    BY <1>11, <1>12, <1>13, <1>14, BookedTogether
  <2>2. Booked(StockedLines(r)', NewPlaces(committed', pending', Held(r)'), pending')
    BY <1>13, <1>15, <2>1
  <2>3. receipt'[r].next <= Len(Items(r)) + 1
    BY <1>2
  <2> QED
    BY <1>2, <2>2, <2>3 DEF ReceiptConsistent
<1>17. \A q \in Receipts \ {r} : ReceiptConsistent(q)'
  BY ReceiptStands DEF ReceiptsConsistent, LineStocked
<1>18. Imported' = Imported
  BY <1>2 DEF Imported, LineStocked
<1>19. ReceiptsBooked'
  BY <1>4, <1>18 DEF ReceiptsConsistent, ReceiptsBooked
<1>20. ASSUME NEW x \in Product, holder'[x] \notin Receipts
       PROVE  ContinuesUnbought(committed'[x].ledger, pending'[x].ledger)
  <2>1. x # p
    BY <1>4, <1>20
  <2> QED
    BY <1>4, <1>9, <1>20, <2>1 DEF ReceiptsConsistent
<1> QED
  BY <1>16, <1>17, <1>19, <1>20 DEF ReceiptsConsistent

(* The receipt commits: its lines and their purchases come to the others.  *)
LEMMA BookedPurchases ==
  ASSUME NEW lines, NEW places, NEW version, Booked(lines, places, version), NEW e \in places
  PROVE  IsPurchase(version[e[1]].ledger[e[2]])
<1>1. PICK f \in [lines -> places] : Books(f, lines, places, version)
  BY DEF Booked
<1>2. PICK a \in lines : f[a] = e
  BY <1>1 DEF Books
<1> QED
  BY <1>1, <1>2 DEF Books

LEMMA CommitKeepsReceipts ==
  ASSUME DbInv, ReceiptsConsistent, NEW r \in Receipts,
         \A q \in Receipts \ {r} : HeldStay(q), Commit(r), Reaches(r, "ok"),
         receipt[r].pc = "stock", receipt[r].next \in Nat, receipt[r].next > Len(Items(r))
  PROVE  ReceiptsConsistent'
<1> DEFINE places == NewPlaces(committed, pending, Held(r))
           lines == StockedLines(r)
<1>1. ASSUME NEW p \in Product
      PROVE  /\ committed'[p] = IF p \in Held(r) THEN pending[p] ELSE committed[p]
             /\ holder'[p] = IF p \in Held(r) THEN NoReq ELSE holder[p]
             /\ pending'[p] = pending[p]
  BY DEF Commit, Released, Row, Held
<1>2. \A p \in Product :
        /\ pending[p].ledger \in Seq(StockMovement) /\ Len(pending[p].ledger) \in Nat
        /\ committed[p].ledger \in Seq(StockMovement) /\ Len(committed[p].ledger) \in Nat
        /\ Len(committed[p].ledger) <= Len(pending[p].ledger)
        /\ \A k \in 1 .. Len(committed[p].ledger) : pending[p].ledger[k] = committed[p].ledger[k]
  BY LedgersTyped DEF DbInv, VersionsConsistent, Continues
<1>3. Booked(lines, places, pending) /\ receipt[r].next <= Len(Items(r)) + 1
  BY DEF ReceiptsConsistent, ReceiptConsistent
<1>4. \A p \in Held(r) : p \in Product
  BY DEF Held
<1>5. Booked(lines, places, committed')
  <2>1. \A e \in places : committed'[e[1]].ledger[e[2]] = pending[e[1]].ledger[e[2]]
    <3> TAKE e \in places
    <3>1. e[1] \in Held(r)
      BY NewPlace, InNewPlaces
    <3> QED
      BY <1>1, <1>4, <3>1
  <2> HIDE DEF lines, places
  <2> QED
    BY <1>3, <2>1, BookedElsewhere
<1>6. Booked(LinesOf(Imported), Purchases(committed), committed')
  <2>1. \A e \in Purchases(committed) :
          committed'[e[1]].ledger[e[2]] = committed[e[1]].ledger[e[2]]
    <3> TAKE e \in Purchases(committed)
    <3>1. e[1] \in Product /\ e[2] \in DOMAIN committed[e[1]].ledger
      BY PurchasePlace, InPurchases
    <3> DEFINE p == e[1]
               k == e[2]
    <3>2. k \in 1 .. Len(committed[p].ledger)
      BY <1>2, <3>1
    <3> QED
      BY <1>1, <1>2, <3>1, <3>2, SMTT(20)
  <2> QED
    BY <2>1, BookedElsewhere DEF ReceiptsConsistent, ReceiptsBooked
<1>7. Imported' = Imported \cup {r} /\ r \notin Imported
  BY DEF Imported, Reaches
<1>8. LinesOf(Imported') = LinesOf(Imported) \cup lines /\ LinesOf(Imported) \cap lines = {}
  <2>1. Items(r) \in Seq(ReceiptItem)
    BY ReceiptsAssumption DEF Items, ReceiptBody
  <2>2. DOMAIN Items(r) = 1 .. receipt[r].next - 1
    BY <1>3, <2>1
  <2>3. lines = {r} \X DOMAIN Items(r)
    BY <2>2 DEF StockedLines
  <2> HIDE DEF lines
  <2>4. LinesOf(Imported) \cap lines = {}
    BY <1>7, <2>3 DEF LinesOf
  <2> QED
    BY <1>7, <2>3, <2>4 DEF LinesOf
<1>9. Purchases(committed) \cap places = {}
  <2> SUFFICES ASSUME NEW e \in Purchases(committed), e \in places
               PROVE  FALSE
    OBVIOUS
  <2> DEFINE p == e[1]
             k == e[2]
  <2>1. p \in Product /\ k \in DOMAIN committed[p].ledger
    BY PurchasePlace, InPurchases
  <2>2. k \in NewEntries(committed, pending, p)
    BY NewPlace, InNewPlaces
  <2> HIDE DEF p, k
  <2> QED
    BY <1>2, <2>1, <2>2 DEF NewEntries
<1>10. Purchases(committed') = Purchases(committed) \cup places
  <2>1. ASSUME NEW p \in Held(r), NEW k
        PROVE  k \in DOMAIN committed'[p].ledger
                 <=> k \in DOMAIN committed[p].ledger \/ k \in NewEntries(committed, pending, p)
    <3> DEFINE s == committed[p].ledger
               t == pending[p].ledger
    <3>1. s \in Seq(StockMovement) /\ t \in Seq(StockMovement) /\ Len(s) <= Len(t)
      BY <1>2, <1>4
    <3>2. committed'[p].ledger = t
      BY <1>1, <1>4
    <3> HIDE DEF s, t
    <3>3. k \in DOMAIN t <=> k \in DOMAIN s \/ k \in Len(s) + 1 .. Len(t)
      BY <3>1
    <3> QED
      BY <3>2, <3>3 DEF NewEntries, s, t
  <2>2. ASSUME NEW p \in Held(r), NEW k \in DOMAIN committed[p].ledger
        PROVE  committed'[p].ledger[k] = committed[p].ledger[k]
    <3> DEFINE s == committed[p].ledger
               t == pending[p].ledger
    <3>1. s \in Seq(StockMovement) /\ k \in DOMAIN s /\ \A i \in 1 .. Len(s) : t[i] = s[i]
      BY <1>2, <1>4
    <3>2. committed'[p].ledger = t
      BY <1>1, <1>4
    <3> HIDE DEF s, t
    <3>3. t[k] = s[k]
      BY <3>1
    <3> QED
      BY <3>2, <3>3 DEF s, t
  <2>3. ASSUME NEW p \in Held(r), NEW k \in NewEntries(committed, pending, p)
        PROVE  IsPurchase(committed'[p].ledger[k])
    <3>1. <<p, k>> \in places
      BY InNewPlaces
    <3> HIDE DEF places, lines
    <3>2. IsPurchase(pending[<<p, k>>[1]].ledger[<<p, k>>[2]])
      BY <1>3, <3>1, BookedPurchases
    <3> QED
      BY <1>1, <1>4, <3>2
  <2>4. ASSUME NEW p, NEW k
        PROVE  <<p, k>> \in Purchases(committed')
                 <=> <<p, k>> \in Purchases(committed) \/ <<p, k>> \in places
    <3>1. CASE p \in Held(r)
      BY <1>4, <2>1, <2>2, <2>3, <3>1, InPurchases, InNewPlaces
    <3>2. CASE p \notin Held(r)
      <4>1. p \in Product => committed'[p] = committed[p]
        BY <1>1, <3>2
      <4> QED
        BY <3>2, <4>1, InPurchases, InNewPlaces
    <3> QED
      BY <3>1, <3>2
  <2> HIDE DEF places
  <2>5. ASSUME NEW e \in Purchases(committed')
        PROVE  e \in Purchases(committed) \cup places
    BY <2>4, PurchasePlace
  <2>6. ASSUME NEW e \in Purchases(committed)
        PROVE  e \in Purchases(committed')
    BY <2>4, PurchasePlace
  <2>7. ASSUME NEW e \in places
        PROVE  e \in Purchases(committed')
    BY <2>4, NewPlace DEF places
  <2> QED
    BY <2>5, <2>6, <2>7
<1>11. ReceiptsBooked'
  <2> HIDE DEF lines, places
  <2>1. Booked(LinesOf(Imported) \cup lines, Purchases(committed) \cup places, committed')
    BY <1>5, <1>6, <1>8, <1>9, BookedTogether
  <2> QED
    BY <1>8, <1>10, <2>1 DEF ReceiptsBooked
<1>12. ReceiptConsistent(r)'
  <2>1. Held(r)' = {}
    <3>1. \A p \in Product : holder'[p] # r
      BY <1>1, ReceiptsAssumption, RowAssumption DEF Held
    <3> QED
      BY <3>1 DEF Held
  <2> QED
    BY <2>1 DEF ReceiptConsistent, Reaches
<1>13. \A q \in Receipts \ {r} : ReceiptConsistent(q)'
  BY ReceiptStands DEF ReceiptsConsistent, Reaches
<1>14. ASSUME NEW p \in Product, holder'[p] \notin Receipts
       PROVE  ContinuesUnbought(committed'[p].ledger, pending'[p].ledger)
  BY <1>1, <1>2, <1>14, UnboughtReflexive DEF ReceiptsConsistent
<1> QED
  BY <1>11, <1>12, <1>13, <1>14 DEF ReceiptsConsistent

LEMMA ReceiptsNextBooked ==
  ASSUME DbInv, TypeOKReceipts, ReceiptsConsistent, ReceiptsNext
  PROVE  ReceiptsConsistent'
<1>1. PICK r \in Receipts : PreviewReceiptImport(r) \/ ReceiptStep(r) \/ AbortReceipt(r)
  BY DEF ReceiptsNext
<1>2. ASSUME NEW q \in Receipts \ {r}
      PROVE  HeldStay(q)
  <2>1. q \in Req \ {r}
    BY ReceiptsAssumption
  <2> QED
    BY <1>1, <2>1, ReceiptsSpareAudits, SparingHeld
<1>3. ReceiptOK(receipt[r]) /\ DOMAIN receipt = Receipts
  BY ReceiptLocals DEF TypeOKReceipts
<1>4. ASSUME UNCHANGED dbVars, NEW pc \in {"reserve", "match", "supplier", "stock", "failed"},
             receipt[r].pc \notin {"stock", "ok"}, Reaches(r, pc),
             pc \in {"supplier", "stock"} => receipt'[r].next = 1
      PROVE  ReceiptsConsistent'
  <2>1. \A q \in Receipts \ {r} : HeldStay(q) /\ receipt'[q] = receipt[q]
    BY <1>2, <1>4 DEF Reaches
  <2> QED
    BY <1>4, <2>1, BeforeLinesKeepsReceipts DEF dbVars, Reaches
<1>5. CASE PreviewReceiptImport(r)
  <2>1. receipt[r].pc = "idle" /\ UNCHANGED dbVars
    BY <1>5 DEF PreviewReceiptImport
  <2>2. receipt' = [receipt EXCEPT ![r].pc = "reserve"] => Reaches(r, "reserve")
    BY <1>3 DEF Reaches
  <2>3. Reaches(r, "reserve") \/ Reaches(r, "failed")
    BY <1>5, <2>2, EndReaches DEF PreviewReceiptImport
  <2> QED
    BY <1>4, <2>1, <2>3
<1>6. CASE ReserveIdempotencyKey(r)
  <2> DEFINE key == ReceiptOf[r].key
  <2>1. /\ receipt[r].pc = "reserve"
        /\ \/ UNCHANGED dbVars /\ receipt' = [receipt EXCEPT ![r].pc = "match"]
           \/ UNCHANGED dbVars /\ EndReceipt(r, "failed")
           \/ /\ key # NoKey /\ Claimed(r, key)
              /\ receipt' = [receipt EXCEPT ![r].pc = "match"]
    BY <1>6 DEF ReserveIdempotencyKey
  <2> HIDE DEF key
  <2>4. receipt' = [receipt EXCEPT ![r].pc = "match"] => Reaches(r, "match")
    BY DEF TypeOKReceipts, Reaches
  <2>2. \/ UNCHANGED dbVars /\ (Reaches(r, "match") \/ Reaches(r, "failed"))
        \/ /\ key # NoKey /\ Stage(r, Write(key, [used |-> TRUE])) /\ Reaches(r, "match")
    BY <2>1, <2>4, EndReaches DEF Claimed
  <2>3. CASE key # NoKey /\ Stage(r, Write(key, [used |-> TRUE])) /\ Reaches(r, "match")
    <3>1. key \in IdempotencyKey
      BY <2>3, ReceiptsAssumption DEF ReceiptBody, key
    <3>2. \A p \in Product : /\ holder'[p] = holder[p]
                             /\ committed'[p] = committed[p] /\ pending'[p] = pending[p]
      BY <2>3, <3>1, RowAssumption DEF Stage, Write, Row
    <3>3. \A q \in Receipts \ {r} : HeldStay(q) /\ receipt'[q] = receipt[q]
      BY <1>2, <2>3 DEF Reaches
    <3> QED
      BY <2>1, <2>3, <3>2, <3>3, BeforeLinesKeepsReceipts DEF Reaches
  <2> QED
    BY <1>4, <2>1, <2>2, <2>3
<1>7. CASE BuildProductMatchMap(r)
  <2> DEFINE field == MatchField[receipt[r].next]
  <2>1. PICK map : receipt' = [receipt EXCEPT
               ![r].matches[field] = map,
               ![r].pc = IF field = "name" THEN "supplier" ELSE "match",
               ![r].next = IF field = "name" THEN 1 ELSE @ + 1]
    BY <1>7 DEF BuildProductMatchMap
  <2> HIDE DEF field
  <2>2. (Reaches(r, "supplier") /\ receipt'[r].next = 1) \/ Reaches(r, "match")
    BY <1>3, <2>1 DEF Reaches, ReceiptOK
  <2>3. UNCHANGED dbVars /\ receipt[r].pc = "match"
    BY <1>7 DEF BuildProductMatchMap
  <2> QED
    BY <1>4, <2>2, <2>3
<1>8. CASE FindOrCreateSupplier(r)
  <2>1. PICK s : receipt' = [receipt EXCEPT ![r].pc = "stock", ![r].supplier = s]
    BY <1>8 DEF FindOrCreateSupplier
  <2>2. UNCHANGED dbVars /\ receipt[r].pc = "supplier"
    BY <1>8 DEF FindOrCreateSupplier
  <2>3. receipt[r].next = 1
    BY <2>2 DEF ReceiptsConsistent, ReceiptConsistent
  <2>4. Reaches(r, "stock") /\ receipt'[r].next = 1
    BY <1>3, <2>1, <2>3 DEF Reaches, ReceiptOK
  <2> QED
    BY <1>4, <2>2, <2>4
<1>9. CASE StockReceiptLine(r)
  <2>1. receipt[r].pc = "stock"
    BY <1>9 DEF StockReceiptLine
  <2>2. CASE LineStocked(r)
    BY <1>2, <2>2, LineKeepsReceipts
  <2>3. CASE Rollback(r) /\ EndReceipt(r, "failed")
    BY <1>2, <2>1, <2>3, EndReaches, RollbackKeepsReceipts
  <2> QED
    BY <1>9, <2>2, <2>3, LineStocks
<1>10. CASE CommitReceipt(r)
  <2>1. receipt[r].next \in Nat
    BY <1>3 DEF ReceiptOK
  <2>2. Reaches(r, "ok")
    BY <1>10, EndReaches DEF CommitReceipt
  <2> QED
    BY <1>2, <1>10, <2>1, <2>2, CommitKeepsReceipts DEF CommitReceipt
<1>11. CASE AbortReceipt(r)
  BY <1>2, <1>11, EndReaches, RollbackKeepsReceipts DEF AbortReceipt
<1> QED
  BY <1>1, <1>5, <1>6, <1>7, <1>8, <1>9, <1>10, <1>11 DEF ReceiptStep

(* What the other handlers enter is no purchase of a receipt.              *)
LEMMA PostedUnbought ==
  ASSUME NEW row \in ProductRow, NEW type \in SystemKey, NEW delta \in Int,
         NEW u \in Unit \cup {NoUnit}, NEW loc \in Location \cup {NoLocation},
         NEW s \in Sale \cup {NoSale}, NEW item \in Nat, type # "PURCHASE" \/ u # NoUnit
  PROVE  ContinuesUnbought(row.ledger, Posted(row, type, delta, u, loc, s, item).ledger)
<1> DEFINE m == Movement(type, delta, row.quantityOnHand + delta, u, loc, s, item)
           old == row.ledger
           new == Posted(row, type, delta, u, loc, s, item).ledger
<1>1. new = Append(old, m) /\ m \in StockMovement
  BY PostedLedger, ZenonT(30)
<1>2. old \in Seq(StockMovement)
  BY LedgerType
<1>3. ~ IsPurchase(m)
  BY DEF IsPurchase, Movement
<1> HIDE DEF m, old, new
<1>4. ContinuesUnbought(old, Append(old, m))
  BY <1>1, <1>2, <1>3 DEF ContinuesUnbought, Continues
<1> QED
  BY <1>1, <1>4 DEF old, new

LEMMA UnboughtConcat ==
  ASSUME NEW s \in Seq(StockMovement), NEW batch \in Seq(StockMovement),
         \A i \in 1 .. Len(batch) : ~ IsPurchase(batch[i])
  PROVE  ContinuesUnbought(s, s \o batch)
<1> DEFINE t == s \o batch
<1>1. /\ t \in Seq(StockMovement) /\ Len(t) = Len(s) + Len(batch)
      /\ \A i \in 1 .. Len(s) + Len(batch) :
            t[i] = IF i <= Len(s) THEN s[i] ELSE batch[i - Len(s)]
  BY ConcatProperties
<1> HIDE DEF t
<1>2. Continues(s, t)
  BY <1>1 DEF Continues
<1>3. ASSUME NEW i \in Len(s) + 1 .. Len(t)
      PROVE  ~ IsPurchase(t[i])
  <2>1. ~ (i <= Len(s)) /\ i - Len(s) \in 1 .. Len(batch) /\ i \in 1 .. Len(s) + Len(batch)
    BY <1>1
  <2> QED
    BY <1>1, <2>1
<1> QED
  BY <1>2, <1>3 DEF ContinuesUnbought, t

LEMMA StockUnbuys ==
  ASSUME NEW q, NEW p \in Product, NEW row, NEW unitRows, DOMAIN unitRows \subseteq Unit,
         Stage(q, WriteStock(p, row, unitRows)),
         ContinuesUnbought(Visible(q, p).ledger, row.ledger)
  PROVE  Unbuying(q)
<1> DEFINE rows == WriteStock(p, row, unitRows)
<1>1. DOMAIN rows = {p} \cup DOMAIN unitRows /\ rows[p] = row
  BY DEF WriteStock
<1> HIDE DEF rows
<1>2. \A x \in Product \cap DOMAIN rows : x = p
  BY <1>1, RowAssumption
<1>3. Stage(q, rows)
  BY DEF rows
<1> QED
  BY <1>1, <1>2, <1>3 DEF Unbuying

LEMMA RowUnbuys ==
  ASSUME NEW q, NEW x, NEW value, x \notin Product,
         Stage(q, Write(x, value)) \/ AutoCommit(Write(x, value))
  PROVE  Unbuying(q)
<1> DEFINE rows == Write(x, value)
<1>1. Product \cap DOMAIN rows = {}
  BY DEF Write
<1>2. Stage(q, rows) \/ AutoCommit(rows)
  OBVIOUS
<1> HIDE DEF rows
<1> QED
  BY <1>1, <1>2 DEF Unbuying

LEMMA PosUnbuys ==
  ASSUME DbInv, PosInv, PosNext
  PROVE  \E q \in PosReq : Unbuying(q)
<1>1. ASSUME NEW r \in Checkouts, BeginCheckout(r) \/ CheckoutStep(r) \/ AbortCheckout(r)
      PROVE  Unbuying(r)
  <2> DEFINE c == checkout[r]
  <2>1. CASE BeginCheckout(r) \/ PrepareSaleLine(r) \/ CommitCheckout(r) \/ AbortCheckout(r)
    BY <2>1 DEF BeginCheckout, PrepareSaleLine, CommitCheckout, AbortCheckout, Unbuying
  <2>2. CASE CreateSale(r)
    <3>1. SaleOf[r] \notin Product
      BY PosAssumption, RowAssumption
    <3>2. CASE UNCHANGED dbVars
      BY <3>2 DEF Unbuying
    <3> QED
      BY <2>2, <3>1, <3>2, RowUnbuys DEF CreateSale
  <2>3. CASE SellLine(r)
    <3> DEFINE line == c.lines[c.next]
               loc == c.loc[c.next]
               sold == [u \in {line.unit} \ {NoUnit} |-> [status |-> "SOLD", loc |-> NoLocation]]
    <3>1. c \in CheckoutState /\ c.pc = "sell" /\ c.next <= Len(c.lines)
      BY <2>3 DEF SellLine, PosInv, TypeOKPos
    <3>2. line \in SaleLine /\ loc \in Location \cup {NoLocation} /\ c.next \in Nat
      <4>1. Len(c.loc) >= Len(c.lines)
        BY <3>1 DEF PosInv, PosLocalsConsistent
      <4> QED
        BY <3>1, <4>1 DEF CheckoutState
    <3>3. line.product \in Product /\ line.unit \in Unit \cup {NoUnit} /\ -line.quantity \in Int
          /\ DOMAIN sold \subseteq Unit
      BY <3>2 DEF SaleLine
    <3>4. CASE Rollback(r)
      BY <3>4 DEF Unbuying
    <3>5. Visible(r, line.product) \in ProductRow /\ SaleOf[r] \in Sale \cup {NoSale}
          /\ "SALE" \in SystemKey
      BY <3>3, VisibleOK, PosAssumption DEF RowOK, Row, SystemKey
    <3>6. ContinuesUnbought(Visible(r, line.product).ledger,
                            SoldRow(r, line, loc, c.next).ledger)
      <4> HIDE DEF line, loc, c
      <4> QED
        BY <3>2, <3>3, <3>5, PostedUnbought DEF SoldRow
    <3>7. Rollback(r) \/ Stage(r, WriteStock(line.product, SoldRow(r, line, loc, c.next), sold))
      BY <2>3 DEF SellLine
    <3> QED
      BY <3>3, <3>4, <3>6, <3>7, StockUnbuys
  <2> QED
    BY <1>1, <2>1, <2>2, <2>3 DEF CheckoutStep
<1>2. ASSUME NEW r \in Voids, ReadSale(r) \/ VoidStep(r) \/ AbortVoid(r)
      PROVE  Unbuying(r)
  <2> DEFINE v == void[r]
  <2>1. CASE ReadSale(r) \/ CommitVoid(r) \/ AbortVoid(r)
    BY <2>1 DEF ReadSale, CommitVoid, AbortVoid, Unbuying
  <2>2. CASE MarkVoided(r)
    <3>1. VoidTarget[r] \notin Product
      BY PosAssumption, RowAssumption
    <3> QED
      BY <2>2, <3>1, RowUnbuys DEF MarkVoided
  <2>3. CASE RestoreLine(r)
    <3> DEFINE line == v.lines[v.next]
               loc == v.loc[v.next]
               returned == [u \in {line.unit} \ {NoUnit} |-> [status |-> "RETURNED", loc |-> loc]]
    <3>1. v \in VoidState /\ v.pc = "restore" /\ v.next <= Len(v.lines)
      BY <2>3 DEF RestoreLine, PosInv, TypeOKPos
    <3>2. line \in SaleLine /\ loc \in Location \cup {NoLocation} /\ v.next \in Nat
      <4>1. Len(v.loc) = Len(v.lines)
        BY <3>1 DEF PosInv, PosLocalsConsistent
      <4> QED
        BY <3>1, <4>1 DEF VoidState
    <3>3. line.product \in Product /\ line.unit \in Unit \cup {NoUnit} /\ line.quantity \in Int
          /\ DOMAIN returned \subseteq Unit
      BY <3>2 DEF SaleLine
    <3>5. Visible(r, line.product) \in ProductRow /\ VoidTarget[r] \in Sale \cup {NoSale}
          /\ "RETURN" \in SystemKey
      BY <3>3, VisibleOK, PosAssumption DEF RowOK, Row, SystemKey
    <3>6. ContinuesUnbought(Visible(r, line.product).ledger,
                            RestoredRow(r, line, loc, v.next).ledger)
      <4> HIDE DEF line, loc, v
      <4> QED
        BY <3>2, <3>3, <3>5, PostedUnbought DEF RestoredRow
    <3>7. Stage(r, WriteStock(line.product, RestoredRow(r, line, loc, v.next), returned))
      BY <2>3 DEF RestoreLine
    <3> QED
      BY <3>3, <3>6, <3>7, StockUnbuys
  <2> QED
    BY <1>2, <2>1, <2>2, <2>3 DEF VoidStep
<1> QED
  BY <1>1, <1>2 DEF PosNext, PosReq

LEMMA UnitsUnbuy ==
  ASSUME DbInv, TypeOKUnits, UnitsNext
  PROVE  \E q \in Changes \cup Edits \cup Registrations : Unbuying(q)
<1>1. ASSUME NEW r \in Changes, ReadForChange(r) \/ ChangeStep(r) \/ AbortChange(r)
      PROVE  Unbuying(r)
  <2>1. CASE ReadForChange(r) \/ CommitChange(r) \/ AbortChange(r)
    BY <2>1 DEF ReadForChange, CommitChange, AbortChange, Unbuying
  <2>2. CASE WriteStatus(r) \/ WriteStatusAndQuantity(r)
    <3> DEFINE u == change[r].body.unit
               p == ProductOf[u]
               c == change[r]
    <3>1. /\ ChangedUnit(r) \in UnitRow /\ u \in Unit /\ c.key \in SystemKey /\ c.delta \in Int
          /\ c.loc \in Location \cup {NoLocation}
      BY <2>2, ChangedUnitType DEF WriteStatus, WriteStatusAndQuantity
    <3>2. p \in Product /\ u \notin Product /\ u # NoUnit /\ u \in Unit \cup {NoUnit}
      BY <3>1, OpeningAssumption, RowAssumption
    <3>3. CASE WriteStatus(r)
      BY <3>2, <3>3, RowUnbuys DEF WriteStatus
    <3>4. CASE WriteStatusAndQuantity(r)
      <4>1. Rollback(r) \/ Stage(r, WriteStock(p, ChangedRow(r), Write(u, ChangedUnit(r))))
        BY <3>4 DEF WriteStatusAndQuantity
      <4>2. DOMAIN Write(u, ChangedUnit(r)) \subseteq Unit
        BY <3>1 DEF Write
      <4>3. CASE Rollback(r)
        BY <4>3 DEF Unbuying
      <4>4. Visible(r, p) \in ProductRow /\ NoSale \in Sale \cup {NoSale} /\ 0 \in Nat
        BY <3>2, VisibleOK DEF RowOK, Row
      <4>5. ChangedRow(r) = Posted(Visible(r, p), c.key, c.delta, u, c.loc, NoSale, 0)
        BY DEF ChangedRow
      <4>6. ContinuesUnbought(Visible(r, p).ledger, ChangedRow(r).ledger)
        <5> HIDE DEF u, p, c
        <5> QED
          BY <3>1, <3>2, <4>4, <4>5, PostedUnbought
      <4> QED
        BY <3>2, <4>1, <4>2, <4>3, <4>6, StockUnbuys
    <3> QED
      BY <2>2, <3>3, <3>4
  <2> QED
    BY <1>1, <2>1, <2>2 DEF ChangeStep
<1>2. ASSUME NEW r \in Edits, ReadForEdit(r) \/ WriteLocation(r) \/ AbortEdit(r)
      PROVE  Unbuying(r)
  <2>1. CASE WriteLocation(r)
    <3>1. edit[r].body.unit \in Unit
      BY <2>1 DEF WriteLocation, TypeOKUnits, EditState, EditBody
    <3>2. edit[r].body.unit \notin Product
      BY <3>1, RowAssumption
    <3> QED
      BY <2>1, <3>2, RowUnbuys DEF WriteLocation
  <2>2. CASE ReadForEdit(r) \/ AbortEdit(r)
    BY <2>2 DEF ReadForEdit, AbortEdit, Unbuying
  <2> QED
    BY <1>2, <2>1, <2>2
<1>3. ASSUME NEW r \in Registrations,
             CheckRegistration(r) \/ RegistrationStep(r) \/ AbortRegistration(r)
      PROVE  Unbuying(r)
  <2>1. CASE CreateUnits(r)
    <3> DEFINE body == RegistrationOf[r]
               p == body.product
               row == RegisteredRow(Visible(r, p), body)
               created == [u \in NewUnits(body) |-> [status |-> "IN_STOCK", loc |-> body.loc]]
    <3>1. body \in RegistrationBody
      BY UnitsAssumption
    <3>2. p \in Product /\ DOMAIN created \subseteq Unit
      BY <3>1 DEF RegistrationBody, NewUnits
    <3>3. Visible(r, p) \in ProductRow
      BY <3>2, UnitsAssumption, VisibleOK DEF RowOK, Row
    <3>4. PICK batch \in Seq(StockMovement) :
             /\ row.ledger = Visible(r, p).ledger \o batch
             /\ \A i \in 1 .. Len(batch) : batch[i].unit \in Unit
      BY <3>1, <3>3, RegisteredLedger
    <3>5. \A i \in 1 .. Len(batch) : ~ IsPurchase(batch[i])
      BY <3>4, RowAssumption DEF IsPurchase
    <3>6. Stage(r, WriteStock(p, row, created))
      BY <2>1 DEF CreateUnits
    <3> HIDE DEF p, row, created
    <3>7. ContinuesUnbought(Visible(r, p).ledger, row.ledger)
      BY <3>3, <3>4, <3>5, LedgerType, UnboughtConcat
    <3> QED
      BY <3>2, <3>6, <3>7, StockUnbuys
  <2>2. CASE CheckRegistration(r) \/ CommitRegistration(r) \/ AbortRegistration(r)
    BY <2>2 DEF CheckRegistration, CommitRegistration, AbortRegistration, Unbuying
  <2> QED
    BY <1>3, <2>1, <2>2 DEF RegistrationStep
<1> QED
  BY <1>1, <1>2, <1>3 DEF UnitsNext

LEMMA RecordsUnbuy ==
  ASSUME DbInv, TypeOKRecords, RecordsNext
  PROVE  \E q \in Records : Unbuying(q)
<1>1. PICK r \in Records : BeginRecord(r) \/ RecordStep(r) \/ AbortRecord(r)
  BY DEF RecordsNext
<1>2. CASE BeginRecord(r) \/ ValidateRefs(r) \/ CommitRecord(r) \/ AbortRecord(r)
  BY <1>2 DEF BeginRecord, ValidateRefs, CommitRecord, AbortRecord, Unbuying
<1>3. CASE WriteMovement(r)
  <2> DEFINE body == record[r].body
             p == body.product
             noUnits == [u \in {} |-> Unregistered]
  <2>1. body \in RecordBody /\ record[r].delta \in Int
    BY <1>3 DEF WriteMovement, TypeOKRecords, RecordState
  <2>2. p \in Product /\ body.loc \in Location \cup {NoLocation}
    BY <2>1 DEF RecordBody
  <2>3. CASE Rollback(r)
    BY <2>3 DEF Unbuying
  <2>4. CASE Stage(r, Write(p, RecordedRow(r)))
    <3>1. RecordedRow(r) = Posted(Visible(r, p), "MANUAL", record[r].delta, NoUnit, body.loc,
                                  NoSale, 0)
      BY DEF RecordedRow
    <3>2. /\ "MANUAL" \in SystemKey /\ NoSale \in Sale \cup {NoSale} /\ 0 \in Nat
          /\ NoUnit \in Unit \cup {NoUnit}
      BY DEF SystemKey
    <3>3. Visible(r, p) \in ProductRow
      BY <2>2, VisibleOK, RecordsAssumption DEF RowOK, Row
    <3>4. Write(p, RecordedRow(r)) = WriteStock(p, RecordedRow(r), noUnits)
      BY DEF Write, WriteStock
    <3>5. DOMAIN noUnits \subseteq Unit
      OBVIOUS
    <3> HIDE DEF noUnits, p, body
    <3>6. ContinuesUnbought(Visible(r, p).ledger, RecordedRow(r).ledger)
      BY <2>1, <2>2, <3>1, <3>2, <3>3, PostedUnbought
    <3> QED
      BY <2>2, <2>4, <3>4, <3>5, <3>6, StockUnbuys
  <2> QED
    BY <1>3, <2>3, <2>4 DEF WriteMovement
<1> QED
  BY <1>1, <1>2, <1>3 DEF RecordStep

LEMMA CatalogUnbuys ==
  ASSUME DbInv, TypeOKCatalog, CatalogNext
  PROVE  \E q \in CatalogReq : Unbuying(q)
<1>1. ASSUME NEW r \in CatalogReq, WriteProduct(r)
      PROVE  Unbuying(r)
  <2> DEFINE p == catalog[r].product
             card == Patched(committed[p].card, catalog[r].body)
             rows == Write(p, Catalogued(r, committed[p], card))
  <2>1. p \in Product
    BY <1>1 DEF TypeOKCatalog, WriteProduct, CatalogWrite
  <2>2. committed[p] \in ProductRow
    BY <2>1 DEF DbInv, TypeOKDb, DbTypeOK
  <2>3. UNCHANGED dbVars \/ AutoCommit(rows)
    BY <1>1 DEF WriteProduct
  <2>4. DOMAIN rows = {p} /\ rows[p].ledger = committed[p].ledger
    <3> HIDE DEF p, card
    <3> QED
      BY <2>2, CataloguedLedger DEF Write
  <2> HIDE DEF p, rows
  <2> QED
    BY <2>3, <2>4 DEF Unbuying
<1>2. ASSUME NEW r \in CatalogReq, UNCHANGED dbVars
      PROVE  Unbuying(r)
  BY <1>2 DEF Unbuying
<1> QED
  BY <1>1, <1>2
     DEF CatalogNext, CatalogReq, ReadForArchive, ReadForUpdate, ReadForCreate, AbortCatalog

LEMMA AuditsUnbuy ==
  ASSUME DbInv, TypeOKAudits, AuditsNext
  PROVE  \E q \in Creations \cup Scanners \cup Completions \cup Cancellations : Unbuying(q)
<1>1. ASSUME NEW a \in Audit
      PROVE  a \notin Product
  BY RowAssumption
<1>2. ASSUME NEW r \in Creations \cup Scanners,
             CreateInventoryAudit(r) \/ ScanStep(r) \/ AbortScan(r)
      PROVE  Unbuying(r)
  <2>1. CASE CreateInventoryAudit(r)
    BY <1>1, <2>1, AuditRequest, RowUnbuys DEF CreateInventoryAudit
  <2>2. CASE ScanStep(r) \/ AbortScan(r)
    BY <2>2 DEF ScanStep, ReadAuditHeader, ResolveScans, InsertScans, AbortScan, Unbuying
  <2> QED
    BY <1>2, <2>1, <2>2
<1>3. ASSUME NEW r \in Cancellations,
             ReadForCancel(r) \/ WriteCancelled(r) \/ AbortCancel(r)
      PROVE  Unbuying(r)
  <2>1. CASE WriteCancelled(r)
    BY <1>1, <2>1, AuditRequest, RowUnbuys DEF WriteCancelled
  <2>2. CASE ReadForCancel(r) \/ AbortCancel(r)
    BY <2>2 DEF ReadForCancel, AbortCancel, Unbuying
  <2> QED
    BY <1>3, <2>1, <2>2
<1>4. ASSUME NEW r \in Completions,
             ReadForCompletion(r) \/ CompletionStep(r) \/ AbortCompletion(r)
      PROVE  Unbuying(r)
  <2>1. CASE ReadForCompletion(r) \/ RefreshScanResults(r) \/ PlanUnitTransitions(r)
             \/ CommitCompletion(r) \/ AbortCompletion(r)
    BY <2>1 DEF ReadForCompletion, RefreshScanResults, PlanUnitTransitions, CommitCompletion,
                AbortCompletion, Unbuying
  <2>2. CASE ClaimAudit(r)
    <3>1. UNCHANGED dbVars \/ Stage(r, Write(AuditOf[r], [status |-> "COMPLETED"]))
      BY <2>2 DEF ClaimAudit
    <3>2. CASE UNCHANGED dbVars
      BY <3>2 DEF Unbuying
    <3> QED
      BY <1>1, <3>1, <3>2, AuditRequest, RowUnbuys
  <2>3. CASE ReconcileProduct(r)
    <3> DEFINE c == completing[r]
               planned(p) == {tr \in c.todo : ProductOf[tr.unit] = p}
               applied(p) == Applied(r, planned(p))
               shifts(p) == SetToSeq({tr \in applied(p) : Shift(tr) # 0})
               loc == AuditLocation[AuditOf[r]]
               row(p) == AdjustedRow(Visible(r, p), shifts(p), loc)
               units(p) == [u \in {tr.unit : tr \in applied(p)} |->
                              ReconciledUnit(r, planned(p), u)]
    <3>1. r \in Req /\ loc \in Location
      BY AuditRequest, AuditAssumption
    <3>2. c.todo \in SUBSET UnitTransition
      BY DEF TypeOKAudits, CompletionState
    <3>3. PICK p \in NextProducts(c.todo) :
            Rollback(r) \/ Stage(r, WriteStock(p, row(p), units(p)))
      BY <2>3 DEF ReconcileProduct
    <3>4. p \in Product
      <4>1. p \in {ProductOf[tr.unit] : tr \in c.todo}
        BY DEF NextProducts
      <4> QED
        BY <3>2, <4>1, OpeningAssumption DEF UnitTransition
    <3>5. applied(p) \in SUBSET UnitTransition
      BY <3>2 DEF Applied, HomeApplied
    <3>6. CASE Rollback(r)
      BY <3>6 DEF Unbuying
    <3>7. CASE Stage(r, WriteStock(p, row(p), units(p)))
      <4>1. shifts(p) \in Seq(UnitTransition)
        BY <3>5, TransitionSequence
      <4>2. Visible(r, p) \in ProductRow
        BY <3>1, <3>4, VisibleOK DEF RowOK, Row
      <4>3. DOMAIN units(p) \subseteq Unit
        <5>1. ASSUME NEW u \in {tr.unit : tr \in applied(p)}
              PROVE  u \in Unit
          BY <3>5 DEF UnitTransition
        <5> QED
          BY <5>1
      <4> HIDE DEF shifts, units, loc
      <4>4. PICK batch \in Seq(StockMovement) :
               /\ row(p).ledger = Visible(r, p).ledger \o batch
               /\ \A i \in 1 .. Len(batch) : batch[i].type = "ADJUSTMENT"
        BY <3>1, <4>1, <4>2, AdjustedLedger
      <4>5. \A i \in 1 .. Len(batch) : ~ IsPurchase(batch[i])
        BY <4>4 DEF IsPurchase
      <4> HIDE DEF row
      <4>6. ContinuesUnbought(Visible(r, p).ledger, row(p).ledger)
        BY <4>2, <4>4, <4>5, LedgerType, UnboughtConcat
      <4> QED
        BY <3>4, <3>7, <4>3, <4>6, StockUnbuys
    <3> QED
      BY <3>3, <3>6, <3>7
  <2> QED
    BY <1>4, <2>1, <2>2, <2>3 DEF CompletionStep
<1> QED
  BY <1>2, <1>3, <1>4 DEF AuditsNext

LEMMA InitReceiptsConsistent == Init => ReceiptsConsistent
<1> SUFFICES ASSUME Init
             PROVE  ReceiptsConsistent
  OBVIOUS
<1>1. \A x \in Row : holder[x] = NoReq
  BY DEF Init, InitDb
<1>2. \A p \in Product : committed[p].ledger = <<>> /\ pending[p].ledger = <<>> /\ p \in Row
  BY DEF Init, InitDb, OpeningRow, Row
<1>3. \A r \in Receipts : receipt[r].pc = "idle" /\ r # NoReq
  BY ReceiptsAssumption, RowAssumption DEF Init, InitReceiptLocals, AtReceipt
<1>4. Imported = {} /\ LinesOf(Imported) = {}
  BY <1>3 DEF Imported, LinesOf
<1>5. Purchases(committed) = {}
  BY <1>2 DEF Purchases
<1>6. ReceiptsBooked
  BY <1>4, <1>5, BookedNone DEF ReceiptsBooked
<1>7. \A r \in Receipts : ReceiptConsistent(r)
  BY <1>1, <1>2, <1>3 DEF ReceiptConsistent, Held
<1>8. ASSUME NEW p \in Product
      PROVE  ContinuesUnbought(committed[p].ledger, pending[p].ledger)
  <2>1. Len(committed[p].ledger) \in Nat /\ pending[p].ledger = committed[p].ledger
    BY <1>2
  <2> QED
    BY <2>1, UnboughtReflexive
<1> QED
  BY <1>6, <1>7, <1>8 DEF ReceiptsConsistent

LEMMA NextKeepsReceipts ==
  ASSUME StockInv, StockInv', ReceiptsConsistent, [Next \/ Done]_vars
  PROVE  ReceiptsConsistent'
<1>1. /\ DbInv /\ PosInv /\ TypeOKUnits
      /\ TypeOKRecords /\ TypeOKCatalog /\ TypeOKAudits
      /\ TypeOKReceipts /\ TypeOKReports
  BY StockInvParts
<1>2. DbInv'
  BY DEF StockInv, InventoryTypeOK, TypeOK, DbInv
<1>3. ASSUME NEW q \in Req \ Receipts, Unbuying(q), UNCHANGED receiptLocals
      PROVE  ReceiptsConsistent'
  BY <1>1, <1>2, <1>3, UnbuyingKeepsReceipts DEF receiptLocals
<1>4. ASSUME NEW q \in OtherReq, Unbuying(q), UNCHANGED receiptLocals
      PROVE  ReceiptsConsistent'
  BY <1>3, <1>4, OtherReqs
<1>5. CASE InPos(PosNext)
  BY <1>1, <1>4, <1>5, PosUnbuys DEF InPos, OtherReq
<1>6. CASE InUnits(UnitsNext)
  BY <1>1, <1>4, <1>6, UnitsUnbuy DEF InUnits, OtherReq
<1>7. CASE InRecords(RecordsNext)
  BY <1>1, <1>4, <1>7, RecordsUnbuy DEF InRecords, OtherReq
<1>8. CASE InCatalog(CatalogNext)
  BY <1>1, <1>4, <1>8, CatalogUnbuys DEF InCatalog, OtherReq
<1>9. CASE InAudits(AuditsNext)
  <2>1. PICK q \in Creations \cup Scanners \cup Completions \cup Cancellations : Unbuying(q)
    BY <1>1, <1>9, AuditsUnbuy DEF InAudits
  <2>2. q \in Req \ Receipts
    BY AuditRequest, ClaimersApart
  <2> QED
    BY <1>3, <1>9, <2>1, <2>2 DEF InAudits
<1>10. CASE InReceipts(ReceiptsNext)
  BY <1>1, <1>10, ReceiptsNextBooked DEF InReceipts
<1>11. CASE UNCHANGED dbVars /\ UNCHANGED receiptLocals
  BY <1>11 DEF ReceiptsConsistent, ReceiptsBooked, Imported, ReceiptConsistent, StockedLines, Held,
              dbVars, receiptLocals
<1>12. CASE InReports(ReportsNext)
  <2>1. UNCHANGED dbVars
    BY <1>12 DEF InReports, ReportsNext, ReportStep, BeginReport, BuildTotals, BuildByCategory,
           BuildByLocation, BuildAttention, AbortReport, Reports
  <2> QED
    BY <1>11, <1>12, <2>1 DEF InReports
<1>13. CASE UNCHANGED vars
  BY <1>11, <1>13 DEF vars, dbVars, receiptLocals
<1> QED
  BY <1>5, <1>6, <1>7, <1>8, <1>9, <1>10, <1>12, <1>13 DEF Next, Done

LEMMA ReceiptsInvariant == Spec => [](StockInv /\ ReceiptsConsistent)
<1>1. Init => StockInv /\ ReceiptsConsistent
  BY InitInv, InitReceiptsConsistent
<1>2. StockInv /\ ReceiptsConsistent /\ [Next \/ Done]_vars => (StockInv /\ ReceiptsConsistent)'
  BY NextKeeps, NextKeepsReceipts
<1> QED
  BY <1>1, <1>2, PTL DEF Spec

(* However the receipts are sent, retried and interrupted, and whoever     *)
(* writes stock beside them: the purchases in the committed ledgers are,   *)
(* one for one, the lines of the receipts that were answered with success, *)
(* each with its quantity and location.  No line is stocked in twice, none *)
(* of an answered receipt is lost, and one that failed left nothing.       *)
THEOREM ReceiptsAlwaysBooked == Spec => []ReceiptsBooked
<1>1. ReceiptsConsistent => ReceiptsBooked
  BY DEF ReceiptsConsistent
<1> QED
  BY <1>1, ReceiptsInvariant, PTL

-----------------------------------------------------------------------------
(* The products a receipt creates                                          *)

CreatedKept(r) ==
  /\ \A p, q \in Created(r) : pending[p].card.name = pending[q].card.name => p = q
  /\ \A p \in Created(r) : pending[p].card.name \in DOMAIN receipt[r].matches.name

LinesConsistent == \A r \in Receipts : receipt[r].pc = "stock" => CreatedKept(r)

LEMMA LinesConsistentMeans == LinesConsistent <=> LinesShareProduct /\ CreatedIndexed
BY DEF LinesConsistent, CreatedKept, LinesShareProduct, CreatedIndexed

(* It depends on the receipt's own rows and variables only.                *)
LEMMA CreatedStays ==
  ASSUME NEW r \in Receipts, HeldStay(r), receipt'[r] = receipt[r], CreatedKept(r)
  PROVE  CreatedKept(r)'
<1>1. \A p \in Product : /\ holder'[p] = r <=> holder[p] = r
                         /\ holder[p] = r => committed'[p] = committed[p] /\ pending'[p] = pending[p]
  BY DEF HeldStay, Row
<1>2. Created(r)' = Created(r) /\ \A p \in Created(r) : pending'[p] = pending[p]
  BY <1>1 DEF Created
<1> QED
  BY <1>2 DEF CreatedKept

(* A line leaves the name of the row it posts to alone.                    *)
LEMMA StockedName ==
  ASSUME NEW r \in Receipts, NEW row \in ProductRow, NEW quantity
  PROVE  StockedRow(r, row, quantity).card.name = row.card.name
<1> DEFINE loc == ReceiptOf[r].loc
           card == [row.card EXCEPT !.loc = IF loc = NoLocation THEN row.card.loc ELSE loc]
           placed == [row EXCEPT !.card = card]
<1>1. card.name = row.card.name
  BY DEF ProductRow, Card
<1>2. placed = [quantityOnHand |-> row.quantityOnHand, ledger |-> row.ledger,
                isArchived |-> row.isArchived, card |-> card]
  BY DEF ProductRow
<1>3. StockedRow(r, row, quantity) = Posted(placed, "PURCHASE", quantity, NoUnit, loc, NoSale, 0)
  BY DEF StockedRow, ProductRow, Card
<1> HIDE DEF placed, card, loc
<1>4. StockedRow(r, row, quantity).card = placed.card
  BY <1>2, <1>3 DEF Posted
<1> QED
  BY <1>1, <1>2, <1>4

(* One line more: a product that was found keeps its name, one that was    *)
(* created has a name the map did not know, and does now.                  *)
LEMMA LineKeepsCreated ==
  ASSUME DbInv, TypeOKReceipts, NEW r \in Receipts, CreatedKept(r), StockReceiptLine(r),
         receipt'[r].pc = "stock"
  PROVE  CreatedKept(r)'
<1> DEFINE i == receipt[r].next
           item == Items(r)[i]
           matches == receipt[r].matches
           p == FindProductInMap(item, matches)
           drawn == DrawnFor[r][i]
<1>1. ReceiptOK(receipt[r]) /\ DOMAIN receipt = Receipts /\ r \in Req
  BY ReceiptLocals, ReceiptsAssumption DEF TypeOKReceipts
<1>2. i \in DOMAIN Items(r)
  <2>1. i \in Nat \ {0} /\ i <= Len(Items(r)) /\ Items(r) \in Seq(ReceiptItem)
    BY <1>1, ReceiptsAssumption DEF StockReceiptLine, ReceiptOK, Items, ReceiptBody
  <2> HIDE DEF i
  <2> QED
    BY <2>1
<1>3. ASSUME NEW q \in Product
      PROVE  Visible(r, q) \in ProductRow
  BY <1>1, VisibleOK DEF RowOK, Row
<1>4. Resolved(matches)
  BY <1>1 DEF ReceiptOK
<1>5. ASSUME NEW x \in Product, NEW row \in ProductRow,
             Stage(r, Write(x, StockedRow(r, row, item.quantity)))
      PROVE  /\ committed' = committed /\ holder'[x] = r
             /\ Visible(r, x) = pending[x]
             /\ pending'[x].card.name = row.card.name
             /\ holder[x] # r => pending[x] = committed[x]
             /\ \A q \in Product \ {x} : pending'[q] = pending[q] /\ holder'[q] = holder[q]
  <2> DEFINE new == StockedRow(r, row, item.quantity)
  <2>1. new.card.name = row.card.name
    BY <1>5, StockedName
  <2> HIDE DEF new
  <2>2. /\ committed' = committed /\ Lockable(r, x) /\ x \in Row
        /\ \A y \in Row : /\ pending'[y] = IF y = x THEN new ELSE pending[y]
                          /\ holder'[y] = IF y = x THEN r ELSE holder[y]
    BY <1>5 DEF Stage, Write, Row, new
  <2>3. Visible(r, x) = pending[x]
    BY <1>1, <2>2, VisibleIsPending
  <2>4. holder[x] # r => pending[x] = committed[x]
    BY <1>5, <2>2 DEF Lockable, DbInv, VersionsConsistent
  <2>5. \A q \in Product : q \in Row
    BY DEF Row
  <2> QED
    BY <1>5, <2>1, <2>2, <2>3, <2>4, <2>5
<1>6. CASE p # NoProduct /\ StockMatched(r, i, p)
  <2>1. p \in Product
    BY <1>4, <1>6, FindProductType
  <2>2. Stage(r, Write(p, StockedRow(r, Visible(r, p), item.quantity)))
    BY <1>6 DEF StockMatched
  <2>3. receipt'[r].matches = matches
    BY <1>1, <1>6 DEF StockMatched, ReceiptOK
  <2> HIDE DEF p, item, i, matches
  <2>4. /\ committed' = committed /\ holder'[p] = r
        /\ pending'[p].card.name = pending[p].card.name
        /\ holder[p] # r => pending[p] = committed[p]
        /\ \A q \in Product \ {p} : pending'[q] = pending[q] /\ holder'[q] = holder[q]
    BY <1>3, <1>5, <2>1, <2>2
  <2>5. \A q \in Product : pending'[q].card.name = pending[q].card.name
    BY <2>4
  <2>6. Created(r)' = Created(r)
    BY <2>1, <2>4, <2>5 DEF Created
  <2> QED
    BY <2>3, <2>5, <2>6 DEF CreatedKept, Created, matches
<1>7. CASE p = NoProduct /\ StockCreated(r, i)
  <2> DEFINE row == Visible(r, drawn)
             card == NewCard(r, i)
             created == [row EXCEPT !.card = card, !.isArchived = FALSE]
  <2>1. ~ (Rollback(r) /\ EndReceipt(r, "failed"))
    BY <1>1 DEF EndReceipt, AtReceipt
  <2>2. /\ Stage(r, Write(drawn, StockedRow(r, created, item.quantity)))
        /\ receipt' = [receipt EXCEPT ![r].next = @ + 1,
                                      ![r].matches = Indexed(@, drawn, card)]
    BY <1>7, <2>1 DEF StockCreated
  <2>3. card \in Card /\ drawn \in Product /\ card.name = item.name /\ item.name # NoText
    <3>1. item \in ReceiptItem
      BY <1>2, ReceiptBodyType
    <3> QED
      BY <1>2, <3>1, NewCardType, RowAssumption DEF NewCard, ReceiptItem
  <2>4. receipt'[r].matches = Indexed(matches, drawn, card)
    <3> HIDE DEF drawn, card
    <3> QED
      BY <1>1, <2>2 DEF ReceiptOK
  <2>5. item.name \notin DOMAIN matches.name
    BY <1>4, <1>7, ReceiptsAssumption DEF FindProductInMap, Resolved
  <2>6. DOMAIN receipt'[r].matches.name = DOMAIN matches.name \cup {item.name}
    BY <2>3, <2>4, SMTT(20) DEF Indexed, With
  <2>7. row \in ProductRow
    BY <1>3, <2>3
  <2> HIDE DEF p, item, i, drawn, card, row, matches
  <2>8. created = [quantityOnHand |-> row.quantityOnHand, ledger |-> row.ledger,
                   isArchived |-> FALSE, card |-> card]
    <3>1. created = [[row EXCEPT !.card = card] EXCEPT !.isArchived = FALSE]
      OBVIOUS
    <3>2. row = [quantityOnHand |-> row.quantityOnHand, ledger |-> row.ledger,
                 isArchived |-> row.isArchived, card |-> row.card]
      BY <2>7 DEF ProductRow
    <3>3. [row EXCEPT !.card = card] =
            [quantityOnHand |-> row.quantityOnHand, ledger |-> row.ledger,
             isArchived |-> row.isArchived, card |-> card]
      BY <3>2
    <3> HIDE DEF created
    <3> QED
      BY <3>1, <3>3
  <2> HIDE DEF created
  <2>9. created \in ProductRow /\ created.card.name = item.name
    BY <2>3, <2>7, <2>8 DEF ProductRow
  <2>10. /\ committed' = committed
         /\ pending'[drawn].card.name = item.name
         /\ \A q \in Product \ {drawn} : pending'[q] = pending[q] /\ holder'[q] = holder[q]
    BY <1>5, <2>2, <2>3, <2>9
  <2>11. Created(r)' \subseteq Created(r) \cup {drawn}
    BY <2>10 DEF Created
  <2>12. \A q \in Created(r)' :
           q # drawn => /\ q \in Created(r) /\ pending'[q].card.name = pending[q].card.name
                        /\ pending[q].card.name \in DOMAIN matches.name
    BY <2>10, <2>11 DEF CreatedKept, Created, matches
  <2> QED
    BY <2>5, <2>6, <2>10, <2>12 DEF CreatedKept
<1> QED
  BY <1>6, <1>7 DEF StockReceiptLine

LEMMA ReceiptsNextKeepsLines ==
  ASSUME DbInv, TypeOKReceipts, ReceiptsConsistent, LinesConsistent, ReceiptsNext
  PROVE  LinesConsistent'
<1>1. PICK r \in Receipts : PreviewReceiptImport(r) \/ ReceiptStep(r) \/ AbortReceipt(r)
  BY DEF ReceiptsNext
<1>2. ReceiptOK(receipt[r]) /\ DOMAIN receipt = Receipts
  BY ReceiptLocals DEF TypeOKReceipts
<1>3. ASSUME NEW q \in Receipts \ {r}, receipt'[q].pc = "stock"
      PROVE  CreatedKept(q)'
  <2>1. receipt'[q] = receipt[q]
    BY <1>1, <1>2, <1>3
       DEF PreviewReceiptImport, ReceiptStep, ReserveIdempotencyKey, BuildProductMatchMap,
           FindOrCreateSupplier, StockReceiptLine, StockCreated, StockMatched, CommitReceipt,
           AbortReceipt, EndReceipt
  <2>2. q \in Req \ {r}
    BY ReceiptsAssumption
  <2>3. HeldStay(q)
    BY <1>1, <2>2, ReceiptsSpareAudits, SparingHeld
  <2> QED
    BY <1>3, <2>1, <2>3, CreatedStays DEF LinesConsistent
<1>4. ASSUME receipt'[r].pc = "stock"
      PROVE  CreatedKept(r)'
  <2>1. CASE FindOrCreateSupplier(r)
    <3>1. receipt[r].pc = "supplier" /\ UNCHANGED dbVars
      BY <2>1 DEF FindOrCreateSupplier
    <3>2. Held(r) = {}
      BY <3>1 DEF ReceiptsConsistent, ReceiptConsistent
    <3>3. Created(r)' = {}
      BY <3>1, <3>2 DEF Created, Held, dbVars
    <3> QED
      BY <3>3 DEF CreatedKept
  <2>2. CASE StockReceiptLine(r)
    <3>1. receipt[r].pc = "stock"
      BY <2>2 DEF StockReceiptLine
    <3> QED
      BY <1>4, <2>2, <3>1, LineKeepsCreated DEF LinesConsistent
  <2>3. CASE CommitReceipt(r) \/ AbortReceipt(r)
    BY <1>4, <2>3, EndReaches DEF CommitReceipt, AbortReceipt, Reaches
  <2>4. CASE PreviewReceiptImport(r)
    <3>1. EndReceipt(r, "failed") \/ receipt' = [receipt EXCEPT ![r].pc = "reserve"]
      BY <2>4 DEF PreviewReceiptImport
    <3>2. receipt'[r].pc \in {"failed", "reserve"}
      BY <1>2, <3>1 DEF EndReceipt, AtReceipt, ReceiptOK
    <3> QED
      BY <1>4, <3>2
  <2>5. CASE ReserveIdempotencyKey(r)
    <3>1. EndReceipt(r, "failed") \/ receipt' = [receipt EXCEPT ![r].pc = "match"]
      BY <2>5 DEF ReserveIdempotencyKey
    <3>2. receipt'[r].pc \in {"failed", "match"}
      BY <1>2, <3>1 DEF EndReceipt, AtReceipt, ReceiptOK
    <3> QED
      BY <1>4, <3>2
  <2>6. CASE BuildProductMatchMap(r)
    <3> DEFINE field == MatchField[receipt[r].next]
    <3>1. PICK map : receipt' = [receipt EXCEPT
               ![r].matches[field] = map,
               ![r].pc = IF field = "name" THEN "supplier" ELSE "match",
               ![r].next = IF field = "name" THEN 1 ELSE @ + 1]
      BY <2>6 DEF BuildProductMatchMap
    <3> HIDE DEF field
    <3>2. receipt'[r].pc \in {"supplier", "match"}
      BY <1>2, <3>1 DEF ReceiptOK
    <3> QED
      BY <1>4, <3>2
  <2> QED
    BY <1>1, <2>1, <2>2, <2>3, <2>4, <2>5, <2>6 DEF ReceiptStep
<1> QED
  BY <1>3, <1>4 DEF LinesConsistent

LEMMA NextKeepsLines ==
  ASSUME StockInv, ReceiptsConsistent, LinesConsistent, [Next \/ Done]_vars
  PROVE  LinesConsistent'
<1>1. DbInv /\ TypeOKAudits /\ TypeOKReceipts
  BY StockInvParts
<1>2. ASSUME NEW q \in Req \ Receipts, NEW A, Sparing(q, A), UNCHANGED receipt
      PROVE  LinesConsistent'
  <2>1. \A r \in Receipts : HeldStay(r)
    BY <1>2, SparingHeld, ReceiptsAssumption
  <2> QED
    BY <1>2, <2>1, CreatedStays DEF LinesConsistent
<1>3. CASE AuditsNext /\ UNCHANGED receiptLocals
  <2>1. PICK q \in Creations \cup Scanners \cup Completions \cup Cancellations :
          Sparing(q, IdempotencyKey)
    BY <1>1, <1>3, AuditsSpareKeys
  <2>2. q \in Req \ Receipts
    BY AuditRequest, ClaimersApart
  <2> QED
    BY <1>2, <1>3, <2>1, <2>2 DEF receiptLocals
<1>4. CASE ReceiptsNext
  BY <1>1, <1>4, ReceiptsNextKeepsLines
<1>5. ASSUME NEW q \in OtherReq, Sparing(q, Claims), UNCHANGED receiptLocals
      PROVE  LinesConsistent'
  BY <1>2, <1>5, OtherReqs DEF receiptLocals
<1>6. CASE UNCHANGED dbVars /\ UNCHANGED receiptLocals
  <2>1. \A r \in Receipts : HeldStay(r)
    BY <1>6 DEF HeldStay, dbVars
  <2> QED
    BY <1>6, <2>1, CreatedStays DEF LinesConsistent, receiptLocals
<1> QED
  BY <1>3, <1>4, <1>5, <1>6, StepKinds

LEMMA InitLinesConsistent == Init => LinesConsistent
<1> SUFFICES ASSUME Init
             PROVE  LinesConsistent
  OBVIOUS
<1>1. \A r \in Receipts : receipt[r].pc = "idle"
  BY DEF Init, InitReceiptLocals, AtReceipt
<1> QED
  BY <1>1 DEF LinesConsistent

LEMMA LinesInvariant == Spec => []LinesConsistent
<1>1. Init => LinesConsistent
  BY InitLinesConsistent
<1>2. StockInv /\ ReceiptsConsistent /\ LinesConsistent /\ [Next \/ Done]_vars => LinesConsistent'
  BY NextKeepsLines
<1> QED
  BY <1>1, <1>2, ReceiptsInvariant, PTL DEF Spec

(* The products one receipt creates have different names: whatever the     *)
(* lines repeat and whoever else writes, a line that names what a line     *)
(* before it created is stocked into that product, because the map of      *)
(* matches knows every product the transaction has created (indexProduct). *)
THEOREM LinesAlwaysShare == Spec => []LinesShareProduct
<1>1. LinesConsistent => LinesShareProduct
  BY LinesConsistentMeans
<1> QED
  BY <1>1, LinesInvariant, PTL

-----------------------------------------------------------------------------
(* The dashboard                                                           *)

LEMMA TotalIsSum ==
  ASSUME NEW S, IsFiniteSet(S), NEW f, \A x \in S : f[x] \in Int
  PROVE  \E h : SumsOver(h, S, [x \in S |-> f[x]]) /\ Total(f, S) = h[S]
<1> DEFINE g == [x \in S |-> f[x]]
<1>1. g \in [S -> Int]
  OBVIOUS
<1> DEFINE Eq(h) == h = [s \in SUBSET S |->
                           IF s = {} THEN 0 ELSE f[Picked(s)] + h[s \ {Picked(s)}]]
<1>2. \A h : Eq(h) <=> SumEquation(h, S, g)
  <2>1. \A s \in SUBSET S : s # {} => g[Picked(s)] = f[Picked(s)]
    BY DEF Picked
  <2> HIDE DEF g
  <2>2. \A h : [s \in SUBSET S |-> IF s = {} THEN 0 ELSE f[Picked(s)] + h[s \ {Picked(s)}]]
               = [s \in SUBSET S |-> IF s = {} THEN 0 ELSE g[Picked(s)] + h[s \ {Picked(s)}]]
    BY <2>1
  <2> QED BY <2>2 DEF SumEquation
<1>3. \E h : Eq(h)
  <2> HIDE DEF g, Eq
  <2> QED BY <1>1, <1>2, SumExists
<1>4. Total(f, S) = (CHOOSE h : Eq(h))[S]
  BY DEF Total, MapThenSumSet, MapThenFoldSet, Picked
<1> DEFINE h == CHOOSE h : Eq(h)
<1>5. Eq(h)
  <2> HIDE DEF Eq
  <2> QED BY <1>3
<1>6. SumsOver(h, S, g)
  <2> HIDE DEF g, Eq, h
  <2> QED BY <1>1, <1>2, <1>5, SumIsSum
<1> QED
  <2> HIDE DEF Eq
  <2>1. Total(f, S) = h[S]
    BY <1>4
  <2> HIDE DEF h
  <2> QED BY <1>6, <2>1

(* The rows a query may return, and the balances among them in step with   *)
(* the units.                                                              *)
RowsTyped(rows) ==
  /\ \A p \in Product : rows[p] \in ProductRow
  /\ \A u \in Unit : rows[u] \in UnitRow

RowsInStep(rows) ==
  \A p \in Serialized :
     rows[p].quantityOnHand =
       Cardinality({u \in Unit : ProductOf[u] = p /\ rows[u].status \in STOCK_COUNTED_STATUSES})

LEMMA StatusesFinite == \A statuses \in SUBSET ProductUnitStatus : IsFiniteSet(statuses)
<1>1. \A S, x : IsFiniteSet(S) => IsFiniteSet(S \cup {x})
  BY FS_AddElement
<1>2. ProductUnitStatus =
        {} \cup {"IN_STOCK"} \cup {"RESERVED"} \cup {"RETURNED"} \cup {"MISPLACED"}
           \cup {"SOLD"} \cup {"LOST"} \cup {"DISPOSED"} \cup {"DAMAGED"} \cup {"MISSING"}
  BY DEF ProductUnitStatus, STOCK_COUNTED_STATUSES, LOCATION_CLEARED_STATUSES
<1>3. IsFiniteSet(ProductUnitStatus)
  BY <1>1, <1>2, FS_EmptySet
<1> QED
  BY <1>3, FS_Subset

(* The units of several statuses are those of each.                        *)
LEMMA StatusTotals ==
  ASSUME NEW rows, RowsTyped(rows), NEW statuses \in SUBSET ProductUnitStatus
  PROVE  WithStatus(rows, statuses) =
           Total([status \in ProductUnitStatus |-> WithStatus(rows, {status})], statuses)
<1> DEFINE f == [status \in ProductUnitStatus |-> WithStatus(rows, {status})]
           S == {u \in LiveUnits(rows) : rows[u].status \in statuses}
           key == [u \in S |-> rows[u].status]
<1>1. IsFiniteSet(LiveUnits(rows)) /\ IsFiniteSet(S) /\ IsFiniteSet(statuses)
  <2>1. LiveUnits(rows) \subseteq Unit /\ S \subseteq Unit
    BY DEF LiveUnits
  <2> QED
    BY <2>1, AuditAssumption, StatusesFinite, FS_Subset
<1>2. ASSUME NEW status \in statuses
      PROVE  f[status] = Cardinality(Group(S, key, status))
  <2>1. {u \in LiveUnits(rows) : rows[u].status \in {status}} = Group(S, key, status)
    BY DEF Group
  <2> QED
    BY <2>1 DEF WithStatus
<1>3. \A status \in statuses : f[status] \in Int
  <2>1. ASSUME NEW status \in statuses
        PROVE  Cardinality(Group(S, key, status)) \in Nat
    BY <1>1, FS_Subset, FS_CardinalityType DEF Group
  <2> HIDE DEF f, key, S
  <2> QED
    BY <1>2, <2>1
<1> DEFINE g == [status \in statuses |-> f[status]]
<1>4. PICK k : SumsOver(k, statuses, g) /\ Total(f, statuses) = k[statuses]
  <2> HIDE DEF f
  <2> QED BY <1>1, <1>3, TotalIsSum
<1>5. \A u \in S : key[u] \in statuses
  OBVIOUS
<1>6. \A status \in statuses : g[status] = Cardinality(Group(S, key, status))
  <2> HIDE DEF f, key, S
  <2> QED BY <1>2
<1>7. Cardinality(S) = k[statuses]
  <2> HIDE DEF g, key, S
  <2> QED BY <1>1, <1>4, <1>5, <1>6, CountByKey
<1> QED
  <2>1. WithStatus(rows, statuses) = Cardinality(S)
    BY DEF WithStatus
  <2> HIDE DEF S, f
  <2> QED BY <1>4, <1>7, <2>1 DEF f

(* The stock by location is the stock of the products: the products in     *)
(* bulk by their place, the others by the places of their units.           *)
LEMMA StockTotals ==
  ASSUME NEW rows, RowsTyped(rows), RowsInStep(rows)
  PROVE  Quantity(rows, LiveProducts(rows)) =
           Total([loc \in Location \cup {NoLocation} |-> QuantityAt(rows, loc)],
                 Location \cup {NoLocation})
<1> DEFINE D == Product \cup Unit
           w == [x \in D |-> IF x \in Product THEN rows[x].quantityOnHand ELSE 1]
           A == LiveProducts(rows) \ Serialized
           B == LiveProducts(rows) \cap Serialized
           U == OnHandUnits(rows)
           places == Location \cup {NoLocation}
           f == [loc \in places |-> QuantityAt(rows, loc)]
<1>1. /\ IsFiniteSet(Product) /\ IsFiniteSet(Unit) /\ IsFiniteSet(D) /\ IsFiniteSet(places)
      /\ Product \cap Unit = {}
  BY AuditAssumption, DashboardAssumption, RowAssumption, FS_Union, FS_AddElement
<1>2. /\ w \in [D -> Int]
      /\ \A p \in Product : w[p] = rows[p].quantityOnHand
      /\ \A u \in Unit : w[u] = 1
  <2>1. \A p \in Product : rows[p].quantityOnHand \in Int
    BY DEF RowsTyped, ProductRow
  <2> QED
    BY <1>1, <2>1
<1>3. /\ A \in SUBSET Product /\ B \in SUBSET Product /\ U \in SUBSET Unit
      /\ A \in SUBSET D /\ B \in SUBSET D /\ U \in SUBSET D
  BY DEF LiveProducts, OnHandUnits, LiveUnits
<1> HIDE DEF w, D
<1>4. PICK h : SumsOver(h, D, w)
  BY <1>1, <1>2, SumExists, SumIsSum
<1>5. ASSUME NEW S \in SUBSET Product
      PROVE  Quantity(rows, S) = h[S]
  <2> DEFINE q == [p \in S |-> rows[p].quantityOnHand]
  <2>1. IsFiniteSet(S) /\ S \in SUBSET D
    BY <1>1, FS_Subset DEF D
  <2>2. \A p \in S : q[p] = w[p] /\ q[p] \in Int
    BY <1>2, <2>1
  <2>3. Quantity(rows, S) = Total(q, S)
    BY DEF Quantity
  <2> HIDE DEF q
  <2> DEFINE g == [p \in S |-> q[p]]
  <2>4. PICK k : SumsOver(k, S, g) /\ Total(q, S) = k[S]
    BY <2>1, <2>2, TotalIsSum
  <2>5. \A p \in S : g[p] = w[p]
    BY <2>2
  <2> HIDE DEF g
  <2>6. h[S] = k[S]
    BY <1>4, <2>1, <2>4, <2>5, SumsAgree
  <2> QED
    BY <2>3, <2>4, <2>6
<1>6. ASSUME NEW S \in SUBSET Unit
      PROVE  Cardinality(S) = h[S]
  BY <1>1, <1>2, <1>4, SumCounts, FS_Subset DEF D
<1>7. Quantity(rows, LiveProducts(rows)) = h[A] + h[B]
  <2>1. LiveProducts(rows) = A \cup B /\ A \cap B = {} /\ IsFiniteSet(B)
    BY <1>1, <1>3, FS_Subset
  <2>2. LiveProducts(rows) \in SUBSET Product
    BY DEF LiveProducts
  <2>3. Quantity(rows, LiveProducts(rows)) = h[LiveProducts(rows)]
    BY <1>5, <2>2
  <2>4. w \in [D -> Int] /\ A \in SUBSET D /\ B \in SUBSET D /\ A \cap B = {} /\ IsFiniteSet(B)
    BY <1>2, <1>3, <2>1
  <2> HIDE DEF A, B
  <2>5. h[A \cup B] = h[A] + h[B]
    BY <1>4, <2>4, SumSplit
  <2> QED
    BY <2>1, <2>3, <2>5
<1>8. h[U] = h[B]
  <2>1. \A u \in U : ProductOf[u] \in B
    BY OpeningAssumption DEF OnHandUnits, LiveUnits, LiveProducts
  <2>2. ASSUME NEW p \in B
        PROVE  w[p] = h[Group(U, ProductOf, p)]
    <3>1. Group(U, ProductOf, p) =
            {u \in Unit : ProductOf[u] = p /\ rows[u].status \in STOCK_COUNTED_STATUSES}
      <4>1. \A status \in STOCK_COUNTED_STATUSES : status # "UNREGISTERED"
        BY DEF STOCK_COUNTED_STATUSES
      <4> QED
        BY <2>2, <4>1 DEF Group, OnHandUnits, LiveUnits, LiveProducts
    <3>2. w[p] = Cardinality(Group(U, ProductOf, p))
      <4>1. p \in Serialized /\ p \in Product
        BY <2>2, <1>3
      <4> HIDE DEF U, B
      <4> QED
        BY <1>2, <3>1, <4>1 DEF RowsInStep
    <3>3. Group(U, ProductOf, p) \in SUBSET Unit
      BY <1>3 DEF Group
    <3> HIDE DEF U, B
    <3> QED
      BY <1>6, <3>2, <3>3
  <2>3. IsFiniteSet(B)
    BY <1>1, <1>3, FS_Subset
  <2> HIDE DEF U, B
  <2> QED
    BY <1>1, <1>2, <1>3, <1>4, <2>1, <2>2, <2>3, SumByKey
<1> DEFINE C == A \cup U
           place == [x \in C |-> IF x \in Product THEN rows[x].card.loc ELSE rows[x].loc]
<1>9. h[C] = h[A] + h[U] /\ C \in SUBSET D
  <2>1. A \cap U = {} /\ IsFiniteSet(U)
    BY <1>1, <1>3, FS_Subset
  <2> HIDE DEF A, U
  <2> QED
    BY <1>2, <1>3, <1>4, <2>1, SumSplit
<1>10. \A x \in C : place[x] \in places
  <2>1. ASSUME NEW x \in A
        PROVE  rows[x].card.loc \in places
    BY <1>3 DEF RowsTyped, ProductRow, Card
  <2>2. ASSUME NEW x \in U
        PROVE  rows[x].loc \in places /\ x \notin Product
    BY <1>1, <1>3 DEF RowsTyped, UnitRow
  <2> HIDE DEF A, U, places
  <2> QED
    BY <1>3, <2>1, <2>2
<1>11. ASSUME NEW loc \in places
       PROVE  f[loc] = h[Group(C, place, loc)] /\ f[loc] \in Int
  <2> DEFINE bulk == {p \in A : rows[p].card.loc = loc}
             there == {u \in U : rows[u].loc = loc}
  <2>1. f[loc] = Quantity(rows, bulk) + Cardinality(there)
    BY DEF QuantityAt
  <2>2. /\ bulk \in SUBSET Product /\ there \in SUBSET Unit
        /\ bulk \in SUBSET D /\ there \in SUBSET D
        /\ bulk \cap there = {} /\ IsFiniteSet(there)
    BY <1>1, <1>3, FS_Subset
  <2>3. Group(C, place, loc) = bulk \cup there
    <3> HIDE DEF A, U
    <3> QED
      BY <1>1, <1>3 DEF Group
  <2> HIDE DEF bulk, there, f, place, C
  <2>4. h[bulk \cup there] = h[bulk] + h[there]
    BY <1>2, <1>4, <2>2, SumSplit
  <2>5. h[bulk] \in Int /\ h[there] \in Int
    BY <1>4, <2>2 DEF SumsOver
  <2> QED
    BY <1>5, <1>6, <2>1, <2>2, <2>3, <2>4, <2>5
<1> HIDE DEF f, place, C, places, A, B, U
<1> DEFINE g == [loc \in places |-> f[loc]]
<1>12. PICK k : SumsOver(k, places, g) /\ Total(f, places) = k[places]
  BY <1>1, <1>11, TotalIsSum
<1>13. \A loc \in places : g[loc] = h[Group(C, place, loc)]
  BY <1>11
<1> HIDE DEF g
<1>14. h[C] = k[places]
  BY <1>1, <1>2, <1>4, <1>9, <1>10, <1>12, <1>13, SumByKey
<1>15. Quantity(rows, LiveProducts(rows)) = Total(f, places)
  BY <1>7, <1>8, <1>9, <1>12, <1>14
<1> QED
  BY <1>15 DEF f, places

(* What a report holds once its sections have been read: each was put      *)
(* together from the snapshot.                                             *)
TotalsRead(page) ==
  /\ {"stockValue", "trackedUnitCount", "unitStatus"} \subseteq DOMAIN page
  /\ page.stockValue = Quantity(page.snapshot, LiveProducts(page.snapshot))
  /\ page.trackedUnitCount = WithStatus(page.snapshot, ProductUnitStatus \ RETIRED_UNIT_STATUSES)
  /\ page.unitStatus = [status \in ProductUnitStatus |-> WithStatus(page.snapshot, {status})]

CategoriesRead(page) ==
  /\ "byCategory" \in DOMAIN page
  /\ page.byCategory = Quantity(page.snapshot, LiveProducts(page.snapshot))

LocationsRead(page) ==
  /\ "byLocation" \in DOMAIN page
  /\ page.byLocation = [loc \in Location \cup {NoLocation} |-> QuantityAt(page.snapshot, loc)]

AttentionRead(page) ==
  /\ "attention" \in DOMAIN page
  /\ page.attention = [status \in {"MISSING", "MISPLACED", "DISPOSED"} |->
                         WithStatus(page.snapshot, {status})]

PageOK(page) ==
  /\ "pc" \in DOMAIN page
  /\ page.pc \in {"totals", "byCategory", "byLocation", "attention", "ok"} =>
        /\ "snapshot" \in DOMAIN page /\ RowsTyped(page.snapshot) /\ RowsInStep(page.snapshot)
  /\ page.pc \in {"byCategory", "byLocation", "attention", "ok"} => TotalsRead(page)
  /\ page.pc \in {"byLocation", "attention", "ok"} => CategoriesRead(page)
  /\ page.pc \in {"attention", "ok"} => LocationsRead(page)
  /\ page.pc = "ok" => AttentionRead(page)

PagesOK == \A r \in DashboardReads : PageOK(report[r])

(* The snapshot is typed, and in step if the tables are.                   *)
LEMMA SnapshotTyped ==
  ASSUME DbInv, QuantityCountsUnits
  PROVE  RowsTyped(Snapshot(committed)) /\ RowsInStep(Snapshot(committed))
<1> DEFINE rows == Snapshot(committed)
<1>1. ASSUME NEW p \in Product
      PROVE  rows[p] \in ProductRow /\ rows[p].quantityOnHand = committed[p].quantityOnHand
  <2>1. committed[p] \in ProductRow
    BY DEF DbInv, TypeOKDb, DbTypeOK
  <2>2. rows[p] = [committed[p] EXCEPT !.ledger = <<>>]
    BY DEF Snapshot
  <2>3. <<>> \in Seq(StockMovement)
    OBVIOUS
  <2> HIDE DEF rows
  <2> QED
    BY <2>1, <2>2, <2>3 DEF ProductRow
<1>2. ASSUME NEW u \in Unit
      PROVE  rows[u] \in UnitRow /\ rows[u] = committed[u]
  BY RowAssumption DEF Snapshot, DbInv, TypeOKDb, DbTypeOK
<1> HIDE DEF rows
<1>3. RowsTyped(rows)
  BY <1>1, <1>2 DEF RowsTyped
<1>4. ASSUME NEW p \in Serialized
      PROVE  rows[p].quantityOnHand = Cardinality({u \in Unit : /\ ProductOf[u] = p
                                                    /\ rows[u].status \in STOCK_COUNTED_STATUSES})
  <2>1. {u \in Unit : ProductOf[u] = p /\ rows[u].status \in STOCK_COUNTED_STATUSES}
          = CountedUnits(p)
    BY <1>2 DEF CountedUnits
  <2>2. p \in Product
    BY OpeningAssumption
  <2> QED
    BY <1>1, <2>1, <2>2 DEF QuantityCountsUnits
<1> QED
  BY <1>3, <1>4 DEF RowsInStep, rows

(* A section that is added leaves the others as they are.                  *)
LEMMA SectionAdded ==
  ASSUME TypeOKReports, NEW r \in DashboardReads, NEW section, NEW next,
         Reports(r, section, next), "pc" \in DOMAIN report[r], "pc" \notin DOMAIN section
  PROVE  /\ DOMAIN report'[r] = DOMAIN report[r] \cup DOMAIN section
         /\ report'[r].pc = next
         /\ \A x \in DOMAIN section : report'[r][x] = section[x]
         /\ \A x \in DOMAIN report[r] \ DOMAIN section :
               x # "pc" => report'[r][x] = report[r][x]
         /\ \A q \in DashboardReads \ {r} : report'[q] = report[q]
<1> DEFINE page == report[r]
           new == [x \in DOMAIN page \cup DOMAIN section |->
                     IF x = "pc" THEN next ELSE IF x \in DOMAIN section THEN section[x] ELSE page[x]]
<1>1. report' = [report EXCEPT ![r] = new] /\ DOMAIN report = DashboardReads
  BY DEF Reports, TypeOKReports
<1>2. report'[r] = new /\ \A q \in DashboardReads \ {r} : report'[q] = report[q]
  <2> HIDE DEF new
  <2> QED BY <1>1
<1> QED
  BY <1>2

LEMMA ReportsNextKeepsPages ==
  ASSUME DbInv, TypeOKReports, QuantityCountsUnits, PagesOK, ReportsNext
  PROVE  PagesOK'
<1>1. PICK r \in DashboardReads : BeginReport(r) \/ ReportStep(r) \/ AbortReport(r)
  BY DEF ReportsNext
<1>2. DOMAIN report = DashboardReads /\ PageOK(report[r])
  BY DEF TypeOKReports, PagesOK
<1>3. ASSUME PageOK(report'[r]), \A q \in DashboardReads \ {r} : report'[q] = report[q]
      PROVE  PagesOK'
  BY <1>3 DEF PagesOK
<1>4. CASE BeginReport(r)
  <2> DEFINE page == [pc |-> "totals", snapshot |-> Snapshot(committed)]
  <2>1. report'[r] = page /\ \A q \in DashboardReads \ {r} : report'[q] = report[q]
    <3>1. report' = [report EXCEPT ![r] = page]
      BY <1>4 DEF BeginReport
    <3> HIDE DEF page
    <3> QED BY <1>2, <3>1
  <2>2. /\ "pc" \in DOMAIN page /\ page.pc = "totals" /\ "snapshot" \in DOMAIN page
        /\ page.snapshot = Snapshot(committed)
    OBVIOUS
  <2> HIDE DEF page
  <2>3. PageOK(page)
    BY <2>2, SnapshotTyped DEF PageOK
  <2> QED
    BY <1>3, <2>1, <2>3
<1>5. CASE AbortReport(r)
  <2>1. report' = [report EXCEPT ![r] = AtSection("failed")]
    BY <1>5 DEF AbortReport
  <2>2. report'[r] = AtSection("failed") /\ \A q \in DashboardReads \ {r} : report'[q] = report[q]
    BY <1>2, <2>1
  <2>3. PageOK(AtSection("failed"))
    BY DEF PageOK, AtSection
  <2> QED
    BY <1>3, <2>2, <2>3
<1>6. CASE BuildTotals(r)
  <2> DEFINE rows == RowsOf(r)
             section == [stockValue |-> Quantity(rows, LiveProducts(rows)),
                         trackedUnitCount |->
                           WithStatus(rows, ProductUnitStatus \ RETIRED_UNIT_STATUSES),
                         unitStatus |->
                           [status \in ProductUnitStatus |-> WithStatus(rows, {status})]]
  <2>1. report[r].pc = "totals" /\ Reports(r, section, "byCategory")
    BY <1>6 DEF BuildTotals
  <2>2. /\ DOMAIN section = {"stockValue", "trackedUnitCount", "unitStatus"}
        /\ section.stockValue = Quantity(rows, LiveProducts(rows))
        /\ section.trackedUnitCount = WithStatus(rows, ProductUnitStatus \ RETIRED_UNIT_STATUSES)
        /\ section.unitStatus = [status \in ProductUnitStatus |-> WithStatus(rows, {status})]
    OBVIOUS
  <2>3. rows = report[r].snapshot
    BY DEF RowsOf
  <2> HIDE DEF section, rows
  <2>4. /\ DOMAIN report'[r] = DOMAIN report[r] \cup DOMAIN section
        /\ report'[r].pc = "byCategory"
        /\ \A x \in DOMAIN section : report'[r][x] = section[x]
        /\ \A x \in DOMAIN report[r] \ DOMAIN section : x # "pc" => report'[r][x] = report[r][x]
        /\ \A q \in DashboardReads \ {r} : report'[q] = report[q]
    BY <1>2, <2>1, <2>2, SectionAdded DEF PageOK
  <2>5. report'[r].snapshot = rows
    BY <1>2, <2>1, <2>2, <2>3, <2>4 DEF PageOK
  <2>6. TotalsRead(report'[r])
    BY <2>2, <2>4, <2>5 DEF TotalsRead
  <2>7. PageOK(report'[r])
    BY <1>2, <2>1, <2>3, <2>4, <2>5, <2>6 DEF PageOK
  <2> QED
    BY <1>3, <2>4, <2>7
<1>7. CASE BuildByCategory(r)
  <2> DEFINE rows == RowsOf(r)
             section == [byCategory |-> Quantity(rows, LiveProducts(rows))]
  <2>1. report[r].pc = "byCategory" /\ Reports(r, section, "byLocation")
    BY <1>7 DEF BuildByCategory
  <2>2. /\ DOMAIN section = {"byCategory"}
        /\ section.byCategory = Quantity(rows, LiveProducts(rows))
    OBVIOUS
  <2>3. rows = report[r].snapshot
    BY DEF RowsOf
  <2> HIDE DEF section, rows
  <2>4. /\ DOMAIN report'[r] = DOMAIN report[r] \cup DOMAIN section
        /\ report'[r].pc = "byLocation"
        /\ \A x \in DOMAIN section : report'[r][x] = section[x]
        /\ \A x \in DOMAIN report[r] \ DOMAIN section : x # "pc" => report'[r][x] = report[r][x]
        /\ \A q \in DashboardReads \ {r} : report'[q] = report[q]
    BY <1>2, <2>1, <2>2, SectionAdded DEF PageOK
  <2>5. report'[r].snapshot = rows
    BY <1>2, <2>1, <2>2, <2>3, <2>4 DEF PageOK
  <2>6. TotalsRead(report'[r])
    BY <1>2, <2>1, <2>2, <2>3, <2>4, <2>5 DEF TotalsRead, PageOK
  <2>7. CategoriesRead(report'[r])
    BY <2>2, <2>4, <2>5 DEF CategoriesRead
  <2>8. PageOK(report'[r])
    BY <1>2, <2>1, <2>3, <2>4, <2>5, <2>6, <2>7 DEF PageOK
  <2> QED
    BY <1>3, <2>4, <2>8
<1>8. CASE BuildByLocation(r)
  <2> DEFINE rows == RowsOf(r)
             section == [byLocation |->
                           [loc \in Location \cup {NoLocation} |-> QuantityAt(rows, loc)]]
  <2>1. report[r].pc = "byLocation" /\ Reports(r, section, "attention")
    BY <1>8 DEF BuildByLocation
  <2>2. /\ DOMAIN section = {"byLocation"}
        /\ section.byLocation = [loc \in Location \cup {NoLocation} |-> QuantityAt(rows, loc)]
    OBVIOUS
  <2>3. rows = report[r].snapshot
    BY DEF RowsOf
  <2> HIDE DEF section, rows
  <2>4. /\ DOMAIN report'[r] = DOMAIN report[r] \cup DOMAIN section
        /\ report'[r].pc = "attention"
        /\ \A x \in DOMAIN section : report'[r][x] = section[x]
        /\ \A x \in DOMAIN report[r] \ DOMAIN section : x # "pc" => report'[r][x] = report[r][x]
        /\ \A q \in DashboardReads \ {r} : report'[q] = report[q]
    BY <1>2, <2>1, <2>2, SectionAdded DEF PageOK
  <2>5. report'[r].snapshot = rows
    BY <1>2, <2>1, <2>2, <2>3, <2>4 DEF PageOK
  <2>6. TotalsRead(report'[r]) /\ CategoriesRead(report'[r])
    BY <1>2, <2>1, <2>2, <2>3, <2>4, <2>5 DEF TotalsRead, CategoriesRead, PageOK
  <2>7. LocationsRead(report'[r])
    BY <2>2, <2>4, <2>5 DEF LocationsRead
  <2>8. PageOK(report'[r])
    BY <1>2, <2>1, <2>3, <2>4, <2>5, <2>6, <2>7 DEF PageOK
  <2> QED
    BY <1>3, <2>4, <2>8
<1>9. CASE BuildAttention(r)
  <2> DEFINE rows == RowsOf(r)
             section == [attention |-> [status \in {"MISSING", "MISPLACED", "DISPOSED"} |->
                                          WithStatus(rows, {status})]]
  <2>1. report[r].pc = "attention" /\ Reports(r, section, "ok")
    BY <1>9 DEF BuildAttention
  <2>2. /\ DOMAIN section = {"attention"}
        /\ section.attention = [status \in {"MISSING", "MISPLACED", "DISPOSED"} |->
                                  WithStatus(rows, {status})]
    OBVIOUS
  <2>3. rows = report[r].snapshot
    BY DEF RowsOf
  <2> HIDE DEF section, rows
  <2>4. /\ DOMAIN report'[r] = DOMAIN report[r] \cup DOMAIN section
        /\ report'[r].pc = "ok"
        /\ \A x \in DOMAIN section : report'[r][x] = section[x]
        /\ \A x \in DOMAIN report[r] \ DOMAIN section : x # "pc" => report'[r][x] = report[r][x]
        /\ \A q \in DashboardReads \ {r} : report'[q] = report[q]
    BY <1>2, <2>1, <2>2, SectionAdded DEF PageOK
  <2>5. report'[r].snapshot = rows
    BY <1>2, <2>1, <2>2, <2>3, <2>4 DEF PageOK
  <2>6. TotalsRead(report'[r]) /\ CategoriesRead(report'[r]) /\ LocationsRead(report'[r])
    BY <1>2, <2>1, <2>2, <2>3, <2>4, <2>5 DEF TotalsRead, CategoriesRead, LocationsRead, PageOK
  <2>7. AttentionRead(report'[r])
    BY <2>2, <2>4, <2>5 DEF AttentionRead
  <2>8. PageOK(report'[r])
    BY <1>2, <2>1, <2>3, <2>4, <2>5, <2>6, <2>7 DEF PageOK
  <2> QED
    BY <1>3, <2>4, <2>8
<1> QED
  BY <1>1, <1>4, <1>5, <1>6, <1>7, <1>8, <1>9 DEF ReportStep

LEMMA NextKeepsPages ==
  ASSUME StockInv, QuantityCountsUnits, PagesOK, [Next \/ Done]_vars
  PROVE  PagesOK'
<1>1. CASE InReports(ReportsNext)
  BY <1>1, ReportsNextKeepsPages, StockInvParts DEF InReports
<1>2. CASE UNCHANGED report
  BY <1>2 DEF PagesOK
<1> QED
  BY <1>1, <1>2
     DEF Next, Done, vars, InPos, InUnits, InRecords, InCatalog, InAudits, InReceipts

(* "One consistent view": whatever commits while a report is put together, *)
(* its sections agree, because every query works on the rows of one        *)
(* snapshot.  The stock of the categories adds up balances, that of the    *)
(* locations units, so it takes balances that count their units, which is  *)
(* what the hypothesis says; section 6 of the README names the handlers    *)
(* that can break it.                                                      *)
THEOREM ReportsAgree == Spec /\ []QuantityCountsUnits => []ReportConsistent
<1>1. Init => PagesOK
  <2> SUFFICES ASSUME Init
               PROVE  PagesOK
    OBVIOUS
  <2>1. report = [r \in DashboardReads |-> AtSection("idle")]
    BY DEF Init, InitReportLocals
  <2>2. PageOK(AtSection("idle"))
    BY DEF PageOK, AtSection
  <2> QED
    BY <2>1, <2>2 DEF PagesOK
<1>2. StockInv /\ QuantityCountsUnits /\ PagesOK /\ [Next \/ Done]_vars => PagesOK'
  BY NextKeepsPages
<1>3. PagesOK => ReportConsistent
  <2> SUFFICES ASSUME PagesOK, NEW r \in DashboardReads, report[r].pc = "ok"
               PROVE  LET page == report[r]
                          counted(statuses) == Total(page.unitStatus, statuses)
                      IN  /\ page.byCategory = Total(page.byLocation, Location \cup {NoLocation})
                          /\ page.byCategory = page.stockValue
                          /\ page.trackedUnitCount =
                               counted(ProductUnitStatus \ RETIRED_UNIT_STATUSES)
                          /\ \A status \in DOMAIN page.attention :
                                page.attention[status] = page.unitStatus[status]
    BY DEF ReportConsistent
  <2> DEFINE page == report[r]
             rows == page.snapshot
             tracked == ProductUnitStatus \ RETIRED_UNIT_STATUSES
  <2>1. /\ RowsTyped(rows) /\ RowsInStep(rows)
        /\ TotalsRead(page) /\ CategoriesRead(page) /\ LocationsRead(page) /\ AttentionRead(page)
    BY DEF PagesOK, PageOK
  <2>2. Quantity(rows, LiveProducts(rows)) = Total(page.byLocation, Location \cup {NoLocation})
    BY <2>1, StockTotals DEF LocationsRead
  <2>3. page.trackedUnitCount = Total(page.unitStatus, tracked)
    BY <2>1, StatusTotals DEF TotalsRead
  <2>4. \A status \in DOMAIN page.attention : page.attention[status] = page.unitStatus[status]
    BY <2>1 DEF AttentionRead, TotalsRead, ProductUnitStatus, STOCK_COUNTED_STATUSES,
                LOCATION_CLEARED_STATUSES
  <2> QED
    BY <2>1, <2>2, <2>3, <2>4 DEF CategoriesRead, TotalsRead
<1> QED
  BY <1>1, <1>2, <1>3, StockInvariant, PTL DEF Spec

-----------------------------------------------------------------------------
(* Units, whoever writes them.                                             *)

(* A request handles units in one handler only.                            *)
LEMMA UnitWritersApart ==
  /\ Changes \cap (PosReq \cup Registrations \cup Completions) = {}
  /\ Edits \cap (PosReq \cup Changes \cup Registrations \cup Completions) = {}
  /\ Registrations \cap (PosReq \cup Completions) = {}
  /\ (Records \cup CatalogReq \cup Creations \cup Scanners \cup Cancellations \cup Receipts)
        \cap (PosReq \cup Changes \cup Registrations \cup Completions) = {}
<1> DEFINE handlers == <<Checkouts, Voids, Changes, Edits, Registrations, Records, CatalogReq,
                         Creations, Scanners, Completions, Cancellations, Receipts,
                         DashboardReads>>
<1>1. \A i, j \in 1 .. 13 : i # j => handlers[i] \cap handlers[j] = {}
  BY HandlerAssumption, Zenon
<1>2. /\ handlers[1] = Checkouts /\ handlers[2] = Voids /\ handlers[3] = Changes
      /\ handlers[4] = Edits /\ handlers[5] = Registrations /\ handlers[6] = Records
      /\ handlers[7] = CatalogReq /\ handlers[8] = Creations /\ handlers[9] = Scanners
      /\ handlers[10] = Completions /\ handlers[11] = Cancellations /\ handlers[12] = Receipts
  OBVIOUS
<1> HIDE DEF handlers
<1>3. \A i \in {1, 2, 3, 5, 10}, j \in {4, 6, 7, 8, 9, 11, 12} :
         handlers[i] \cap handlers[j] = {}
  BY <1>1
<1>4. \A i \in {1, 2, 3, 5, 10}, j \in {1, 2, 3, 5, 10} :
         i # j => handlers[i] \cap handlers[j] = {}
  BY <1>1
<1>5. /\ Changes \cap (PosReq \cup Registrations \cup Completions) = {}
      /\ Registrations \cap (PosReq \cup Completions) = {}
  BY <1>2, <1>4 DEF PosReq
<1>6. Edits \cap (PosReq \cup Changes \cup Registrations \cup Completions) = {}
  BY <1>2, <1>3 DEF PosReq
<1>7. /\ Records \cap (PosReq \cup Changes \cup Registrations \cup Completions) = {}
      /\ CatalogReq \cap (PosReq \cup Changes \cup Registrations \cup Completions) = {}
      /\ Creations \cap (PosReq \cup Changes \cup Registrations \cup Completions) = {}
  BY <1>2, <1>3 DEF PosReq
<1>8. /\ Scanners \cap (PosReq \cup Changes \cup Registrations \cup Completions) = {}
      /\ Cancellations \cap (PosReq \cup Changes \cup Registrations \cup Completions) = {}
      /\ Receipts \cap (PosReq \cup Changes \cup Registrations \cup Completions) = {}
  BY <1>2, <1>3 DEF PosReq
<1> QED
  BY <1>5, <1>6, <1>7, <1>8

(* The requests whose transactions write units, the units they may write,  *)
(* and a statement, commit or rollback of q that writes no other.  Outside *)
(* the point of sale a unit is written with its product.                   *)
UnitWriters == PosReq \cup Changes \cup Registrations \cup Completions

Writable(q, u) ==
  IF q \in Registrations THEN u \in NewUnits(RegistrationOf[q]) ELSE There(u)

WritesUnits(q, p, units) ==
  \A u \in DOMAIN units :
     /\ u \in Unit /\ units[u].status # "UNREGISTERED"
     /\ Writable(q, u)
     /\ q \notin PosReq => ProductOf[u] = p
     /\ ChangesSpareSold /\ q \in Changes => committed[u].status # "SOLD"

UnitStep(q) ==
  \/ /\ q \in UnitWriters
     /\ \E p \in Product : \E row, units :
           WritesUnits(q, p, units) /\ Stage(q, WriteStock(p, row, units))
  \/ \E u \in Unit : \E value :
        /\ AutoCommit(Write(u, value))
        /\ There(u) /\ value.status # "UNREGISTERED"
        /\ ChangesSpareSold /\ committed[u].status = "SOLD" => value.status = "SOLD"
  \/ Sparing(q, Unit)

(* What such a step makes of a unit: q has written it, it is left alone,   *)
(* q's version of it is published or forgotten, or it is written in a      *)
(* transaction of its own.                                                 *)
Written(q, u) ==
  /\ holder[u] \in {NoReq, q} /\ holder'[u] = q /\ q \in UnitWriters
  /\ Writable(q, u) /\ pending'[u].status # "UNREGISTERED" /\ committed'[u] = committed[u]
  /\ q \notin PosReq => holder'[ProductOf[u]] = q
  /\ ChangesSpareSold /\ q \in Changes => committed[u].status # "SOLD"

LeftAlone(u) ==
  holder'[u] = holder[u] /\ pending'[u] = pending[u] /\ committed'[u] = committed[u]

Published(q, u) ==
  holder[u] = q /\ holder'[u] = NoReq /\ Commit(q) /\ committed'[u] = pending[u]

Forgotten(q, u) ==
  holder[u] = q /\ holder'[u] = NoReq /\ Rollback(q) /\ committed'[u] = committed[u]

Replaced(u) ==
  /\ holder[u] = NoReq /\ holder'[u] = NoReq /\ There(u) /\ There(u)'
  /\ ChangesSpareSold /\ committed[u].status = "SOLD" => committed'[u].status = "SOLD"

LEMMA UnitAfter ==
  ASSUME NEW q \in Req, UnitStep(q), NEW u \in Unit
  PROVE  Written(q, u) \/ LeftAlone(u) \/ Published(q, u) \/ Forgotten(q, u) \/ Replaced(u)
<1>1. u \in Row /\ u \notin Product
  BY RowAssumption DEF Row
<1>2. ASSUME NEW p \in Product, NEW row, NEW units, q \in UnitWriters,
             WritesUnits(q, p, units), Stage(q, WriteStock(p, row, units))
      PROVE  Written(q, u) \/ LeftAlone(u)
  <2> DEFINE rows == WriteStock(p, row, units)
  <2>1. /\ u \in DOMAIN rows <=> u \in DOMAIN units
        /\ u \in DOMAIN units => rows[u] = units[u]
        /\ p \in DOMAIN rows /\ p \in Row
    BY <1>1 DEF WriteStock, Row
  <2> HIDE DEF rows
  <2>2. Stage(q, rows)
    BY <1>2 DEF rows
  <2>3. CASE u \in DOMAIN units
    <3>1. /\ holder'[u] = q /\ pending'[u] = units[u] /\ committed'[u] = committed[u]
          /\ holder[u] \in {NoReq, q} /\ holder'[p] = q
      BY <1>1, <2>1, <2>2, <2>3 DEF Stage, Lockable
    <3> QED
      BY <1>2, <2>3, <3>1 DEF WritesUnits, Written
  <2>4. CASE u \notin DOMAIN units
    BY <1>1, <2>1, <2>2, <2>4 DEF Stage, LeftAlone
  <2> QED
    BY <2>3, <2>4
<1>3. ASSUME NEW w \in Unit, NEW value, AutoCommit(Write(w, value)),
             There(w) /\ value.status # "UNREGISTERED",
             ChangesSpareSold /\ committed[w].status = "SOLD" => value.status = "SOLD"
      PROVE  Replaced(u) \/ LeftAlone(u)
  <2> DEFINE rows == Write(w, value)
  <2>1. DOMAIN rows = {w} /\ rows[w] = value
    BY DEF Write
  <2> HIDE DEF rows
  <2>2. AutoCommit(rows)
    BY <1>3 DEF rows
  <2>3. CASE u = w
    <3>1. holder[u] = NoReq /\ holder'[u] = NoReq /\ committed'[u] = value
      BY <1>1, <2>1, <2>2, <2>3 DEF AutoCommit
    <3> QED
      BY <1>3, <2>3, <3>1 DEF Replaced, There
  <2>4. CASE u # w
    BY <1>1, <2>1, <2>2, <2>4 DEF AutoCommit, LeftAlone
  <2> QED
    BY <2>3, <2>4
<1>4. CASE Sparing(q, Unit)
  <2>1. CASE holder[u] # q
    <3>1. u \in Row \cap Unit
      BY <1>1
    <3> QED
      BY <1>4, <2>1, <3>1, SparingRows DEF LeftAlone
  <2>2. ASSUME NEW rows, (DOMAIN rows) \cap Unit = {}, Stage(q, rows) \/ AutoCommit(rows)
        PROVE  LeftAlone(u)
    <3>1. u \notin DOMAIN rows
      BY <2>2
    <3> QED
      BY <1>1, <2>2, <3>1 DEF Stage, AutoCommit, LeftAlone
  <2>3. CASE Commit(q) /\ holder[u] = q
    BY <1>1, <2>3 DEF Commit, Released, Published
  <2>4. CASE Rollback(q) /\ holder[u] = q
    BY <1>1, <2>4 DEF Rollback, Released, Forgotten
  <2>5. CASE UNCHANGED dbVars
    BY <2>5 DEF dbVars, LeftAlone
  <2> QED
    BY <1>4, <2>1, <2>2, <2>3, <2>4, <2>5 DEF Sparing
<1> QED
  BY <1>2, <1>3, <1>4 DEF UnitStep

(* A unit that is there stays there.                                       *)
LEMMA ThereStays ==
  ASSUME UnitsRegistered, NEW q \in Req, UnitStep(q), NEW u \in Unit, There(u)
  PROVE  There(u)'
<1>1. CASE Published(q, u)
  <2>1. pending[u].status # "UNREGISTERED"
    BY <1>1, RowAssumption DEF Published, UnitsRegistered
  <2> QED
    BY <1>1, <2>1 DEF Published, There
<1>2. CASE Written(q, u) \/ LeftAlone(u) \/ Forgotten(q, u) \/ Replaced(u)
  BY <1>2 DEF Written, LeftAlone, Forgotten, Replaced, There
<1> QED
  BY <1>1, <1>2, UnitAfter

(* What a registration does of its units, and when.                        *)
RegistrationMoves(q) ==
  \/ registration[q] = "idle" /\ registration'[q] \in {"write", "failed"} /\ UNCHANGED dbVars
  \/ registration[q] = "write" /\ registration'[q] = "commit" /\ \E rows : Stage(q, rows)
  \/ registration[q] = "commit" /\ registration'[q] = "ok" /\ Commit(q)
  \/ registration'[q] = "failed" /\ Rollback(q)

RegistrationsMove(q) ==
  /\ \A r \in Registrations \ {q} : registration'[r] = registration[r]
  /\ q \in Registrations => RegistrationMoves(q)

(* The first two parts of UnitsRegistered.                                 *)
HoldersFit ==
  \A u \in Unit : holder[u] # NoReq =>
     /\ holder[u] \in UnitWriters
     /\ pending[u].status # "UNREGISTERED"
     /\ IF holder[u] \in Registrations
          THEN registration[holder[u]] = "commit" /\ u \in NewUnits(RegistrationOf[holder[u]])
          ELSE There(u)

NotYetRegistered ==
  \A r \in Registrations : registration[r] \in {"idle", "write", "commit"} =>
     \A u \in NewUnits(RegistrationOf[r]) : ~ There(u)

LEMMA RegisteredParts ==
  UnitsRegistered <=>
    /\ HoldersFit /\ NotYetRegistered
    /\ \A r \in Changes : change[r].pc = "write" => There(change[r].body.unit)
    /\ \A r \in Edits : edit[r].pc = "write" => There(edit[r].body.unit)
    /\ \A r \in Checkouts : checkout[r].pc = "sell" =>
          /\ checkout[r].next <= Len(checkout[r].lines) + 1
          /\ \A u \in UnitsOf(checkout[r].lines, checkout[r].next - 1) : There(u)
    /\ \A s \in Sale : \A u \in UnitsOf(committed[s].items, Len(committed[s].items)) : There(u)
BY DEF UnitsRegistered, HoldersFit, NotYetRegistered, UnitWriters, PosReq

LEMMA NewUnitsType ==
  ASSUME NEW r \in Registrations
  PROVE  /\ NewUnits(RegistrationOf[r]) \subseteq Unit
         /\ \A u \in NewUnits(RegistrationOf[r]) :
               ProductOf[u] = RegistrationOf[r].product /\ OpeningUnit[u] = Unregistered
         /\ RegistrationOf[r].product \in Product
BY UnitsAssumption DEF RegistrationBody, NewUnits

LEMMA HoldersStayFit ==
  ASSUME UnitsRegistered, NEW q \in Req, UnitStep(q), RegistrationsMove(q)
  PROVE  HoldersFit'
<1> SUFFICES ASSUME NEW u \in Unit, holder'[u] # NoReq
             PROVE  /\ holder'[u] \in UnitWriters
                    /\ pending'[u].status # "UNREGISTERED"
                    /\ IF holder'[u] \in Registrations
                         THEN /\ registration'[holder'[u]] = "commit"
                              /\ u \in NewUnits(RegistrationOf[holder'[u]])
                         ELSE There(u)'
  BY DEF HoldersFit, UnitWriters
<1>1. q # NoReq /\ u \in Row
  BY RowAssumption DEF Row
<1>2. HoldersFit
  BY RegisteredParts
<1>3. CASE holder'[u] = q /\ holder[u] = q
  <2>1. \/ registration[q] = "commit" /\ q \in Registrations
        \/ q \notin Registrations /\ There(u)
    BY <1>1, <1>2, <1>3 DEF HoldersFit
  <2>2. ~ Commit(q) /\ ~ Rollback(q)
    BY <1>1, <1>3 DEF Commit, Rollback, Released
  <2>3. q \notin Registrations /\ There(u)
    BY <2>1, <2>2 DEF RegistrationsMove, RegistrationMoves
  <2>4. Written(q, u) \/ LeftAlone(u)
    BY <1>1, <1>3, UnitAfter DEF Published, Forgotten, Replaced
  <2> QED
    BY <1>1, <1>2, <1>3, <2>3, <2>4 DEF Written, LeftAlone, HoldersFit, There
<1>4. CASE holder'[u] = q /\ holder[u] # q
  <2>1. Written(q, u)
    BY <1>1, <1>4, UnitAfter DEF LeftAlone, Published, Forgotten, Replaced
  <2>2. q \in Registrations => registration'[q] = "commit"
    <3>1. ~ UNCHANGED dbVars
      BY <1>4 DEF dbVars
    <3>2. ~ Commit(q) /\ ~ Rollback(q)
      BY <1>1, <1>4 DEF Commit, Rollback, Released
    <3> QED
      BY <3>1, <3>2 DEF RegistrationsMove, RegistrationMoves
  <2> QED
    BY <1>4, <2>1, <2>2 DEF Written, Writable, There
<1>5. CASE holder'[u] # q
  <2>1. LeftAlone(u)
    BY <1>1, <1>5, UnitAfter DEF Written, Published, Forgotten, Replaced
  <2>2. holder[u] = holder'[u] /\ holder[u] # NoReq
    BY <2>1 DEF LeftAlone
  <2>3. holder[u] \in Registrations => registration'[holder[u]] = registration[holder[u]]
    BY <1>5, <2>2 DEF RegistrationsMove
  <2> QED
    BY <1>2, <2>1, <2>2, <2>3 DEF HoldersFit, LeftAlone, There
<1> QED
  BY <1>3, <1>4, <1>5

LEMMA StaysUnregistered ==
  ASSUME UnitsRegistered, NEW q \in Req, UnitStep(q), RegistrationsMove(q)
  PROVE  NotYetRegistered'
<1> SUFFICES ASSUME NEW r \in Registrations, registration'[r] \in {"idle", "write", "commit"},
                    NEW u \in NewUnits(RegistrationOf[r])
             PROVE  ~ There(u)'
  BY DEF NotYetRegistered
<1>1. u \in Unit /\ q # NoReq
  BY NewUnitsType, RowAssumption
<1>2. HoldersFit /\ NotYetRegistered
  BY RegisteredParts
<1>3. CASE r = q
  <2>1. RegistrationMoves(q) /\ registration'[q] \in {"idle", "write", "commit"}
    BY <1>3 DEF RegistrationsMove
  <2>2. registration[q] \in {"idle", "write"} /\ committed' = committed
    BY <2>1 DEF RegistrationMoves, Stage, dbVars
  <2> QED
    BY <1>2, <1>3, <2>2 DEF NotYetRegistered, There
<1>4. CASE r # q
  <2>1. ~ There(u)
    BY <1>2, <1>4 DEF NotYetRegistered, RegistrationsMove
  <2>2. ~ Replaced(u)
    BY <2>1 DEF Replaced
  <2>3. ~ Published(q, u)
    <3> SUFFICES ASSUME Published(q, u)
                 PROVE  FALSE
      OBVIOUS
    <3>1. q \in Registrations /\ u \in NewUnits(RegistrationOf[q])
      BY <1>1, <1>2, <2>1 DEF Published, HoldersFit
    <3> QED
      BY <1>4, <3>1, UnitsAssumption
  <2>4. Written(q, u) \/ LeftAlone(u) \/ Forgotten(q, u)
    BY <1>1, <2>2, <2>3, UnitAfter
  <2> QED
    BY <2>1, <2>4 DEF Written, LeftAlone, Forgotten, There
<1> QED
  BY <1>3, <1>4

(* What else a step has to keep to: what is about to be written was there  *)
(* when it was read, and what is sold is there.                            *)
ChangesRead == \A r \in Changes : change'[r].pc = "write" => There(change'[r].body.unit)

EditsRead == \A r \in Edits : edit'[r].pc = "write" => There(edit'[r].body.unit)

CheckoutsSell ==
  \A r \in Checkouts : checkout'[r].pc = "sell" =>
     /\ checkout'[r].next <= Len(checkout'[r].lines) + 1
     /\ \A u \in UnitsOf(checkout'[r].lines, checkout'[r].next - 1) : There(u)

SalesSell ==
  \A s \in Sale : \A u \in UnitsOf(committed'[s].items, Len(committed'[s].items)) : There(u)

RegisteredBy(q) ==
  /\ UnitStep(q) /\ RegistrationsMove(q) /\ ChangesRead /\ EditsRead
  /\ CheckoutsSell /\ SalesSell

LEMMA RegisteredStays ==
  ASSUME StockInv', UnitsRegistered, NEW q \in Req, RegisteredBy(q)
  PROVE  UnitsRegistered'
<1>1. UnitStep(q) /\ RegistrationsMove(q)
  BY DEF RegisteredBy
<1>2. \A u \in Unit : There(u) => There(u)'
  BY <1>1, ThereStays
<1>3. HoldersFit' /\ NotYetRegistered'
  BY <1>1, HoldersStayFit, StaysUnregistered
<1>4. TypeOKUnits' /\ TypeOKPos' /\ PosLocalsConsistent' /\ DbTypeOK(committed')
  BY DEF StockInv, InventoryTypeOK, TypeOK, TypeOKDb
<1>5. ASSUME NEW r \in Changes, change'[r].pc = "write"
      PROVE  There(change[r].body.unit)'
  <2>1. change'[r].body.unit \in Unit /\ There(change'[r].body.unit)
    BY <1>4, <1>5 DEF TypeOKUnits, ChangeState, ChangeBody, RegisteredBy, ChangesRead
  <2> QED
    BY <1>2, <2>1 DEF There
<1>6. ASSUME NEW r \in Edits, edit'[r].pc = "write"
      PROVE  There(edit[r].body.unit)'
  <2>1. edit'[r].body.unit \in Unit /\ There(edit'[r].body.unit)
    BY <1>4, <1>6 DEF TypeOKUnits, EditState, EditBody, RegisteredBy, EditsRead
  <2> QED
    BY <1>2, <2>1 DEF There
<1>7. ASSUME NEW r \in Checkouts, checkout'[r].pc = "sell"
      PROVE  /\ checkout'[r].next <= Len(checkout'[r].lines) + 1
             /\ \A u \in UnitsOf(checkout'[r].lines, checkout'[r].next - 1) : There(u)'
  <2>1. checkout'[r].lines \in Seq(SaleLine) /\ checkout'[r].next \in Nat \ {0}
    BY <1>4 DEF TypeOKPos, CheckoutState
  <2>2. /\ checkout'[r].next <= Len(checkout'[r].lines) + 1
        /\ \A u \in UnitsOf(checkout'[r].lines, checkout'[r].next - 1) : There(u)
    BY <1>7 DEF RegisteredBy, CheckoutsSell
  <2>3. checkout'[r].next - 1 \in 0 .. Len(checkout'[r].lines)
    BY <2>1, <2>2
  <2>4. UnitsOf(checkout'[r].lines, checkout'[r].next - 1) \subseteq Unit
    BY <2>1, <2>3, UnitsOfType
  <2> QED
    BY <1>2, <2>2, <2>4
<1>8. ASSUME NEW s \in Sale, NEW u \in UnitsOf(committed'[s].items, Len(committed'[s].items))
      PROVE  There(u)'
  <2>1. committed'[s].items \in Seq(SaleLine)
    BY <1>4 DEF DbTypeOK, SaleRow
  <2>2. u \in Unit
    BY <2>1, UnitsOfType
  <2> QED
    BY <1>2, <2>2 DEF RegisteredBy, SalesSell
<1> QED
  BY <1>3, <1>5, <1>6, <1>7, <1>8
     DEF UnitsRegistered, HoldersFit, NotYetRegistered, UnitWriters, PosReq

(* The unit handlers.                                                      *)
LEMMA ChangeWrites ==
  ASSUME TypeOKUnits, UnitsRegistered, NEW r \in Changes, change[r].pc = "write"
  PROVE  LET u == change[r].body.unit
         IN  /\ u \in Unit /\ There(u) /\ ChangedUnit(r).status # "UNREGISTERED"
             /\ ChangesSpareSold => committed[u].status # "SOLD"
<1>1. change[r].body \in ChangeBody /\ There(change[r].body.unit)
  BY DEF TypeOKUnits, ChangeState, UnitsRegistered
<1>2. "UNREGISTERED" \notin ProductUnitStatus
  BY DEF ProductUnitStatus, STOCK_COUNTED_STATUSES, LOCATION_CLEARED_STATUSES
<1> QED
  BY <1>1, <1>2 DEF ChangeBody, ChangedUnit, ChangesSpareSold

LEMMA ChangesRegister ==
  ASSUME TypeOKUnits, UnitsRegistered, NEW r \in Changes,
         ReadForChange(r) \/ ChangeStep(r) \/ AbortChange(r)
  PROVE  UnitStep(r) /\ RegistrationsMove(r) /\ ChangesRead /\ EditsRead
<1> DEFINE u == change[r].body.unit
           p == ProductOf[u]
           rows == Write(u, ChangedUnit(r))
<1>1. r \in UnitWriters /\ r \notin PosReq /\ r \notin Registrations
  BY UnitWritersApart DEF UnitWriters
<1>2. edit' = edit /\ registration' = registration
  BY DEF ReadForChange, ChangeStep, WriteStatus, WriteStatusAndQuantity, CommitChange, AbortChange
<1>3. RegistrationsMove(r) /\ EditsRead
  BY <1>1, <1>2 DEF RegistrationsMove, EditsRead, UnitsRegistered
<1>4. ChangesRead
  <2>1. \A q \in Changes : change[q].pc = "write" => There(change[q].body.unit)
    BY DEF UnitsRegistered
  <2>2. DOMAIN change = Changes
    BY DEF TypeOKUnits
  <2>3. CASE ReadForChange(r)
    <3>1. PICK body \in ChangeBodies :
             \/ change' = [change EXCEPT ![r] = AtPc("failed")]
             \/ /\ Findable(body.unit)
                /\ \E loc, delta, key :
                      change' = [change EXCEPT ![r] =
                         [pc |-> "write", body |-> body, loc |-> loc, delta |-> delta, key |-> key]]
      BY <2>3 DEF ReadForChange, EndChange
    <3> QED
      BY <2>1, <2>2, <3>1 DEF ChangesRead, AtPc, Findable, There
  <2>4. CASE ChangeStep(r) \/ AbortChange(r)
    <3>1. \/ \E outcome \in {"ok", "failed"} : change' = [change EXCEPT ![r] = AtPc(outcome)]
          \/ change[r].pc = "write" /\ change' = [change EXCEPT ![r].pc = "commit"]
      BY <2>4 DEF ChangeStep, WriteStatus, WriteStatusAndQuantity, CommitChange, AbortChange,
                  EndChange
    <3>2. change[r].pc = "write" => change[r] \in ChangeState
      BY DEF TypeOKUnits
    <3>3. change'[r].pc # "write" /\ \A q \in Changes \ {r} : change'[q] = change[q]
      BY <2>2, <3>1, <3>2 DEF AtPc, ChangeState
    <3> QED
      BY <2>1, <3>3 DEF ChangesRead
  <2> QED
    BY <2>3, <2>4
<1>5. UnitStep(r)
  <2>1. CASE ReadForChange(r) \/ CommitChange(r) \/ AbortChange(r)
    BY <2>1 DEF ReadForChange, CommitChange, AbortChange, Sparing, UnitStep
  <2>2. CASE WriteStatus(r)
    <3>1. u \in Unit /\ There(u) /\ ChangedUnit(r).status # "UNREGISTERED"
          /\ (ChangesSpareSold => committed[u].status # "SOLD")
      BY <2>2, ChangeWrites DEF WriteStatus
    <3>2. AutoCommit(Write(u, ChangedUnit(r)))
      BY <2>2 DEF WriteStatus
    <3> HIDE DEF u
    <3> QED
      BY <3>1, <3>2 DEF UnitStep
  <2>3. CASE WriteStatusAndQuantity(r)
    <3>1. u \in Unit /\ There(u) /\ ChangedUnit(r).status # "UNREGISTERED"
          /\ (ChangesSpareSold => committed[u].status # "SOLD")
      BY <2>3, ChangeWrites DEF WriteStatusAndQuantity
    <3>2. Rollback(r) \/ Stage(r, WriteStock(p, ChangedRow(r), rows))
      BY <2>3 DEF WriteStatusAndQuantity
    <3>3. p \in Product
      BY <3>1, OpeningAssumption
    <3>4. DOMAIN rows = {u} /\ rows[u] = ChangedUnit(r)
      BY DEF Write
    <3>5. WritesUnits(r, p, rows)
      <4> HIDE DEF rows, u
      <4> QED
        BY <1>1, <3>1, <3>4 DEF WritesUnits, Writable
    <3> HIDE DEF rows, u, p
    <3> QED
      BY <1>1, <3>2, <3>3, <3>5 DEF UnitStep, Sparing
  <2> QED
    BY <2>1, <2>2, <2>3 DEF ChangeStep
<1> QED
  BY <1>3, <1>4, <1>5

LEMMA EditsRegister ==
  ASSUME DbInv, TypeOKUnits, UnitsRegistered, NEW r \in Edits,
         ReadForEdit(r) \/ WriteLocation(r) \/ AbortEdit(r)
  PROVE  UnitStep(r) /\ RegistrationsMove(r) /\ ChangesRead /\ EditsRead
<1> DEFINE u == edit[r].body.unit
<1>1. r \notin Registrations
  BY UnitWritersApart
<1>2. change' = change /\ registration' = registration
  BY DEF ReadForEdit, WriteLocation, AbortEdit
<1>3. RegistrationsMove(r) /\ ChangesRead
  BY <1>1, <1>2 DEF RegistrationsMove, ChangesRead, UnitsRegistered
<1>4. EditsRead
  <2>1. \A q \in Edits : edit[q].pc = "write" => There(edit[q].body.unit)
    BY DEF UnitsRegistered
  <2>2. \/ \E outcome \in {"ok", "failed"} : edit' = [edit EXCEPT ![r] = AtPc(outcome)]
        \/ \E body : /\ Findable(body.unit)
                     /\ edit' = [edit EXCEPT ![r] = [pc |-> "write", body |-> body]]
    BY DEF ReadForEdit, WriteLocation, AbortEdit, EndEdit
  <2> QED
    BY <2>1, <2>2 DEF EditsRead, AtPc, Findable, There, TypeOKUnits
<1>5. UnitStep(r)
  <2>1. CASE ReadForEdit(r) \/ AbortEdit(r)
    BY <2>1 DEF ReadForEdit, AbortEdit, Sparing, UnitStep
  <2>2. CASE WriteLocation(r)
    <3> DEFINE value == [committed[u] EXCEPT !.loc = edit[r].body.loc]
    <3>1. u \in Unit /\ There(u)
      BY <2>2 DEF WriteLocation, TypeOKUnits, EditState, EditBody, UnitsRegistered
    <3>2. AutoCommit(Write(u, value))
      BY <2>2 DEF WriteLocation
    <3>3. value.status = committed[u].status
      <4>1. committed[u] \in UnitRow
        BY <3>1 DEF DbInv, TypeOKDb, DbTypeOK
      <4> QED
        BY <4>1 DEF UnitRow
    <3> HIDE DEF u, value
    <3> QED
      BY <3>1, <3>2, <3>3 DEF UnitStep, There
  <2> QED
    BY <2>1, <2>2
<1> QED
  BY <1>3, <1>4, <1>5

LEMMA RegistrationsRegister ==
  ASSUME TypeOKUnits, UnitsRegistered, NEW r \in Registrations,
         CheckRegistration(r) \/ RegistrationStep(r) \/ AbortRegistration(r)
  PROVE  UnitStep(r) /\ RegistrationsMove(r) /\ ChangesRead /\ EditsRead
<1> DEFINE body == RegistrationOf[r]
           p == body.product
           units == [u \in NewUnits(body) |-> [status |-> "IN_STOCK", loc |-> body.loc]]
<1>1. r \in UnitWriters /\ r \notin PosReq /\ r \notin Changes
  BY UnitWritersApart DEF UnitWriters
<1>2. change' = change /\ edit' = edit
  BY DEF CheckRegistration, RegistrationStep, CreateUnits, CommitRegistration, AbortRegistration
<1>3. ChangesRead /\ EditsRead
  BY <1>2 DEF ChangesRead, EditsRead, UnitsRegistered
<1>4. RegistrationsMove(r)
  <2>1. DOMAIN registration = Registrations
    BY DEF TypeOKUnits
  <2>2. \A pc : GoRegistration(r, pc) =>
           registration'[r] = pc /\ \A q \in Registrations \ {r} : registration'[q] = registration[q]
    BY <2>1 DEF GoRegistration
  <2>3. CASE CheckRegistration(r)
    BY <2>2, <2>3 DEF CheckRegistration, RegistrationsMove, RegistrationMoves
  <2>4. CASE RegistrationStep(r) \/ AbortRegistration(r)
    BY <2>2, <2>4 DEF RegistrationStep, CreateUnits, CommitRegistration, AbortRegistration,
                      RegistrationsMove, RegistrationMoves
  <2> QED
    BY <2>3, <2>4
<1>5. UnitStep(r)
  <2>1. CASE CheckRegistration(r) \/ CommitRegistration(r) \/ AbortRegistration(r)
    BY <2>1 DEF CheckRegistration, CommitRegistration, AbortRegistration, Sparing, UnitStep
  <2>2. CASE CreateUnits(r)
    <3>1. p \in Product /\ WritesUnits(r, p, units)
      BY <1>1, NewUnitsType DEF WritesUnits, Writable
    <3>2. \E row : Stage(r, WriteStock(p, row, units))
      BY <2>2 DEF CreateUnits
    <3> HIDE DEF p, units
    <3> QED
      BY <1>1, <3>1, <3>2 DEF UnitStep
  <2> QED
    BY <2>1, <2>2 DEF RegistrationStep
<1> QED
  BY <1>3, <1>4, <1>5

(* An audit writes a unit whose status it manages: one that is there.      *)
LEMMA CompletionsRegister ==
  ASSUME DbInv, TypeOKAudits, AuditsConsistent, NEW r \in Completions,
         ReadForCompletion(r) \/ CompletionStep(r) \/ AbortCompletion(r)
  PROVE  UnitStep(r)
<1>1. /\ r \in UnitWriters /\ r \notin Changes /\ r \notin Registrations
      /\ r \in Req /\ AuditOf[r] \in Audit
  BY UnitWritersApart, AuditRequest DEF UnitWriters
<1>2. CASE ReadForCompletion(r) \/ RefreshScanResults(r) \/ PlanUnitTransitions(r)
             \/ CommitCompletion(r) \/ AbortCompletion(r)
  BY <1>2 DEF ReadForCompletion, RefreshScanResults, PlanUnitTransitions, CommitCompletion,
              AbortCompletion, Sparing, UnitStep
<1>3. CASE ClaimAudit(r)
  <2>1. UNCHANGED dbVars \/ Stage(r, Write(AuditOf[r], [status |-> "COMPLETED"]))
    BY <1>3 DEF ClaimAudit
  <2>2. AuditOf[r] \notin Unit
    BY <1>1, RowAssumption
  <2>3. Sparing(r, Unit)
    BY <2>1, <2>2, RowSpares DEF Sparing
  <2> QED
    BY <2>3 DEF UnitStep
<1>4. CASE ReconcileProduct(r)
  <2> DEFINE todo == completing[r].todo
             planned(p) == {tr \in todo : ProductOf[tr.unit] = p}
             units(p) == [u \in {tr.unit : tr \in Applied(r, planned(p))} |->
                            ReconciledUnit(r, planned(p), u)]
  <2>1. PICK p \in NextProducts(todo) :
           Rollback(r) \/ \E row : Stage(r, WriteStock(p, row, units(p)))
    BY <1>4 DEF ReconcileProduct
  <2>2. todo \in SUBSET UnitTransition
    BY DEF TypeOKAudits, CompletionState
  <2>3. p \in Product
    <3>1. p \in {ProductOf[tr.unit] : tr \in todo}
      BY DEF NextProducts
    <3> QED
      BY <2>2, <3>1, OpeningAssumption DEF UnitTransition
  <2>4. planned(p) \in SUBSET UnitTransition
        /\ \A tr \in planned(p) : ProductOf[tr.unit] = p
    BY <2>2
  <2>5. ASSUME NEW u \in {tr.unit : tr \in Applied(r, planned(p))}
        PROVE  /\ u \in Unit /\ ProductOf[u] = p
               /\ Spares(committed[u], ReconciledUnit(r, planned(p), u))
    <3> HIDE DEF planned
    <3>1. u \in Unit /\ ProductOf[u] = p
      BY <2>4 DEF Applied, HomeApplied, UnitTransition
    <3>2. holder[u] = r => Spares(committed[u], pending[u])
      BY <3>1 DEF AuditsConsistent, UnitsSpared
    <3> QED
      BY <1>1, <2>4, <3>1, <3>2, ReconciledSpares
  <2>6. WritesUnits(r, p, units(p))
    <3>1. ASSUME NEW u \in {tr.unit : tr \in Applied(r, planned(p))}
          PROVE  /\ u \in Unit /\ units(p)[u].status # "UNREGISTERED" /\ There(u)
                 /\ ProductOf[u] = p
      <4>1. units(p)[u] = ReconciledUnit(r, planned(p), u)
        OBVIOUS
      <4> HIDE DEF planned, units
      <4> QED
        BY <2>5, <4>1 DEF Spares, There, AUDIT_MANAGED_STATUSES
    <3>2. DOMAIN units(p) = {tr.unit : tr \in Applied(r, planned(p))}
      OBVIOUS
    <3> HIDE DEF units, planned
    <3> QED
      BY <1>1, <3>1, <3>2 DEF WritesUnits, Writable
  <2> HIDE DEF units
  <2> QED
    BY <1>1, <2>1, <2>3, <2>6 DEF UnitStep, Sparing
<1> QED
  BY <1>2, <1>3, <1>4 DEF CompletionStep

LEMMA AuditsRegister ==
  ASSUME DbInv, TypeOKAudits, AuditsConsistent, AuditsNext
  PROVE  \E q \in Creations \cup Scanners \cup Completions \cup Cancellations : UnitStep(q)
<1>1. ASSUME NEW r \in Creations \cup Scanners \cup Completions \cup Cancellations, NEW value
      PROVE  AutoCommit(Write(AuditOf[r], value)) => Sparing(r, Unit)
  BY AuditRequest, RowAssumption, RowSpares
<1>2. ASSUME NEW r \in Creations \cup Scanners,
             CreateInventoryAudit(r) \/ ScanStep(r) \/ AbortScan(r)
      PROVE  UnitStep(r)
  BY <1>1, <1>2 DEF CreateInventoryAudit, ScanStep, ReadAuditHeader, ResolveScans, InsertScans,
                    AbortScan, Sparing, UnitStep
<1>3. ASSUME NEW r \in Cancellations,
             ReadForCancel(r) \/ WriteCancelled(r) \/ AbortCancel(r)
      PROVE  UnitStep(r)
  BY <1>1, <1>3 DEF ReadForCancel, WriteCancelled, AbortCancel, Sparing, UnitStep
<1> QED
  BY <1>2, <1>3, CompletionsRegister DEF AuditsNext

(* The point of sale: what it sells is sellable, what it takes back was    *)
(* sold.                                                                   *)
LEMMA CheckoutsRegister ==
  ASSUME DbInv, PosInv, SalesInv, UnitsRegistered, NEW r \in Checkouts,
         BeginCheckout(r) \/ CheckoutStep(r) \/ AbortCheckout(r)
  PROVE  UnitStep(r) /\ CheckoutsSell /\ SalesSell
<1> DEFINE c == checkout[r]
<1>1. /\ r \in UnitWriters /\ r \in PosReq /\ r \notin Changes /\ r \notin Registrations
      /\ r \in Req /\ r # NoReq /\ SaleOf[r] \in Sale
  BY UnitWritersApart, PosAssumption, RowAssumption DEF UnitWriters, PosReq
<1>2. c \in CheckoutState /\ DOMAIN checkout = Checkouts
  BY DEF PosInv, TypeOKPos
<1>3. /\ \A q \in Checkouts : checkout[q].pc = "sell" =>
            /\ checkout[q].next <= Len(checkout[q].lines) + 1
            /\ \A u \in UnitsOf(checkout[q].lines, checkout[q].next - 1) : There(u)
      /\ \A s \in Sale : \A u \in UnitsOf(committed[s].items, Len(committed[s].items)) : There(u)
  BY DEF UnitsRegistered
<1>4. ASSUME committed' = committed
      PROVE  SalesSell
  BY <1>3, <1>4 DEF SalesSell
<1>5. ASSUME \A q \in Checkouts \ {r} : checkout'[q] = checkout[q], checkout'[r].pc # "sell"
      PROVE  CheckoutsSell
  BY <1>3, <1>5 DEF CheckoutsSell
<1>6. \A outcome \in {"ok", "failed"} : EndCheckout(r, outcome) =>
         checkout'[r].pc = outcome /\ \A q \in Checkouts \ {r} : checkout'[q] = checkout[q]
  BY <1>2 DEF EndCheckout, IdleCheckout
<1>7. CASE BeginCheckout(r)
  <2>1. checkout'[r].pc # "sell" /\ \A q \in Checkouts \ {r} : checkout'[q] = checkout[q]
    BY <1>2, <1>6, <1>7 DEF BeginCheckout, CheckoutState
  <2> QED
    BY <1>4, <1>5, <1>7, <2>1 DEF BeginCheckout, Sparing, UnitStep, dbVars
<1>8. CASE PrepareSaleLine(r)
  <2>1. checkout'[r].pc # "sell" /\ \A q \in Checkouts \ {r} : checkout'[q] = checkout[q]
    BY <1>2, <1>6, <1>8 DEF PrepareSaleLine, CheckoutState
  <2> QED
    BY <1>4, <1>5, <1>8, <2>1 DEF PrepareSaleLine, Sparing, UnitStep, dbVars
<1>9. CASE AbortCheckout(r)
  <2>1. Rollback(r) /\ EndCheckout(r, "failed")
    BY <1>9 DEF AbortCheckout
  <2> QED
    BY <1>4, <1>5, <1>6, <2>1 DEF Rollback, Sparing, UnitStep
<1>10. CASE CreateSale(r)
  <2>1. CASE EndCheckout(r, "failed") /\ UNCHANGED dbVars
    BY <1>4, <1>5, <1>6, <2>1 DEF Sparing, UnitStep, dbVars
  <2>2. CASE /\ Stage(r, Write(SaleOf[r], [status |-> "COMPLETED", items |-> c.lines]))
             /\ checkout' = [checkout EXCEPT ![r] = [c EXCEPT !.pc = "sell", !.next = 1]]
    <3>1. SaleOf[r] \notin Unit
      BY <1>1, RowAssumption
    <3>2. Sparing(r, Unit) /\ committed' = committed
      BY <2>2, <3>1, RowSpares DEF Stage
    <3>3. /\ checkout'[r].next = 1 /\ checkout'[r].lines = c.lines
          /\ \A q \in Checkouts \ {r} : checkout'[q] = checkout[q]
      BY <1>2, <2>2 DEF CheckoutState
    <3>4. Len(c.lines) \in Nat
      BY <1>2 DEF CheckoutState
    <3>5. CheckoutsSell
      BY <1>3, <3>3, <3>4, UnitsOfNone DEF CheckoutsSell
    <3> QED
      BY <1>4, <3>2, <3>5 DEF UnitStep
  <2> QED
    BY <1>10, <2>1, <2>2 DEF CreateSale
<1>11. CASE SellLine(r)
  <2> DEFINE line == c.lines[c.next]
             loc == c.loc[c.next]
             sold == [u \in {line.unit} \ {NoUnit} |-> [status |-> "SOLD", loc |-> NoLocation]]
  <2>1. /\ c.pc = "sell" /\ c.next <= Len(c.lines) /\ c.next \in Nat \ {0}
        /\ c.lines \in Seq(SaleLine)
    BY <1>2, <1>11 DEF SellLine, CheckoutState
  <2>2. line.product \in Product /\ line.unit \in Unit \cup {NoUnit}
    <3>1. c.next \in 1 .. Len(c.lines)
      BY <2>1
    <3> QED
      BY <2>1, <3>1, LineType
  <2>3. CASE Rollback(r) /\ EndCheckout(r, "failed")
    BY <1>4, <1>5, <1>6, <2>3 DEF Rollback, Sparing, UnitStep
  <2>4. CASE /\ line.unit # NoUnit => UnitStillSellable(r, line.unit)
             /\ Stage(r, WriteStock(line.product, SoldRow(r, line, loc, c.next), sold))
             /\ checkout' = [checkout EXCEPT ![r].next = @ + 1]
    <3>1. line.unit # NoUnit => There(line.unit)
      <4> SUFFICES ASSUME line.unit # NoUnit
                   PROVE  There(line.unit)
        OBVIOUS
      <4>1. CASE holder[line.unit] = r
        BY <1>1, <2>2, <4>1 DEF UnitsRegistered
      <4>2. CASE holder[line.unit] # r
        BY <2>4, <4>2 DEF UnitStillSellable, Visible, SELLABLE_UNIT_STATUSES, There
      <4> QED
        BY <4>1, <4>2
    <3>2. WritesUnits(r, line.product, sold)
      <4> HIDE DEF line
      <4> QED
        BY <1>1, <2>2, <3>1 DEF WritesUnits, Writable
    <3>3. UnitStep(r)
      <4> HIDE DEF line, loc, sold
      <4> QED
        BY <1>1, <2>2, <2>4, <3>2 DEF UnitStep
    <3>4. /\ checkout'[r].next = c.next + 1 /\ checkout'[r].lines = c.lines
          /\ \A q \in Checkouts \ {r} : checkout'[q] = checkout[q]
      BY <1>2, <2>4 DEF CheckoutState
    <3>5. UnitsOf(c.lines, c.next) = UnitsOf(c.lines, c.next - 1) \cup ({line.unit} \ {NoUnit})
      <4>1. c.next - 1 \in Nat /\ (c.next - 1) + 1 = c.next
        BY <2>1
      <4> QED
        BY <4>1, UnitsOfMore
    <3>6. CheckoutsSell
      <4> SUFFICES ASSUME NEW q \in Checkouts, checkout'[q].pc = "sell"
                   PROVE  /\ checkout'[q].next <= Len(checkout'[q].lines) + 1
                          /\ \A u \in UnitsOf(checkout'[q].lines, checkout'[q].next - 1) : There(u)
        BY DEF CheckoutsSell
      <4>1. CASE q # r
        BY <1>3, <3>4, <4>1
      <4>2. CASE q = r
        <5>1. checkout'[r].next - 1 = c.next /\ c.next <= Len(c.lines) /\ Len(c.lines) \in Nat
          BY <2>1, <3>4
        <5>2. \A u \in UnitsOf(c.lines, c.next - 1) : There(u)
          BY <1>3, <2>1
        <5> QED
          BY <2>1, <3>1, <3>4, <3>5, <4>2, <5>1, <5>2, SMTT(20)
      <4> QED
        BY <4>1, <4>2
    <3> QED
      BY <1>4, <2>4, <3>3, <3>6 DEF Stage
  <2> QED
    BY <1>11, <2>3, <2>4 DEF SellLine
<1>12. CASE CommitCheckout(r)
  <2>1. Commit(r) /\ EndCheckout(r, "ok") /\ c.pc = "sell" /\ c.next > Len(c.lines)
    BY <1>12 DEF CommitCheckout
  <2>2. CheckoutsSell
    BY <1>5, <1>6, <2>1
  <2>3. SalesSell
    <3> SUFFICES ASSUME NEW s \in Sale,
                        NEW u \in UnitsOf(committed'[s].items, Len(committed'[s].items))
                 PROVE  There(u)
      BY DEF SalesSell
    <3>1. s \in Row
      BY DEF Row
    <3>2. CASE holder[s] # r
      <4>1. committed'[s] = committed[s]
        BY <2>1, <3>1, <3>2 DEF Commit
      <4> QED
        BY <1>3, <4>1
    <3>3. CASE holder[s] = r
      <4>1. s = SaleOf[r] /\ pending[s].items = c.lines
        <5>1. s = SaleOf[r]
          BY <1>1, <3>3, PosAssumption DEF SalesInv, SalesConsistent
        <5>2. CheckoutConsistent(r)
          BY DEF SalesInv, SalesConsistent
        <5>3. pending[SaleOf[r]] = [status |-> "COMPLETED", items |-> c.lines]
          BY <2>1, <5>2 DEF CheckoutConsistent
        <5> QED
          BY <5>1, <5>3
      <4>2. committed'[s].items = c.lines
        BY <2>1, <3>1, <3>3, <4>1 DEF Commit
      <4>3. c.next - 1 = Len(c.lines)
        <5>1. c.next <= Len(c.lines) + 1 /\ c.next \in Nat /\ Len(c.lines) \in Nat
          BY <1>2, <1>3, <2>1 DEF CheckoutState
        <5> QED
          BY <2>1, <5>1
      <4> QED
        BY <1>3, <2>1, <4>2, <4>3
    <3> QED
      BY <3>2, <3>3
  <2> QED
    BY <2>1, <2>2, <2>3 DEF Sparing, UnitStep
<1> QED
  BY <1>7, <1>8, <1>9, <1>10, <1>11, <1>12 DEF CheckoutStep

LEMMA VoidsRegister ==
  ASSUME DbInv, PosInv, SalesInv, UnitsRegistered, NEW r \in Voids,
         ReadSale(r) \/ VoidStep(r) \/ AbortVoid(r)
  PROVE  UnitStep(r) /\ CheckoutsSell /\ SalesSell
<1> DEFINE v == void[r]
<1>1. /\ r \in UnitWriters /\ r \in PosReq /\ r \notin Changes /\ r \notin Registrations
      /\ r \in Req /\ r # NoReq /\ VoidTarget[r] \in Sale /\ r \notin Checkouts
  BY UnitWritersApart, PosAssumption, RowAssumption DEF UnitWriters, PosReq
<1>2. v \in VoidState
  BY DEF PosInv, TypeOKPos
<1>3. /\ \A q \in Checkouts : checkout[q].pc = "sell" =>
            /\ checkout[q].next <= Len(checkout[q].lines) + 1
            /\ \A u \in UnitsOf(checkout[q].lines, checkout[q].next - 1) : There(u)
      /\ \A s \in Sale : \A u \in UnitsOf(committed[s].items, Len(committed[s].items)) : There(u)
  BY DEF UnitsRegistered
<1>4. CheckoutsSell
  <2>1. checkout' = checkout
    BY DEF ReadSale, VoidStep, RestoreLine, MarkVoided, CommitVoid, AbortVoid
  <2> QED
    BY <1>3, <2>1 DEF CheckoutsSell
<1>5. ASSUME committed' = committed
      PROVE  SalesSell
  BY <1>3, <1>5 DEF SalesSell
<1>6. CASE ReadSale(r)
  BY <1>4, <1>5, <1>6 DEF ReadSale, Sparing, UnitStep, dbVars
<1>7. CASE AbortVoid(r)
  BY <1>4, <1>5, <1>7 DEF AbortVoid, Rollback, Sparing, UnitStep
<1>8. CASE MarkVoided(r)
  <2>1. VoidTarget[r] \notin Unit
    BY <1>1, RowAssumption
  <2>2. Sparing(r, Unit) /\ committed' = committed
    BY <1>8, <2>1, RowSpares DEF MarkVoided, Stage
  <2> QED
    BY <1>4, <1>5, <2>2 DEF UnitStep
<1>9. CASE RestoreLine(r)
  <2> DEFINE line == v.lines[v.next]
             loc == v.loc[v.next]
             returned == [u \in {line.unit} \ {NoUnit} |-> [status |-> "RETURNED", loc |-> loc]]
  <2>1. /\ v.pc = "restore" /\ v.next \in 1 .. Len(v.lines) /\ v.lines \in Seq(SaleLine)
        /\ Stage(r, WriteStock(line.product, RestoredRow(r, line, loc, v.next), returned))
    BY <1>2, <1>9 DEF RestoreLine, VoidState
  <2>2. line.product \in Product /\ line.unit \in Unit \cup {NoUnit}
    BY <2>1, LineType
  <2>3. committed[VoidTarget[r]].items = v.lines
    BY <2>1 DEF SalesInv, SalesConsistent, VoidConsistent
  <2>4. line.unit # NoUnit => There(line.unit)
    BY <1>1, <1>3, <2>1, <2>3 DEF UnitsOf
  <2>5. WritesUnits(r, line.product, returned)
    <3> HIDE DEF line
    <3> QED
      BY <1>1, <2>2, <2>4 DEF WritesUnits, Writable
  <2>6. UnitStep(r)
    <3> HIDE DEF line, loc, returned, v
    <3> QED
      BY <1>1, <2>1, <2>2, <2>5 DEF UnitStep
  <2> QED
    BY <1>4, <1>5, <2>1, <2>6 DEF Stage
<1>10. CASE CommitVoid(r)
  <2>1. Commit(r) /\ v.pc = "commit"
    BY <1>10 DEF CommitVoid
  <2>2. SalesSell
    <3> SUFFICES ASSUME NEW s \in Sale
                 PROVE  committed'[s].items = committed[s].items
      BY <1>3 DEF SalesSell
    <3>1. s \in Row
      BY DEF Row
    <3>2. CASE holder[s] # r
      BY <2>1, <3>1, <3>2 DEF Commit
    <3>3. CASE holder[s] = r
      <4>1. s = VoidTarget[r]
        BY <1>1, <3>3 DEF SalesInv, SalesConsistent
      <4>2. VoidConsistent(r)
        BY DEF SalesInv, SalesConsistent
      <4>3. /\ pending[VoidTarget[r]] = [status |-> "VOIDED", items |-> v.lines]
            /\ committed[VoidTarget[r]].items = v.lines
        BY <2>1, <4>2 DEF VoidConsistent
      <4>4. pending[s].items = v.lines /\ committed[s].items = v.lines
        BY <4>1, <4>3
      <4> QED
        BY <2>1, <3>1, <3>3, <4>4 DEF Commit
    <3> QED
      BY <3>2, <3>3
  <2> QED
    BY <1>4, <2>1, <2>2 DEF Sparing, UnitStep
<1> QED
  BY <1>6, <1>7, <1>8, <1>9, <1>10 DEF VoidStep

(* Every step, for the units.                                              *)
LEMMA NextOnUnits ==
  ASSUME StockInv, AuditsConsistent, UnitsRegistered, [Next \/ Done]_vars
  PROVE  \/ InPos(PosNext)
         \/ \E q \in Req \ PosReq :
               UnitStep(q) /\ RegistrationsMove(q) /\ ChangesRead /\ EditsRead
         \/ UNCHANGED <<dbVars, unitLocals>>
<1>1. /\ DbInv /\ TypeOKUnits /\ TypeOKRecords /\ TypeOKCatalog /\ TypeOKAudits
      /\ TypeOKReceipts
  BY StockInvParts
<1>2. ASSUME UNCHANGED unitLocals, NEW q \in Req \ Registrations
      PROVE  RegistrationsMove(q) /\ ChangesRead /\ EditsRead
  BY <1>2 DEF unitLocals, RegistrationsMove, ChangesRead, EditsRead, UnitsRegistered
<1>3. ASSUME NEW q, Sparing(q, Unit)
      PROVE  UnitStep(q)
  BY <1>3 DEF UnitStep
<1>4. CASE InUnits(UnitsNext)
  <2>1. Changes \cup Edits \cup Registrations \subseteq Req \ PosReq
    BY UnitsAssumption, PosReqApart
  <2> QED
    BY <1>1, <1>4, <2>1, ChangesRegister, EditsRegister, RegistrationsRegister
       DEF InUnits, UnitsNext
<1>5. CASE InRecords(RecordsNext)
  <2>1. Records \subseteq (Req \ PosReq) /\ Records \cap Registrations = {}
    BY RecordsAssumption, UnitWritersApart
  <2> QED
    BY <1>1, <1>2, <1>3, <1>5, <2>1, RecordsSpare DEF InRecords
<1>6. CASE InCatalog(CatalogNext)
  <2>1. CatalogReq \subseteq (Req \ PosReq) /\ CatalogReq \cap Registrations = {}
    BY CatalogAssumption, UnitWritersApart
  <2> QED
    BY <1>1, <1>2, <1>3, <1>6, <2>1, CatalogSpares DEF InCatalog
<1>7. CASE InAudits(AuditsNext)
  <2> DEFINE audits == Creations \cup Scanners \cup Completions \cup Cancellations
  <2>1. audits \subseteq (Req \ PosReq) /\ audits \cap Registrations = {}
    BY AuditRequest, UnitWritersApart, PosReqApart
  <2>2. PICK q \in audits : UnitStep(q)
    BY <1>1, <1>7, AuditsRegister DEF InAudits
  <2> QED
    BY <1>2, <1>7, <2>1, <2>2 DEF InAudits
<1>8. CASE InReceipts(ReceiptsNext)
  <2>1. Receipts \subseteq (Req \ PosReq) /\ Receipts \cap Registrations = {}
    BY ReceiptsAssumption, UnitWritersApart
  <2>2. PICK q \in Receipts : PreviewReceiptImport(q) \/ ReceiptStep(q) \/ AbortReceipt(q)
    BY <1>8 DEF InReceipts, ReceiptsNext
  <2>3. Sparing(q, Unit)
    BY <1>1, <2>2, ReceiptsSpareAudits
  <2> QED
    BY <1>2, <1>3, <1>8, <2>1, <2>3 DEF InReceipts
<1>9. CASE InReports(ReportsNext)
  <2>1. UNCHANGED dbVars
    BY <1>9 DEF InReports, ReportsNext, ReportStep, BeginReport, BuildTotals, BuildByCategory,
           BuildByLocation, BuildAttention, AbortReport, Reports
  <2> QED
    BY <1>9, <2>1 DEF InReports
<1>10. CASE UNCHANGED vars
  BY <1>10 DEF vars, dbVars, unitLocals
<1> QED
  BY <1>4, <1>5, <1>6, <1>7, <1>8, <1>9, <1>10 DEF Next, Done

LEMMA NextKeepsRegistered ==
  ASSUME StockInv, StockInv', SalesInv, AuditsConsistent, UnitsRegistered, [Next \/ Done]_vars
  PROVE  UnitsRegistered'
<1>1. CASE InPos(PosNext)
  <2>1. DbInv /\ PosInv
    BY StockInvParts
  <2>2. PICK q \in PosReq : UnitStep(q) /\ CheckoutsSell /\ SalesSell
    BY <1>1, <2>1, CheckoutsRegister, VoidsRegister DEF InPos, PosNext, PosReq
  <2>3. q \in Req /\ q \notin Registrations
    BY PosAssumption, PosReqApart DEF PosReq
  <2>4. RegistrationsMove(q) /\ ChangesRead /\ EditsRead
    BY <1>1, <2>3
       DEF InPos, unitLocals, RegistrationsMove, ChangesRead, EditsRead, UnitsRegistered
  <2> QED
    BY <2>2, <2>3, <2>4, RegisteredStays DEF RegisteredBy
<1>2. CASE Elsewhere(PosReq) /\ UNCHANGED posLocals
  <2>1. checkout' = checkout /\ \A s \in Sale : committed'[s] = committed[s]
    BY <1>2 DEF Elsewhere, posLocals
  <2>2. CheckoutsSell /\ SalesSell
    BY <2>1 DEF CheckoutsSell, SalesSell, UnitsRegistered
  <2>3. ASSUME NEW q \in Req \ PosReq,
               UnitStep(q) /\ RegistrationsMove(q) /\ ChangesRead /\ EditsRead
        PROVE  UnitsRegistered'
    BY <2>2, <2>3, RegisteredStays DEF RegisteredBy
  <2>4. CASE UNCHANGED <<dbVars, unitLocals>>
    BY <2>1, <2>4 DEF dbVars, unitLocals, UnitsRegistered, There
  <2> QED
    BY <1>1, <2>3, <2>4, NextOnUnits
<1> QED
  BY <1>1, <1>2, NextElsewhere

LEMMA InitRegistered == Init => UnitsRegistered
<1> SUFFICES ASSUME Init
             PROVE  UnitsRegistered
  OBVIOUS
<1>1. /\ \A x \in Row : holder[x] = NoReq /\ committed[x] = OpeningRow[x]
      /\ \A s \in Sale : committed[s].items = <<>>
      /\ \A u \in Unit : committed[u] = OpeningUnit[u]
  BY RowAssumption DEF Init, InitDb, OpeningRow, Row
<1>2. /\ \A r \in Changes : change[r].pc = "idle"
      /\ \A r \in Edits : edit[r].pc = "idle"
      /\ \A r \in Checkouts : checkout[r].pc = "idle"
  BY DEF Init, InitUnitLocals, InitPosLocals, AtPc, IdleCheckout
<1>3. ASSUME NEW r \in Registrations, NEW u \in NewUnits(RegistrationOf[r])
      PROVE  ~ There(u)
  BY <1>1, NewUnitsType DEF There, Unregistered
<1>4. \A u \in Unit : holder[u] = NoReq
  BY <1>1 DEF Row
<1>5. \A s \in Sale : UnitsOf(committed[s].items, Len(committed[s].items)) = {}
  BY <1>1, UnitsOfNone
<1> QED
  BY <1>2, <1>3, <1>4, <1>5 DEF UnitsRegistered

LEMMA RegisteredInvariant ==
  Spec => [](StockInv /\ SalesInv /\ AuditsConsistent /\ UnitsRegistered)
<1>1. StockInv /\ StockInv' /\ SalesInv /\ AuditsConsistent /\ UnitsRegistered
        /\ [Next \/ Done]_vars => UnitsRegistered'
  BY NextKeepsRegistered
<1> QED
  BY <1>1, InitRegistered, SalesInvariant, AuditsInvariant, PTL DEF Spec

-----------------------------------------------------------------------------
(* Units that are sold, whoever runs beside the point of sale.             *)

(* The units a change by hand has written were not sold.                   *)
ChangesUnsold == \A u \in Unit : holder[u] \in Changes => committed[u].status # "SOLD"

LEMMA ChangesStayUnsold ==
  ASSUME ChangesSpareSold, ChangesUnsold, NEW q \in Req, UnitStep(q)
  PROVE  ChangesUnsold'
<1> SUFFICES ASSUME NEW u \in Unit, holder'[u] \in Changes
             PROVE  committed'[u].status # "SOLD"
  BY DEF ChangesUnsold
<1>1. holder'[u] # NoReq
  BY UnitsAssumption, RowAssumption
<1>2. Written(q, u) \/ LeftAlone(u)
  BY <1>1, UnitAfter DEF Published, Forgotten, Replaced
<1> QED
  BY <1>2 DEF Written, LeftAlone, ChangesUnsold

(* Outside the point of sale nobody takes a unit back.                     *)
LEMMA SoldStay ==
  ASSUME UnitsRegistered, AuditsConsistent, ChangesSpareSold, ChangesUnsold,
         NEW q \in Req \ PosReq, UnitStep(q), NEW u \in Unit, committed[u].status = "SOLD"
  PROVE  committed'[u].status = "SOLD"
<1>1. ~ Published(q, u)
  <2> SUFFICES ASSUME Published(q, u)
               PROVE  FALSE
    OBVIOUS
  <2>1. holder[u] = q /\ q # NoReq
    BY RowAssumption DEF Published
  <2>2. HoldersFit /\ NotYetRegistered
    BY RegisteredParts
  <2>3. q \in Changes \cup Registrations \cup Completions
    BY <2>1, <2>2 DEF HoldersFit, UnitWriters
  <2>4. q \notin Changes
    BY <2>1 DEF ChangesUnsold
  <2>5. q \notin Registrations
    BY <2>1, <2>2 DEF HoldersFit, NotYetRegistered, There
  <2>6. q \notin Completions
    BY <2>1 DEF AuditsConsistent, UnitsSpared, Spares, AUDIT_MANAGED_STATUSES
  <2> QED
    BY <2>3, <2>4, <2>5, <2>6
<1> QED
  BY <1>1, UnitAfter DEF Written, LeftAlone, Forgotten, Replaced

(* Rows of one transaction stay together.                                  *)
LEMMA HolderStays ==
  ASSUME NEW q \in Req, UnitStep(q), NEW x \in Row, NEW y \in Row, holder[x] = holder[y],
         holder[x] # NoReq, holder'[x] = holder[x]
  PROVE  holder'[y] = holder[y]
<1>1. ASSUME NEW rows, Stage(q, rows)
      PROVE  holder'[y] = holder[y]
  BY <1>1 DEF Stage, Lockable
<1>2. ASSUME NEW rows, AutoCommit(rows)
      PROVE  holder'[y] = holder[y]
  BY <1>2 DEF AutoCommit
<1>3. CASE Commit(q) \/ Rollback(q)
  BY <1>3 DEF Commit, Rollback, Released
<1>4. CASE UNCHANGED dbVars
  BY <1>4 DEF dbVars
<1> QED
  BY <1>1, <1>2, <1>3, <1>4 DEF UnitStep, Sparing

(* Outside the point of sale nothing is returned for a sale.               *)
LEMMA ElsewhereVoided ==
  ASSUME DbInv, DbInv', LedgersGrow, Elsewhere(PosReq), VoidedOnce'
  PROVE  VoidedOnce
<1>1. LedgersContinue(committed, committed')
  <2>1. \A p \in Product : committed'[p].ledger \in Seq(StockMovement)
    BY LedgerType DEF DbInv, TypeOKDb, DbTypeOK
  <2> QED
    BY <2>1, LedgersTyped DEF LedgersGrow, LedgersContinue
<1>2. \A t \in Sale : /\ committed[t].items \in Seq(SaleLine)
                      /\ committed[t].items = committed'[t].items
  BY DEF Elsewhere, DbInv, TypeOKDb, DbTypeOK, SaleRow
<1>3. ReturnedOnce(committed') => ReturnedOnce(committed)
  BY <1>1, <1>2, OnceBefore
<1> QED
  BY <1>3 DEF VoidedOnce, ReturnedOnce

LEMMA ElsewhereKeepsUnits ==
  ASSUME DbInv, DbInv', LedgersGrow, UnitsConsistent, Elsewhere(PosReq), UNCHANGED posLocals,
         NEW q \in Req \ PosReq, UnitStep(q),
         \A u \in Unit : committed[u].status = "SOLD" => committed'[u].status = "SOLD"
  PROVE  UnitsConsistent'
<1>1. checkout' = checkout /\ void' = void /\ \A s \in Sale : committed'[s] = committed[s]
  BY DEF Elsewhere, posLocals
<1>2. ASSUME NEW r \in PosReq
      PROVE  SameUnits(r)
  <2>1. r # q /\ r # NoReq
    BY PosAssumption, RowAssumption DEF PosReq
  <2> QED
    BY <2>1, UnitAfter DEF SameUnits, Written, LeftAlone, Published, Forgotten, Replaced
<1>3. \A r \in Checkouts : CheckoutUnits(r)'
  BY <1>1, <1>2, CheckoutUnitsStay DEF UnitsConsistent, PosReq
<1>4. \A r \in Voids : VoidUnits(r)'
  BY <1>1, <1>2, VoidUnitsStay DEF UnitsConsistent, PosReq
<1>5. ASSUME NEW u \in Unit, holder'[u] # NoReq
      PROVE  holder'[ProductOf[u]] = holder'[u]
  <2>1. CASE Written(q, u)
    BY <2>1 DEF Written
  <2>2. CASE LeftAlone(u)
    <3>1. u \in Row /\ ProductOf[u] \in Row
      BY OpeningAssumption DEF Row
    <3>2. holder[u] = holder'[u] /\ holder[ProductOf[u]] = holder[u]
      BY <1>5, <2>2 DEF LeftAlone, UnitsConsistent
    <3> QED
      BY <1>5, <3>1, <3>2, HolderStays
  <2> QED
    BY <1>5, <2>1, <2>2, UnitAfter DEF Published, Forgotten, Replaced
<1>6. VoidedOnce' => VoidedOnce
  BY ElsewhereVoided
<1>7. SoldUnitsStand => SoldUnitsStand'
  <2> SUFFICES ASSUME SoldUnitsStand
               PROVE  SoldUnitsStand'
    OBVIOUS
  <2>1. UnitSoldOnce'
    BY <1>1 DEF SoldUnitsStand, UnitSoldOnce
  <2>2. ASSUME NEW s \in Sale, committed'[s].status = "COMPLETED"
        PROVE  LET lines == committed'[s].items
               IN  /\ NoUnitTwice(lines, Len(lines))
                   /\ \A u \in UnitsOf(lines, Len(lines)) : committed'[u].status = "SOLD"
    <3> DEFINE lines == committed[s].items
    <3>1. lines \in Seq(SaleLine)
      BY DEF DbInv, TypeOKDb, DbTypeOK, SaleRow
    <3>2. UnitsOf(lines, Len(lines)) \subseteq Unit
      BY <3>1, UnitsOfType
    <3>3. committed'[s].items = lines /\ committed[s].status = "COMPLETED"
      BY <1>1, <2>2
    <3>4. /\ NoUnitTwice(lines, Len(lines))
          /\ \A u \in UnitsOf(lines, Len(lines)) : committed[u].status = "SOLD"
      BY <3>3 DEF SoldUnitsStand
    <3> HIDE DEF lines
    <3> QED
      BY <3>2, <3>3, <3>4
  <2> QED
    BY <2>1, <2>2 DEF SoldUnitsStand, NoUnitTwice, UnitsOf
<1>8. \A s \in Sale : \A i \in 1 .. Len(committed'[s].items) : FitsProduct(committed'[s].items[i])
  BY <1>1 DEF UnitsConsistent
<1> QED
  BY <1>3, <1>4, <1>5, <1>6, <1>7, <1>8 DEF UnitsConsistent

LEMMA NextKeepsUnits ==
  ASSUME StockInv, StockInv', LedgersGrow, SalesInv, AuditsConsistent, UnitsRegistered,
         ChangesSpareSold, ChangesUnsold, UnitsConsistent, [Next \/ Done]_vars
  PROVE  ChangesUnsold' /\ UnitsConsistent'
<1>1. DbInv /\ PosInv
  BY StockInvParts
<1>2. DbInv'
  BY DEF StockInv, InventoryTypeOK, TypeOK, DbInv
<1>3. CASE InPos(PosNext)
  <2>1. PICK q \in PosReq : UnitStep(q)
    BY <1>1, <1>3, CheckoutsRegister, VoidsRegister DEF InPos, PosNext, PosReq
  <2>2. q \in Req
    BY PosAssumption DEF PosReq
  <2> QED
    BY <1>1, <1>2, <1>3, <2>1, <2>2, ChangesStayUnsold, PosNextUnits DEF InPos
<1>4. CASE Elsewhere(PosReq) /\ UNCHANGED posLocals
  <2>1. ASSUME NEW q \in Req \ PosReq, UnitStep(q)
        PROVE  ChangesUnsold' /\ UnitsConsistent'
    <3>1. \A u \in Unit : committed[u].status = "SOLD" => committed'[u].status = "SOLD"
      BY <2>1, SoldStay
    <3> QED
      BY <1>1, <1>2, <1>4, <2>1, <3>1, ChangesStayUnsold, ElsewhereKeepsUnits
  <2>2. CASE UNCHANGED <<dbVars, unitLocals>>
    <3>1. UNCHANGED <<committed, pending, holder, checkout, void>>
      BY <1>4, <2>2 DEF dbVars, posLocals
    <3>2. /\ \A r \in Checkouts : CheckoutUnits(r)' <=> CheckoutUnits(r)
          /\ \A r \in Voids : VoidUnits(r)' <=> VoidUnits(r)
      BY <3>1 DEF CheckoutUnits, VoidUnits, HeldUnits
    <3>3. (VoidedOnce' <=> VoidedOnce) /\ (SoldUnitsStand' <=> SoldUnitsStand)
      BY <3>1 DEF VoidedOnce, SoldUnitsStand, UnitSoldOnce
    <3> QED
      BY <3>1, <3>2, <3>3 DEF UnitsConsistent, ChangesUnsold
  <2> QED
    BY <1>3, <2>1, <2>2, NextOnUnits
<1> QED
  BY <1>3, <1>4, NextElsewhere

(* UnitSoldOnce whatever runs beside the point of sale, for every number   *)
(* of requests of every handler: no unit is on two sales that stand, unless*)
(* some sale was voided twice or a unit was sold while its status was being*)
(* changed by hand.                                                        *)
THEOREM UnitsSoldOnceTogether ==
  Spec /\ []ChangesSpareSold => [](VoidedOnce => UnitSoldOnce)
<1>1. Init => ChangesUnsold /\ UnitsConsistent
  <2> SUFFICES ASSUME Init
               PROVE  ChangesUnsold /\ UnitsConsistent
    OBVIOUS
  <2>1. \A u \in Unit : holder[u] \notin Changes
    BY UnitsAssumption, RowAssumption DEF Init, InitDb, Row
  <2> QED
    BY <2>1, InitUnitsOK DEF Init, ChangesUnsold
<1>2. StockInv /\ StockInv' /\ SalesInv /\ AuditsConsistent /\ UnitsRegistered
        /\ ChangesSpareSold /\ ChangesUnsold /\ UnitsConsistent /\ [Next \/ Done]_vars
        => (ChangesUnsold /\ UnitsConsistent)'
  BY NextKeeps, NextKeepsUnits
<1>3. UnitsConsistent => (VoidedOnce => UnitSoldOnce)
  BY DEF UnitsConsistent, SoldUnitsStand
<1> QED
  BY <1>1, <1>2, <1>3, RegisteredInvariant, PTL DEF Spec

(* VoidedOnce whatever runs beside the point of sale, where each sale is   *)
(* named by one void request.                                              *)
THEOREM VoidsReturnOnceTogether == ASSUME OneVoidPerSale PROVE Spec => []VoidedOnce
<1>1. Init => VoidsStanding /\ VoidedOnce
  BY InitVoidsOK DEF Init
<1>2. StockInv /\ StockInv' /\ SalesInv /\ VoidsStanding /\ VoidedOnce /\ [Next \/ Done]_vars
        => (VoidsStanding /\ VoidedOnce)'
  <2> SUFFICES ASSUME StockInv, StockInv', SalesInv, VoidsStanding, VoidedOnce,
                      [Next \/ Done]_vars
               PROVE  VoidsStanding' /\ VoidedOnce'
    OBVIOUS
  <2>1. DbInv /\ PosInv /\ DbInv' /\ LedgersGrow
    BY StockInvParts, NextKeeps DEF StockInv, InventoryTypeOK, TypeOK, DbInv
  <2>2. CASE InPos(PosNext)
    BY <2>1, <2>2, VoidsStandingKept DEF InPos
  <2>3. CASE Elsewhere(PosReq) /\ UNCHANGED posLocals
    BY <2>1, <2>3, ElsewhereVoids
  <2> QED
    BY <2>2, <2>3, NextElsewhere
<1> QED
  BY <1>1, <1>2, SalesInvariant, PTL DEF Spec

(* UnitSoldOnce whatever runs beside the point of sale, where each sale is *)
(* named by one void request and no unit is sold while its status is being *)
(* changed by hand.                                                        *)
THEOREM UnitsSoldOnceOnlyTogether ==
  ASSUME OneVoidPerSale PROVE Spec /\ []ChangesSpareSold => []UnitSoldOnce
BY UnitsSoldOnceTogether, VoidsReturnOnceTogether, PTL

-----------------------------------------------------------------------------
(* The balances of the serialized products and the units that count,       *)
(* whoever writes them.                                                    *)

(* A statement of q outside the point of sale that keeps a product in step *)
(* with its units, one row written in a transaction of its own that leaves *)
(* its balance or what its status counts for, or a step that writes neither*)
(* products nor units.                                                     *)
StockRows(p) == {p} \cup {u \in Unit : ProductOf[u] = p}

KeepsInStep(p) == p \in Serialized /\ InStep(pending, p) => InStep(pending', p)

SameCount(x, value) ==
  IF x \in Product THEN value.quantityOnHand = committed[x].quantityOnHand
  ELSE value.status \in STOCK_COUNTED_STATUSES
         <=> committed[x].status \in STOCK_COUNTED_STATUSES

BalancedStep(q) ==
  \/ \E p \in Product : \E rows :
        /\ p \in DOMAIN rows /\ DOMAIN rows \subseteq StockRows(p)
        /\ Stage(q, rows) /\ KeepsInStep(p)
  \/ \E x \in Product \cup Unit : \E value :
        AutoCommit(Write(x, value)) /\ SameCount(x, value)
  \/ Sparing(q, Product \cup Unit)

LEMMA BalancesKept ==
  ASSUME StockInStep, UNCHANGED void, VoidedOnce' => VoidedOnce,
         \A s \in Sale : committed'[s] = committed[s],
         \A p \in Product : holder'[p] = holder[p],
         SameBalance(committed, committed'), SameBalance(pending, pending')
  PROVE  StockInStep'
<1> SUFFICES ASSUME VoidedOnce', NEW p \in Serialized
             PROVE  InStep(committed', p) /\ (StillStands(holder[p])' => InStep(pending', p))
  BY DEF StockInStep
<1>1. p \in Product
  BY OpeningAssumption
<1>2. StillStands(holder[p])' => StillStands(holder[p])
  BY <1>1, PosAssumption DEF StillStands
<1>3. InStep(committed, p) /\ (StillStands(holder[p]) => InStep(pending, p))
  BY DEF StockInStep
<1>4. InStep(committed', p) <=> InStep(committed, p)
  BY <1>1, SameBalanceInStep
<1>5. InStep(pending', p) <=> InStep(pending, p)
  BY <1>1, SameBalanceInStep
<1> QED
  BY <1>2, <1>3, <1>4, <1>5

LEMMA StatementKeepsStock ==
  ASSUME DbInv, StockInStep, NEW q \in Req \ PosReq, UNCHANGED void,
         NEW p \in Product, NEW rows, p \in DOMAIN rows, DOMAIN rows \subseteq StockRows(p),
         Stage(q, rows), KeepsInStep(p)
  PROVE  StockInStep'
<1>1. committed' = committed /\ holder[p] \in {NoReq, q} /\ NoReq \notin Voids /\ q \notin Voids
  BY PosAssumption, RowAssumption DEF Stage, Lockable, PosReq
<1>2. ASSUME VoidedOnce, NEW k \in Serialized, StillStands(holder[k])'
      PROVE  InStep(pending', k)
  <2>1. k \in Product /\ k \in Row
    BY OpeningAssumption DEF Row
  <2>2. CASE k = p
    <3>1. StillStands(holder[p])
      BY <1>1 DEF StillStands
    <3> QED
      BY <1>2, <2>2, <3>1 DEF StockInStep, KeepsInStep
  <2>3. CASE k # p
    <3>1. k \notin DOMAIN rows
      BY <2>1, <2>3, RowAssumption DEF StockRows
    <3>2. \A u \in Unit : ProductOf[u] = k => u \in Row /\ u \notin DOMAIN rows
      BY <2>3, RowAssumption DEF StockRows, Row
    <3>3. SameStock(pending, pending', k) /\ holder'[k] = holder[k]
      BY <2>1, <3>1, <3>2 DEF SameStock, Stage
    <3>4. StillStands(holder[k])
      BY <1>1, <1>2, <3>3 DEF StillStands
    <3>5. InStep(pending, k)
      BY <1>2, <3>4 DEF StockInStep
    <3> QED
      BY <3>3, <3>5, SameStockInStep
  <2> QED
    BY <2>2, <2>3
<1> QED
  BY <1>1, <1>2, StockUnpublished

LEMMA BalancingKeeps ==
  ASSUME DbInv, UnitsConsistent, StockInStep, NEW q \in Req \ PosReq, BalancedStep(q),
         UNCHANGED void, \A s \in Sale : committed'[s] = committed[s],
         VoidedOnce' => VoidedOnce
  PROVE  StockInStep'
<1>1. q \notin Voids /\ q # NoReq
  BY RowAssumption DEF PosReq
<1>2. ASSUME NEW x \in Product \cup Unit, NEW value, AutoCommit(Write(x, value)),
             SameCount(x, value)
      PROVE  StockInStep'
  <2> DEFINE rows == Write(x, value)
  <2>1. DOMAIN rows = {x} /\ rows[x] = value
    BY DEF Write
  <2> HIDE DEF rows
  <2>2. AutoCommit(rows)
    BY <1>2 DEF rows
  <2>3. /\ holder' = holder /\ x \in Row /\ pending[x] = committed[x]
        /\ committed'[x] = value /\ pending'[x] = value
        /\ \A y \in Row \ {x} : committed'[y] = committed[y] /\ pending'[y] = pending[y]
    BY <2>1, <2>2 DEF AutoCommit, Row, DbInv, VersionsConsistent
  <2>4. SameBalance(committed, committed') /\ SameBalance(pending, pending')
    BY <1>2, <2>3, RowAssumption DEF SameBalance, SameCount, Row
  <2> QED
    BY <2>3, <2>4, BalancesKept
<1>3. CASE Sparing(q, Product \cup Unit)
  <2>1. CASE Commit(q)
    <3>1. VoidedOnce' => VoidedOnce /\ StillStands(q)
      BY <1>1 DEF StillStands
    <3>2. \A r \in Voids \ {q} : StillStands(r)' => StillStands(r)
      BY PosAssumption DEF StillStands
    <3> QED
      BY <2>1, <3>1, <3>2, StockPublished
  <2>2. CASE Rollback(q)
    BY <2>2, StockRolledBack
  <2>3. ASSUME NEW rows, (DOMAIN rows) \cap (Product \cup Unit) = {},
               Stage(q, rows) \/ AutoCommit(rows)
        PROVE  StockInStep'
    <3>1. \A x \in Product \cup Unit : /\ committed'[x] = committed[x] /\ pending'[x] = pending[x]
                                      /\ holder'[x] = holder[x]
      BY <2>3 DEF Stage, AutoCommit, Row
    <3>2. SameBalance(committed, committed') /\ SameBalance(pending, pending')
      BY <3>1 DEF SameBalance
    <3> QED
      BY <3>1, <3>2, BalancesKept
  <2>4. CASE UNCHANGED dbVars
    BY <2>4, BalancesKept DEF dbVars, SameBalance
  <2> QED
    BY <1>3, <2>1, <2>2, <2>3, <2>4 DEF Sparing
<1> QED
  BY <1>2, <1>3, StatementKeepsStock DEF BalancedStep

(* One product row, of a product that is not kept unit by unit.            *)
LEMMA PlainBalanced ==
  ASSUME NEW q, NEW p \in Product, p \notin Serialized, NEW row, Stage(q, Write(p, row))
  PROVE  BalancedStep(q)
<1> DEFINE rows == Write(p, row)
<1>1. DOMAIN rows = {p}
  BY WritesOneRow
<1> HIDE DEF rows
<1>2. Stage(q, rows) /\ p \in DOMAIN rows /\ DOMAIN rows \subseteq StockRows(p) /\ KeepsInStep(p)
  BY <1>1 DEF rows, StockRows, KeepsInStep
<1> QED
  BY <1>2 DEF BalancedStep

LEMMA RecordsBalance ==
  ASSUME TypeOKRecords, UnitsMoveAlong, RecordsNext
  PROVE  \E q \in Records : BalancedStep(q)
<1>1. PICK r \in Records : BeginRecord(r) \/ RecordStep(r) \/ AbortRecord(r)
  BY DEF RecordsNext
<1>2. CASE BeginRecord(r) \/ ValidateRefs(r) \/ CommitRecord(r) \/ AbortRecord(r)
  BY <1>2 DEF BeginRecord, ValidateRefs, CommitRecord, AbortRecord, Sparing, BalancedStep
<1>3. CASE WriteMovement(r)
  <2> DEFINE p == record[r].body.product
  <2>1. p \in Product /\ p \notin Serialized
    BY <1>3 DEF WriteMovement, TypeOKRecords, RecordState, RecordBody, UnitsMoveAlong
  <2>2. Rollback(r) \/ Stage(r, Write(p, RecordedRow(r)))
    BY <1>3 DEF WriteMovement
  <2>3. CASE Rollback(r)
    BY <2>3 DEF Sparing, BalancedStep
  <2> HIDE DEF p
  <2> QED
    BY <2>1, <2>2, <2>3, PlainBalanced
<1> QED
  BY <1>1, <1>2, <1>3 DEF RecordStep

LEMMA CatalogBalances ==
  ASSUME DbInv, TypeOKCatalog, CatalogNext
  PROVE  \E q \in CatalogReq : BalancedStep(q)
<1>1. ASSUME NEW r \in CatalogReq, UNCHANGED dbVars
      PROVE  BalancedStep(r)
  BY <1>1 DEF Sparing, BalancedStep
<1>2. ASSUME NEW r \in CatalogReq, WriteProduct(r)
      PROVE  BalancedStep(r)
  <2> DEFINE p == catalog[r].product
             card == Patched(committed[p].card, catalog[r].body)
             row == Catalogued(r, committed[p], card)
  <2>1. p \in Product
    BY <1>2 DEF WriteProduct, TypeOKCatalog, CatalogWrite
  <2>2. UNCHANGED dbVars \/ AutoCommit(Write(p, row))
    BY <1>2 DEF WriteProduct
  <2>3. row.quantityOnHand = committed[p].quantityOnHand
    <3>1. committed[p] \in ProductRow
      BY <2>1 DEF DbInv, TypeOKDb, DbTypeOK
    <3> HIDE DEF p, card
    <3> QED
      BY <3>1 DEF Catalogued, ProductRow
  <2> HIDE DEF p, row
  <2>4. SameCount(p, row)
    BY <2>1, <2>3 DEF SameCount
  <2> QED
    BY <1>1, <2>1, <2>2, <2>4 DEF BalancedStep
<1> QED
  BY <1>1, <1>2
     DEF CatalogNext, CatalogReq, ReadForArchive, ReadForUpdate, ReadForCreate, AbortCatalog

LEMMA ReceiptsBalance ==
  ASSUME TypeOKReceipts, UnitsMoveAlong, NEW r \in Receipts,
         PreviewReceiptImport(r) \/ ReceiptStep(r) \/ AbortReceipt(r)
  PROVE  BalancedStep(r)
<1>1. CASE /\ PreviewReceiptImport(r) \/ BuildProductMatchMap(r) \/ FindOrCreateSupplier(r)
              \/ CommitReceipt(r) \/ AbortReceipt(r)
  BY <1>1 DEF PreviewReceiptImport, BuildProductMatchMap, FindOrCreateSupplier, CommitReceipt,
              AbortReceipt, Sparing, BalancedStep
<1>2. CASE ReserveIdempotencyKey(r)
  <2> DEFINE key == ReceiptOf[r].key
  <2>1. UNCHANGED dbVars \/ (key # NoKey /\ Stage(r, Write(key, [used |-> TRUE])))
    BY <1>2 DEF ReserveIdempotencyKey, Claimed
  <2>2. key # NoKey => key \notin Product \cup Unit
    BY ReceiptsAssumption, RowAssumption DEF ReceiptBody
  <2>3. CASE UNCHANGED dbVars
    BY <2>3 DEF Sparing, BalancedStep
  <2> HIDE DEF key
  <2> QED
    BY <2>1, <2>2, <2>3, RowSpares DEF BalancedStep
<1>3. CASE StockReceiptLine(r)
  <2> DEFINE i == receipt[r].next
             p == FindProductInMap(Items(r)[i], receipt[r].matches)
  <2>1. ReceiptOK(receipt[r])
    BY ReceiptLocals
  <2>2. i \in DOMAIN Items(r)
    <3>1. i \in Nat \ {0} /\ i <= Len(Items(r)) /\ Items(r) \in Seq(ReceiptItem)
      BY <1>3, <2>1, ReceiptsAssumption DEF StockReceiptLine, ReceiptOK, Items, ReceiptBody
    <3> HIDE DEF i
    <3> QED
      BY <3>1
  <2>3. StockedProduct(r) \notin Serialized
    BY <1>3 DEF UnitsMoveAlong, StockReceiptLine
  <2>4. CASE Rollback(r)
    BY <2>4 DEF Sparing, BalancedStep
  <2>5. CASE p # NoProduct /\ StockMatched(r, i, p)
    <3>1. p \in Product
      BY <2>1, <2>5, FindProductType DEF ReceiptOK
    <3>2. p \notin Serialized
      BY <2>3, <2>5 DEF StockedProduct
    <3> HIDE DEF p, i
    <3> QED
      BY <2>5, <3>1, <3>2, PlainBalanced DEF StockMatched
  <2>6. CASE p = NoProduct /\ StockCreated(r, i)
    <3>1. DrawnFor[r][i] \in Product
      BY <2>2, ReceiptsAssumption
    <3>2. DrawnFor[r][i] \notin Serialized
      BY <2>3, <2>6 DEF StockedProduct
    <3> HIDE DEF p, i
    <3> QED
      BY <2>4, <2>6, <3>1, <3>2, PlainBalanced DEF StockCreated
  <2> QED
    BY <1>3, <2>5, <2>6 DEF StockReceiptLine
<1> QED
  BY <1>1, <1>2, <1>3 DEF ReceiptStep

(* A product and units of its own.                                         *)
LEMMA StockWritten ==
  ASSUME DbInv, NEW q, NEW p \in Product, NEW row, NEW units,
         \A u \in DOMAIN units : u \in Unit /\ ProductOf[u] = p,
         Stage(q, WriteStock(p, row, units))
  PROVE  /\ Visible(q, p) = pending[p] /\ pending'[p] = row
         /\ \A u \in DOMAIN units : Visible(q, u) = pending[u] /\ pending'[u] = units[u]
         /\ \A u \in Unit \ DOMAIN units : pending'[u] = pending[u]
         /\ KeepsInStep(p) => BalancedStep(q)
<1> DEFINE rows == WriteStock(p, row, units)
<1>1. DOMAIN rows = {p} \cup DOMAIN units /\ p \notin DOMAIN units /\ p \in Row
  BY RowAssumption DEF WriteStock, Row
<1>2. rows[p] = row /\ \A u \in DOMAIN units : rows[u] = units[u]
  BY <1>1 DEF WriteStock
<1> HIDE DEF rows
<1>3. Stage(q, rows)
  BY DEF rows
<1>4. DOMAIN rows \subseteq StockRows(p) /\ p \in DOMAIN rows
  BY <1>1 DEF StockRows
<1>5. \A u \in Unit : u \in Row /\ u # p
  BY RowAssumption DEF Row
<1>6. \A x \in {p} \cup DOMAIN units : Visible(q, x) = pending[x]
  BY <1>1, <1>3, <1>5, VisibleIsPending DEF Stage
<1>7. \A x \in Row : pending'[x] = IF x \in DOMAIN rows THEN rows[x] ELSE pending[x]
  BY <1>3 DEF Stage
<1>8. \A u \in Unit \ DOMAIN units : pending'[u] = pending[u]
  BY <1>1, <1>5, <1>7
<1>9. \A u \in DOMAIN units : pending'[u] = units[u]
  BY <1>1, <1>2, <1>5, <1>7
<1>10. pending'[p] = row
  BY <1>1, <1>2, <1>7
<1>11. KeepsInStep(p) => BalancedStep(q)
  BY <1>3, <1>4 DEF BalancedStep
<1> QED
  BY <1>6, <1>8, <1>9, <1>10, <1>11

LEMMA ChangesBalance ==
  ASSUME DbInv, TypeOKUnits, ChangesFresh, NEW r \in Changes,
         ReadForChange(r) \/ ChangeStep(r) \/ AbortChange(r)
  PROVE  BalancedStep(r)
<1> DEFINE u == change[r].body.unit
           p == ProductOf[u]
           units == Write(u, ChangedUnit(r))
<1>1. CASE ReadForChange(r) \/ CommitChange(r) \/ AbortChange(r)
  BY <1>1 DEF ReadForChange, CommitChange, AbortChange, Sparing, BalancedStep
<1>2. ASSUME change[r].pc = "write"
      PROVE  /\ u \in Unit /\ p \in Product /\ change[r].key \in SystemKey
             /\ change[r].delta = QuantityDelta(Visible(r, u).status, ChangedUnit(r).status)
             /\ change[r].loc \in Location \cup {NoLocation}
  BY <1>2, ChangedUnitType, OpeningAssumption DEF ChangesFresh, ChangedUnit
<1>3. CASE WriteStatus(r)
  <2>1. u \in Unit /\ QuantityDelta(Visible(r, u).status, ChangedUnit(r).status) = 0
    BY <1>2, <1>3 DEF WriteStatus
  <2>2. AutoCommit(Write(u, ChangedUnit(r)))
    BY <1>3 DEF WriteStatus
  <2> HIDE DEF u
  <2>3. holder[u] = NoReq
    BY <2>2, WritesOneRow DEF AutoCommit
  <2>4. Visible(r, u) = committed[u]
    BY <2>3, UnitsAssumption, RowAssumption DEF Visible
  <2>5. SameCount(u, ChangedUnit(r))
    BY <2>1, <2>4, RowAssumption DEF SameCount, QuantityDelta, Counted
  <2> QED
    BY <2>1, <2>2, <2>5 DEF BalancedStep
<1>4. CASE WriteStatusAndQuantity(r)
  <2>1. CASE Rollback(r)
    BY <2>1 DEF Sparing, BalancedStep
  <2>2. CASE Stage(r, WriteStock(p, ChangedRow(r), units))
    <3> DEFINE delta == change[r].delta
    <3>1. /\ u \in Unit /\ p \in Product /\ delta # 0
          /\ delta = QuantityDelta(Visible(r, u).status, ChangedUnit(r).status)
      BY <1>2, <1>4 DEF WriteStatusAndQuantity
    <3>2. ChangedRow(r) = Posted(Visible(r, p), change[r].key, delta, u, change[r].loc, NoSale, 0)
      BY DEF ChangedRow
    <3>3. DOMAIN units = {u} /\ units[u] = ChangedUnit(r)
      BY DEF Write
    <3> HIDE DEF units, u, delta
    <3>4. \A w \in DOMAIN units : w \in Unit /\ ProductOf[w] = p
      BY <3>1, <3>3
    <3> HIDE DEF p
    <3>5. /\ Visible(r, p) = pending[p] /\ pending'[p] = ChangedRow(r)
          /\ \A w \in DOMAIN units : Visible(r, w) = pending[w] /\ pending'[w] = units[w]
          /\ \A w \in Unit \ DOMAIN units : pending'[w] = pending[w]
          /\ KeepsInStep(p) => BalancedStep(r)
      BY <2>2, <3>1, <3>4, StockWritten
    <3>6. OtherUnitsSame(pending, pending', p, u)
      BY <3>3, <3>5 DEF OtherUnitsSame
    <3>7. delta = QuantityDelta(pending[u].status, pending'[u].status)
      BY <3>1, <3>3, <3>5
    <3>8. pending'[p].quantityOnHand = pending[p].quantityOnHand + delta
      <4>1. pending[p] \in ProductRow
        BY <3>1 DEF DbInv, TypeOKDb, DbTypeOK
      <4> QED
        BY <3>2, <3>5, <4>1, PostedAmount
    <3>9. IsFiniteSet(Unit) /\ ProductOf[u] = p
      BY AuditAssumption DEF p
    <3>10. KeepsInStep(p)
      <4>1. CASE delta = 1
        <5>1. pending[u].status \notin STOCK_COUNTED_STATUSES
              /\ pending'[u].status \in STOCK_COUNTED_STATUSES
          BY <3>7, <4>1 DEF QuantityDelta, Counted
        <5> QED
          BY <3>1, <3>6, <3>8, <3>9, <4>1, <5>1, UnitArrives DEF KeepsInStep
      <4>2. CASE delta = -1
        <5>1. pending[u].status \in STOCK_COUNTED_STATUSES
              /\ pending'[u].status \notin STOCK_COUNTED_STATUSES
          BY <3>7, <4>2 DEF QuantityDelta, Counted
        <5> QED
          BY <3>1, <3>6, <3>8, <3>9, <4>2, <5>1, UnitLeaves DEF KeepsInStep
      <4>3. delta \in {1, -1}
        BY <3>1 DEF QuantityDelta
      <4> QED
        BY <4>1, <4>2, <4>3
    <3> QED
      BY <3>5, <3>10
  <2> QED
    BY <1>4, <2>1, <2>2 DEF WriteStatusAndQuantity
<1> QED
  BY <1>1, <1>3, <1>4 DEF ChangeStep

LEMMA EditsBalance ==
  ASSUME DbInv, TypeOKUnits, NEW r \in Edits,
         ReadForEdit(r) \/ WriteLocation(r) \/ AbortEdit(r)
  PROVE  BalancedStep(r)
<1> DEFINE u == edit[r].body.unit
           value == [committed[u] EXCEPT !.loc = edit[r].body.loc]
<1>1. CASE ReadForEdit(r) \/ AbortEdit(r)
  BY <1>1 DEF ReadForEdit, AbortEdit, Sparing, BalancedStep
<1>2. CASE WriteLocation(r)
  <2>1. u \in Unit
    BY <1>2 DEF WriteLocation, TypeOKUnits, EditState, EditBody
  <2>2. AutoCommit(Write(u, value))
    BY <1>2 DEF WriteLocation
  <2>3. value.status = committed[u].status
    <3>1. committed[u] \in UnitRow
      BY <2>1 DEF DbInv, TypeOKDb, DbTypeOK
    <3> QED
      BY <3>1 DEF UnitRow
  <2> HIDE DEF u, value
  <2>4. SameCount(u, value)
    BY <2>1, <2>3, RowAssumption DEF SameCount
  <2> QED
    BY <2>1, <2>2, <2>4 DEF BalancedStep
<1> QED
  BY <1>1, <1>2

(* As many of what is mapped one to one.                                   *)
LEMMA AsMany ==
  ASSUME NEW S, IsFiniteSet(S), NEW T, NEW f \in [S -> T],
         \A x, y \in S : f[x] = f[y] => x = y, \A t \in T : \E x \in S : f[x] = t
  PROVE  Cardinality(T) = Cardinality(S)
<1>1. f \in Bijection(S, T)
  BY DEF Bijection, Injection, IsInjective, Surjection
<1> QED
  BY <1>1, FS_Bijection DEF ExistsBijection

(* What a batch of movements adds to the balance.                          *)
LEMMA BatchAmount ==
  ASSUME NEW row \in ProductRow, NEW amount, NEW batch
  PROVE  [row EXCEPT !.quantityOnHand = @ + amount, !.ledger = @ \o batch].quantityOnHand
           = row.quantityOnHand + amount
<1> DEFINE moved == [row EXCEPT !.quantityOnHand = @ + amount]
           whole == row.ledger \o batch
           new == [row EXCEPT !.quantityOnHand = @ + amount, !.ledger = @ \o batch]
<1>1. new = [moved EXCEPT !.ledger = whole]
  BY Zenon
<1>2. moved = [quantityOnHand |-> row.quantityOnHand + amount, ledger |-> row.ledger,
               isArchived |-> row.isArchived, card |-> row.card]
  BY DEF ProductRow
<1> HIDE DEF moved, whole, new
<1>3. new.quantityOnHand = row.quantityOnHand + amount
  BY <1>1, <1>2
<1> QED
  BY <1>3 DEF new

(* The units a registration creates count from then on, and did not.       *)
LEMMA NewUnitsFresh ==
  ASSUME DbInv, UnitsRegistered, NEW r \in Registrations, registration[r] = "write",
         NEW u \in NewUnits(RegistrationOf[r])
  PROVE  pending[u].status = "UNREGISTERED"
<1>1. u \in Unit /\ HoldersFit /\ ~ There(u)
  BY NewUnitsType, RegisteredParts DEF NotYetRegistered
<1>2. holder[u] = NoReq
  <2> SUFFICES ASSUME holder[u] # NoReq
               PROVE  FALSE
    OBVIOUS
  <2> DEFINE q == holder[u]
  <2>1. q \in Registrations /\ registration[q] = "commit" /\ u \in NewUnits(RegistrationOf[q])
    BY <1>1 DEF HoldersFit
  <2> HIDE DEF q
  <2>2. q # r
    BY <2>1
  <2> QED
    BY <2>1, <2>2, UnitsAssumption
<1> QED
  BY <1>1, <1>2 DEF There, DbInv, VersionsConsistent, Row

LEMMA RegistrationsBalance ==
  ASSUME DbInv, TypeOKUnits, UnitsRegistered, NEW r \in Registrations,
         CheckRegistration(r) \/ RegistrationStep(r) \/ AbortRegistration(r)
  PROVE  BalancedStep(r)
<1> DEFINE body == RegistrationOf[r]
           p == body.product
           gained == NewUnits(body)
           units == [u \in gained |-> [status |-> "IN_STOCK", loc |-> body.loc]]
           row == RegisteredRow(Visible(r, p), body)
<1>1. CASE CheckRegistration(r) \/ CommitRegistration(r) \/ AbortRegistration(r)
  BY <1>1 DEF CheckRegistration, CommitRegistration, AbortRegistration, Sparing, BalancedStep
<1>2. CASE CreateUnits(r)
  <2>1. p \in Product /\ gained \subseteq Unit /\ \A u \in gained : ProductOf[u] = p
    BY NewUnitsType
  <2>2. \A u \in gained : pending[u].status = "UNREGISTERED"
    BY <1>2, NewUnitsFresh DEF CreateUnits
  <2>3. Cardinality(gained) = Len(body.units) /\ Len(body.units) \in Nat
    <3> DEFINE n == Len(body.units)
               f == [i \in 1 .. n |-> body.units[i]]
    <3>1. n \in Nat /\ \A i, j \in 1 .. n : body.units[i] = body.units[j] => i = j
      BY UnitsAssumption DEF RegistrationBody
    <3>2. IsFiniteSet(1 .. n) /\ Cardinality(1 .. n) = n
      BY <3>1, FS_Interval
    <3>3. f \in [1 .. n -> gained] /\ \A u \in gained : \E i \in 1 .. n : f[i] = u
      BY DEF NewUnits
    <3>4. \A i, j \in 1 .. n : f[i] = f[j] => i = j
      BY <3>1
    <3> HIDE DEF f, n, gained
    <3>5. Cardinality(gained) = Cardinality(1 .. n)
      BY <3>2, <3>3, <3>4, AsMany
    <3> QED
      BY <3>1, <3>2, <3>5 DEF n
  <2>4. Stage(r, WriteStock(p, row, units))
    BY <1>2 DEF CreateUnits
  <2>5. DOMAIN units = gained /\ \A u \in gained : units[u].status \in STOCK_COUNTED_STATUSES
    BY DEF STOCK_COUNTED_STATUSES
  <2> HIDE DEF units
  <2>6. \A u \in DOMAIN units : u \in Unit /\ ProductOf[u] = p
    BY <2>1, <2>5
  <2> HIDE DEF row, p
  <2>7. /\ Visible(r, p) = pending[p] /\ pending'[p] = row
        /\ \A u \in gained : pending'[u] = units[u]
        /\ \A u \in Unit \ gained : pending'[u] = pending[u]
        /\ KeepsInStep(p) => BalancedStep(r)
    BY <2>1, <2>4, <2>5, <2>6, StockWritten
  <2> HIDE DEF gained
  <2>8. /\ CountedIn(pending', p) = (CountedIn(pending, p) \ {}) \cup gained
        /\ gained \cap CountedIn(pending, p) = {}
    <3>1. "UNREGISTERED" \notin STOCK_COUNTED_STATUSES
      BY DEF STOCK_COUNTED_STATUSES
    <3>2. \A u \in gained : u \in CountedIn(pending', p) /\ u \notin CountedIn(pending, p)
      BY <2>1, <2>2, <2>5, <2>7, <3>1 DEF CountedIn
    <3>3. \A u \in Unit \ gained : u \in CountedIn(pending', p) <=> u \in CountedIn(pending, p)
      BY <2>7 DEF CountedIn
    <3>4. CountedIn(pending', p) \subseteq Unit /\ CountedIn(pending, p) \subseteq Unit
      BY DEF CountedIn
    <3> QED
      BY <2>1, <3>2, <3>3, <3>4
  <2>9. pending'[p].quantityOnHand
          = pending[p].quantityOnHand + (Cardinality(gained) - Cardinality({}))
    <3>1. pending[p] \in ProductRow
      BY <2>1 DEF DbInv, TypeOKDb, DbTypeOK
    <3>2. row.quantityOnHand = pending[p].quantityOnHand + Len(body.units)
      <4>1. row = RegisteredRow(pending[p], body)
        BY <2>7 DEF row
      <4> QED
        BY <3>1, <4>1, BatchAmount DEF RegisteredRow
    <3>3. Len(body.units) = Cardinality(gained) - Cardinality({})
      BY <2>3, FS_EmptySet
    <3> QED
      BY <2>7, <3>2, <3>3
  <2>10. IsFiniteSet(Unit)
    BY AuditAssumption
  <2>11. InStep(pending, p) => InStep(pending', p)
    BY <2>8, <2>9, <2>10, UnitsShifted
  <2> QED
    BY <2>7, <2>11 DEF KeepsInStep
<1> QED
  BY <1>1, <1>2 DEF RegistrationStep

(* The transitions of a plan that apply to a unit shift the balance at most*)
(* once, by what its status counts for before and after them.              *)
LEMMA OneShift ==
  ASSUME NEW r, NEW scanned, NEW planned \in SUBSET UnitTransition, PlanOnce(scanned, planned),
         NEW u \in Unit, Visible(r, u) \in UnitRow,
         NEW tr \in Applied(r, planned), tr.unit = u
  PROVE  \E x \in Applied(r, planned) :
            /\ x.unit = u
            /\ x.from \in STOCK_COUNTED_STATUSES
                 <=> Visible(r, u).status \in STOCK_COUNTED_STATUSES
            /\ x.to \in STOCK_COUNTED_STATUSES
                 <=> ReconciledUnit(r, planned, u).status \in STOCK_COUNTED_STATUSES
            /\ \A y \in Applied(r, planned) : y.unit = u /\ Shift(y) # 0 => y = x
<1> DEFINE home == {x \in HomeApplied(r, planned) : x.unit = u}
           away == {x \in Applied(r, planned) : x.unit = u /\ x.away}
           before == Visible(r, u).status
           atHome == StatusAtHome(r, planned, u)
           after == IF away # {} THEN "MISPLACED" ELSE atHome
<1>1. ReconciledUnit(r, planned, u).status = after
  <2> DEFINE to == IF \E x \in Applied(r, planned) : x.unit = u /\ x.away
                     THEN "MISPLACED" ELSE atHome
  <2>1. to = after
    OBVIOUS
  <2>2. ReconciledUnit(r, planned, u) = [Visible(r, u) EXCEPT !.status = to]
    BY Zenon DEF ReconciledUnit
  <2> HIDE DEF to, after
  <2> QED
    BY <2>1, <2>2 DEF UnitRow
<1>2. /\ HomeApplied(r, planned) \subseteq planned /\ Applied(r, planned) \subseteq planned
      /\ \A x \in HomeApplied(r, planned) : ~ x.away /\ x \in Applied(r, planned)
      /\ \A x \in Applied(r, planned) : ~ x.away => x \in HomeApplied(r, planned)
  BY DEF HomeApplied, Applied
<1>3. \A x, y \in home : x = y
  <2> TAKE x, y \in home
  <2>1. x \in planned /\ y \in planned /\ x.unit = y.unit /\ x.away = FALSE /\ y.away = FALSE
    BY <1>2 DEF UnitTransition
  <2> QED
    BY <2>1 DEF PlanOnce
<1>4. \A x, y \in away : x = y
  BY <1>2 DEF PlanOnce
<1>5. \A x \in home : x.from = before /\ x \in Applied(r, planned)
  BY <1>2 DEF HomeApplied, StillAsPlanned
<1>6. \A y \in away : y.from = atHome /\ y.to = "MISPLACED"
  <2> TAKE y \in away
  <2>1. y \notin HomeApplied(r, planned) /\ y \in planned
    BY <1>2
  <2> QED
    BY <2>1 DEF Applied, StillAsPlanned, PlanOnce
<1>7. \A x \in Applied(r, planned) : x.unit = u => x \in home \cup away
  BY <1>2
<1>8. CASE home = {}
  <2>1. atHome = before
    BY <1>8 DEF StatusAtHome
  <2>2. tr \in away
    BY <1>7, <1>8
  <2>3. tr.from = before /\ tr.to = after
    BY <1>6, <2>1, <2>2
  <2>4. \A y \in Applied(r, planned) : y.unit = u => y = tr
    BY <1>4, <1>7, <1>8, <2>2
  <2> QED
    BY <1>1, <2>3, <2>4
<1>9. CASE home # {}
  <2>1. PICK z \in home : TRUE
    BY <1>9
  <2>2. atHome = z.to
    <3> DEFINE first == CHOOSE x \in home : TRUE
    <3>1. first \in home /\ atHome = first.to
      BY <1>9 DEF StatusAtHome
    <3> HIDE DEF first, home
    <3> QED
      BY <1>3, <2>1, <3>1
  <2>3. "IN_STOCK" \in STOCK_COUNTED_STATUSES /\ "MISPLACED" \in STOCK_COUNTED_STATUSES
    BY DEF STOCK_COUNTED_STATUSES
  <2>4. \A y \in away : z.to = "IN_STOCK" /\ y.from = "IN_STOCK"
    BY <1>2, <1>6, <2>1, <2>2 DEF PlanOnce
  <2>5. \A y \in away : Shift(y) = 0
    BY <1>6, <2>3, <2>4 DEF Shift
  <2>6. z.to \in STOCK_COUNTED_STATUSES <=> after \in STOCK_COUNTED_STATUSES
    BY <2>2, <2>3, <2>4
  <2>7. z.from = before /\ z \in Applied(r, planned) /\ z.unit = u
    BY <1>5, <2>1
  <2>8. \A y \in Applied(r, planned) : y.unit = u /\ Shift(y) # 0 => y = z
    BY <1>3, <1>7, <2>1, <2>5
  <2> HIDE DEF after, before
  <2> QED
    BY <1>1, <2>6, <2>7, <2>8 DEF before
<1> QED
  BY <1>8, <1>9

(* The shifts that enter the balance, by the units they are of.            *)
Shifting(applied, d) == {tr.unit : tr \in {x \in applied : Shift(x) = d}}

LEMMA NetOfShifts ==
  ASSUME NEW applied \in SUBSET UnitTransition,
         \A x, y \in applied : x.unit = y.unit /\ Shift(x) # 0 /\ Shift(y) # 0 => x = y
  PROVE  LET shifts == SetToSeq({tr \in applied : Shift(tr) # 0})
         IN  NetShift(shifts, Len(shifts))
               = Cardinality(Shifting(applied, 1)) - Cardinality(Shifting(applied, -1))
<1> DEFINE T == {tr \in applied : Shift(tr) # 0}
           shifts == SetToSeq(T)
           n == Cardinality(T)
           Those(d) == {j \in 1 .. n : Shift(shifts[j]) = d}
<1>1. IsFiniteSet(T) /\ n \in Nat
  <2>1. T \in SUBSET UnitTransition
    OBVIOUS
  <2> HIDE DEF T
  <2> QED
    BY <2>1, TransitionsFinite, FS_CardinalityType
<1>2. /\ shifts \in [1 .. n -> T]
      /\ \A i, j \in 1 .. n : shifts[i] = shifts[j] => i = j
      /\ \A t \in T : \E i \in 1 .. n : shifts[i] = t
  <2> HIDE DEF T
  <2>1. ExistsBijection(1 .. n, T)
    BY <1>1, FS_CardinalityType
  <2>2. \E f \in [1 .. n -> T] : IsInjective(f)
    BY <2>1 DEF ExistsBijection, Bijection, Injection
  <2>3. shifts \in [1 .. n -> T] /\ IsInjective(shifts)
    BY <2>2 DEF SetToSeq
  <2>4. IsFiniteSet(1 .. n) /\ Cardinality(1 .. n) = n
    BY <1>1, FS_Interval
  <2>5. shifts \in Injection(1 .. n, T)
    BY <2>3 DEF Injection
  <2>6. shifts \in Surjection(1 .. n, T)
    BY <1>1, <2>4, <2>5, FS_Injection
  <2> HIDE DEF shifts
  <2> QED
    BY <2>3, <2>6 DEF IsInjective, Surjection
<1>3. Len(shifts) = n
  <2> HIDE DEF shifts, n
  <2> QED
    BY <1>1, <1>2
<1>4. ASSUME NEW d \in {1, -1}
      PROVE  Cardinality(Those(d)) = Cardinality(Shifting(applied, d))
  <2> DEFINE f == [j \in Those(d) |-> shifts[j].unit]
  <2>1. IsFiniteSet(Those(d))
    <3>1. IsFiniteSet(1 .. n)
      BY <1>1, FS_Interval
    <3> QED
      BY <3>1, FS_Subset
  <2>2. \A j \in Those(d) : shifts[j] \in applied /\ Shift(shifts[j]) = d
    <3> HIDE DEF shifts, n
    <3> QED
      BY <1>2
  <2>3. f \in [Those(d) -> Shifting(applied, d)]
    BY <2>2 DEF Shifting
  <2>4. \A i, j \in Those(d) : f[i] = f[j] => i = j
    <3> HIDE DEF shifts, n
    <3> QED
      BY <1>2, <2>2
  <2>5. \A u \in Shifting(applied, d) : \E j \in Those(d) : f[j] = u
    <3> TAKE u \in Shifting(applied, d)
    <3>1. PICK x \in applied : Shift(x) = d /\ x.unit = u
      BY DEF Shifting
    <3>2. x \in T
      BY <3>1
    <3> HIDE DEF shifts, n, T
    <3>3. PICK j \in 1 .. n : shifts[j] = x
      BY <1>2, <3>2
    <3> QED
      BY <3>1, <3>3
  <2> HIDE DEF f, Those
  <2> QED
    BY <2>1, <2>3, <2>4, <2>5, AsMany
<1>5. NetShift(shifts, n) = Cardinality(Those(1)) - Cardinality(Those(-1))
  BY DEF NetShift
<1>6. NetShift(shifts, n)
        = Cardinality(Shifting(applied, 1)) - Cardinality(Shifting(applied, -1))
  <2> HIDE DEF shifts, n, Those
  <2> QED
    BY <1>4, <1>5
<1> QED
  BY <1>3, <1>6

(* A product is reconciled with its units: its balance moves by as many as *)
(* begin to count, less as many as cease to.                               *)
LEMMA ReconcileBalances ==
  ASSUME DbInv, TypeOKAudits, PlannedOnce, NEW r \in Completions, ReconcileProduct(r)
  PROVE  BalancedStep(r)
<1> DEFINE todo == completing[r].todo
           loc == AuditLocation[AuditOf[r]]
           planned(p) == {tr \in todo : ProductOf[tr.unit] = p}
           shifts(p) == SetToSeq({tr \in Applied(r, planned(p)) : Shift(tr) # 0})
           row(p) == AdjustedRow(Visible(r, p), shifts(p), loc)
           units(p) == [u \in {tr.unit : tr \in Applied(r, planned(p))} |->
                          ReconciledUnit(r, planned(p), u)]
<1>1. PICK p \in NextProducts(todo) :
         Rollback(r) \/ Stage(r, WriteStock(p, row(p), units(p)))
  BY DEF ReconcileProduct
<1>2. todo \in SUBSET UnitTransition /\ PlanOnce(completing[r].scanned, todo)
  BY DEF TypeOKAudits, CompletionState, PlannedOnce
<1>3. p \in Product
  <2>1. p \in {ProductOf[tr.unit] : tr \in todo}
    BY DEF NextProducts
  <2> QED
    BY <1>2, <2>1, OpeningAssumption DEF UnitTransition
<1> DEFINE plan == planned(p)
           applied == Applied(r, plan)
           written == units(p)
           gained == Shifting(applied, 1)
           lost == Shifting(applied, -1)
<1>4. /\ plan \in SUBSET UnitTransition /\ PlanOnce(completing[r].scanned, plan)
      /\ \A tr \in plan : ProductOf[tr.unit] = p
  <2>1. plan \in SUBSET todo
    OBVIOUS
  <2> HIDE DEF todo
  <2> QED
    BY <1>2, <2>1, PartOfPlan
<1>5. DOMAIN written = {tr.unit : tr \in applied}
      /\ \A u \in DOMAIN written : written[u] = ReconciledUnit(r, plan, u)
  OBVIOUS
<1>6. CASE Rollback(r)
  BY <1>6 DEF Sparing, BalancedStep
<1>7. CASE Stage(r, WriteStock(p, row(p), written))
  <2> DEFINE stock == row(p)
             new == pending'
  <2>1. Stage(r, WriteStock(p, stock, written))
    BY <1>7
  <2>2. applied \in SUBSET UnitTransition /\ applied \subseteq plan
    BY <1>4 DEF Applied, HomeApplied
  <2>3. stock.quantityOnHand = Visible(r, p).quantityOnHand + NetShift(shifts(p), Len(shifts(p)))
    <3>1. Visible(r, p) \in ProductRow
      BY <1>3, VisibleOK DEF RowOK, Row
    <3> HIDE DEF shifts
    <3> QED
      BY <3>1, BatchAmount DEF AdjustedRow
  <2> HIDE DEF planned, written, stock
  <2>4. \A u \in DOMAIN written : u \in Unit /\ ProductOf[u] = p
    BY <1>4, <1>5, <2>2 DEF UnitTransition
  <2>5. /\ Visible(r, p) = pending[p] /\ new[p] = stock
        /\ \A u \in DOMAIN written : Visible(r, u) = pending[u] /\ new[u] = written[u]
        /\ \A u \in Unit \ DOMAIN written : new[u] = pending[u]
        /\ KeepsInStep(p) => BalancedStep(r)
    BY <1>3, <2>1, <2>4, StockWritten
  <2>6. ASSUME NEW u \in DOMAIN written
        PROVE  \E x \in applied :
                  /\ x.unit = u
                  /\ x.from \in STOCK_COUNTED_STATUSES <=> u \in CountedIn(pending, p)
                  /\ x.to \in STOCK_COUNTED_STATUSES <=> u \in CountedIn(new, p)
                  /\ \A y \in applied : y.unit = u /\ Shift(y) # 0 => y = x
    <3>1. u \in Unit /\ ProductOf[u] = p /\ \E tr \in applied : tr.unit = u
      BY <1>5, <2>4
    <3>2. Visible(r, u) \in UnitRow
      BY <3>1, VisibleOK, RowAssumption DEF RowOK, Row
    <3>3. PICK x \in applied :
             /\ x.unit = u
             /\ x.from \in STOCK_COUNTED_STATUSES
                  <=> Visible(r, u).status \in STOCK_COUNTED_STATUSES
             /\ x.to \in STOCK_COUNTED_STATUSES
                  <=> ReconciledUnit(r, plan, u).status \in STOCK_COUNTED_STATUSES
             /\ \A y \in applied : y.unit = u /\ Shift(y) # 0 => y = x
      BY <1>4, <3>1, <3>2, OneShift
    <3> QED
      BY <1>5, <2>5, <3>1, <3>3 DEF CountedIn
  <2> HIDE DEF new, plan
  <2>7. \A x, y \in applied : x.unit = y.unit /\ Shift(x) # 0 /\ Shift(y) # 0 => x = y
    <3> TAKE x, y \in applied
    <3>1. x.unit \in DOMAIN written
      BY <1>5
    <3> HIDE DEF applied
    <3> QED
      BY <2>6, <3>1
  <2>8. NetShift(shifts(p), Len(shifts(p))) = Cardinality(gained) - Cardinality(lost)
    <3> HIDE DEF gained, lost
    <3>1. LET list == SetToSeq({tr \in applied : Shift(tr) # 0})
          IN  NetShift(list, Len(list))
                = Cardinality(Shifting(applied, 1)) - Cardinality(Shifting(applied, -1))
      BY <2>2, <2>7, NetOfShifts
    <3> QED
      BY <3>1 DEF gained, lost, shifts, applied, plan
  <2> HIDE DEF applied
  <2>9. ASSUME NEW u \in DOMAIN written
        PROVE  /\ u \in gained <=> (u \in CountedIn(new, p) /\ u \notin CountedIn(pending, p))
               /\ u \in lost <=> (u \notin CountedIn(new, p) /\ u \in CountedIn(pending, p))
    <3>1. PICK x \in applied :
             /\ x.unit = u
             /\ x.from \in STOCK_COUNTED_STATUSES <=> u \in CountedIn(pending, p)
             /\ x.to \in STOCK_COUNTED_STATUSES <=> u \in CountedIn(new, p)
             /\ \A y \in applied : y.unit = u /\ Shift(y) # 0 => y = x
      BY <2>6
    <3>2. u \in gained <=> Shift(x) = 1
      BY <3>1 DEF Shifting
    <3>3. u \in lost <=> Shift(x) = -1
      BY <3>1 DEF Shifting
    <3>4. /\ Shift(x) = 1 <=> (u \in CountedIn(new, p) /\ u \notin CountedIn(pending, p))
          /\ Shift(x) = -1 <=> (u \notin CountedIn(new, p) /\ u \in CountedIn(pending, p))
      BY <3>1 DEF Shift
    <3> QED
      BY <3>2, <3>3, <3>4
  <2>10. gained \subseteq DOMAIN written /\ lost \subseteq DOMAIN written
    BY <1>5 DEF Shifting
  <2>11. \A u \in Unit \ DOMAIN written : u \in CountedIn(new, p) <=> u \in CountedIn(pending, p)
    BY <2>5 DEF CountedIn
  <2>12. CountedIn(new, p) \subseteq Unit /\ CountedIn(pending, p) \subseteq Unit
    BY DEF CountedIn
  <2> HIDE DEF gained, lost
  <2>13. /\ CountedIn(new, p) = (CountedIn(pending, p) \ lost) \cup gained
         /\ lost \subseteq CountedIn(pending, p) /\ gained \cap CountedIn(pending, p) = {}
    BY <2>4, <2>9, <2>10, <2>11, <2>12
  <2>14. new[p].quantityOnHand
           = pending[p].quantityOnHand + (Cardinality(gained) - Cardinality(lost))
    BY <2>3, <2>5, <2>8
  <2>15. IsFiniteSet(Unit)
    BY AuditAssumption
  <2>16. InStep(pending, p) => InStep(new, p)
    BY <2>13, <2>14, <2>15, UnitsShifted
  <2> QED
    BY <2>5, <2>16 DEF KeepsInStep, new
<1> QED
  BY <1>1, <1>6, <1>7

LEMMA AuditsBalance ==
  ASSUME DbInv, TypeOKAudits, PlannedOnce, AuditsNext
  PROVE  \E q \in Creations \cup Scanners \cup Completions \cup Cancellations : BalancedStep(q)
<1>1. ASSUME NEW r \in Creations \cup Scanners \cup Completions \cup Cancellations, NEW value,
             Stage(r, Write(AuditOf[r], value)) \/ AutoCommit(Write(AuditOf[r], value))
      PROVE  BalancedStep(r)
  <2>1. AuditOf[r] \notin Product \cup Unit
    BY AuditRequest, RowAssumption
  <2> QED
    BY <1>1, <2>1, RowSpares DEF BalancedStep
<1>2. ASSUME NEW r, UNCHANGED dbVars \/ Commit(r) \/ Rollback(r)
      PROVE  BalancedStep(r)
  BY <1>2 DEF Sparing, BalancedStep
<1>3. ASSUME NEW r \in Creations \cup Scanners,
             CreateInventoryAudit(r) \/ ScanStep(r) \/ AbortScan(r)
      PROVE  BalancedStep(r)
  BY <1>1, <1>2, <1>3
     DEF CreateInventoryAudit, ScanStep, ReadAuditHeader, ResolveScans, InsertScans, AbortScan
<1>4. ASSUME NEW r \in Cancellations,
             ReadForCancel(r) \/ WriteCancelled(r) \/ AbortCancel(r)
      PROVE  BalancedStep(r)
  BY <1>1, <1>2, <1>4 DEF ReadForCancel, WriteCancelled, AbortCancel
<1>5. ASSUME NEW r \in Completions,
             ReadForCompletion(r) \/ CompletionStep(r) \/ AbortCompletion(r)
      PROVE  BalancedStep(r)
  <2>1. CASE ReconcileProduct(r)
    BY <2>1, ReconcileBalances
  <2>2. CASE ~ ReconcileProduct(r)
    BY <1>1, <1>2, <1>5, <2>2 DEF ReadForCompletion, CompletionStep, ClaimAudit, RefreshScanResults,
       PlanUnitTransitions, CommitCompletion, AbortCompletion
  <2> QED
    BY <2>1, <2>2
<1> QED
  BY <1>3, <1>4, <1>5 DEF AuditsNext

(* Every step, for the plans of the audits.                                *)
LEMMA PlannedInvariant == Spec => [](StockInv /\ PlannedOnce)
<1>1. Init => PlannedOnce
  BY DEF Init, InitAuditLocals, IdleCompletion, PlannedOnce, PlanOnce
<1>2. StockInv /\ PlannedOnce /\ [Next \/ Done]_vars => PlannedOnce'
  <2> SUFFICES ASSUME StockInv, PlannedOnce, [Next \/ Done]_vars
               PROVE  PlannedOnce'
    OBVIOUS
  <2>1. CASE InAudits(AuditsNext)
    BY <2>1, StockInvParts, AuditsPlanOnce DEF InAudits
  <2>2. CASE UNCHANGED completing
    BY <2>2 DEF PlannedOnce
  <2> QED
    BY <2>1, <2>2 DEF Next, Done, InPos, InUnits, InRecords, InCatalog, InReceipts, InReports,
       auditLocals, vars
<1> QED
  BY <1>1, <1>2, SalesInvariant, PTL DEF Spec

(* Every step, for the balances and the units.                             *)
LEMMA NextBalances ==
  ASSUME StockInv, UnitsRegistered, PlannedOnce, ChangesFresh, UnitsMoveAlong, [Next \/ Done]_vars
  PROVE  \/ InPos(PosNext)
         \/ \E q \in Req \ PosReq : BalancedStep(q)
         \/ UNCHANGED dbVars
<1>1. /\ DbInv /\ TypeOKUnits /\ TypeOKRecords /\ TypeOKCatalog /\ TypeOKAudits
      /\ TypeOKReceipts
  BY StockInvParts
<1>2. CASE InUnits(UnitsNext)
  <2>1. Changes \cup Edits \cup Registrations \subseteq Req \ PosReq
    BY UnitsAssumption, PosReqApart
  <2> QED
    BY <1>1, <1>2, <2>1, ChangesBalance, EditsBalance, RegistrationsBalance DEF InUnits, UnitsNext
<1>3. CASE InRecords(RecordsNext)
  <2>1. Records \subseteq (Req \ PosReq)
    BY RecordsAssumption, UnitWritersApart
  <2> QED
    BY <1>1, <1>3, <2>1, RecordsBalance DEF InRecords
<1>4. CASE InCatalog(CatalogNext)
  <2>1. CatalogReq \subseteq (Req \ PosReq)
    BY CatalogAssumption, UnitWritersApart
  <2> QED
    BY <1>1, <1>4, <2>1, CatalogBalances DEF InCatalog
<1>5. CASE InAudits(AuditsNext)
  <2>1. (Creations \cup Scanners \cup Completions \cup Cancellations) \subseteq (Req \ PosReq)
    BY AuditRequest, PosReqApart
  <2> QED
    BY <1>1, <1>5, <2>1, AuditsBalance DEF InAudits
<1>6. CASE InReceipts(ReceiptsNext)
  <2>1. Receipts \subseteq (Req \ PosReq)
    BY ReceiptsAssumption, UnitWritersApart
  <2> QED
    BY <1>1, <1>6, <2>1, ReceiptsBalance DEF InReceipts, ReceiptsNext
<1>7. CASE InReports(ReportsNext)
  BY <1>7 DEF InReports, ReportsNext, ReportStep, BeginReport, BuildTotals, BuildByCategory,
     BuildByLocation, BuildAttention, AbortReport, Reports
<1>8. CASE UNCHANGED vars
  BY <1>8 DEF vars, dbVars
<1> QED
  BY <1>2, <1>3, <1>4, <1>5, <1>6, <1>7, <1>8 DEF Next, Done

LEMMA NextKeepsStock ==
  ASSUME StockInv, StockInv', LedgersGrow, SalesInv, UnitsRegistered, PlannedOnce,
         ChangesFresh, UnitsMoveAlong, UnitsConsistent, StockInStep, [Next \/ Done]_vars
  PROVE  StockInStep'
<1>1. DbInv /\ PosInv /\ DbInv'
  BY StockInvParts DEF StockInv, InventoryTypeOK, TypeOK, DbInv
<1>2. CASE InPos(PosNext)
  BY <1>1, <1>2, PosNextStock, AuditAssumption DEF InPos
<1>3. CASE Elsewhere(PosReq) /\ UNCHANGED posLocals
  <2>1. (VoidedOnce' => VoidedOnce) /\ UNCHANGED void /\ \A s \in Sale : committed'[s] = committed[s]
    BY <1>1, <1>3, ElsewhereVoided DEF Elsewhere, posLocals
  <2>2. ASSUME NEW q \in Req \ PosReq, BalancedStep(q)
        PROVE  StockInStep'
    BY <1>1, <2>1, <2>2, BalancingKeeps
  <2>3. CASE UNCHANGED dbVars
    BY <2>1, <2>3, BalancesKept DEF dbVars, SameBalance
  <2> QED
    BY <1>2, <2>2, <2>3, NextBalances
<1> QED
  BY <1>2, <1>3, NextElsewhere

(* QuantityCountsUnits whatever runs beside the point of sale, for every   *)
(* number of requests of every handler: the balance of a serialized product*)
(* counts its units, unless some sale was voided twice, a unit was sold    *)
(* while its status was being changed by hand, the change found another    *)
(* status than it had read, or stock of such a product was booked without  *)
(* naming a unit.  So no audit, registration, sale or void breaks it.      *)
THEOREM StockCountsUnitsTogether ==
  ASSUME OpeningInStep
  PROVE  Spec /\ []ChangesSpareSold /\ []ChangesFresh /\ []UnitsMoveAlong
           => [](VoidedOnce => QuantityCountsUnits)
<1> DEFINE Rest == ChangesUnsold /\ UnitsConsistent /\ StockInStep
<1>1. Init => Rest
  <2> SUFFICES ASSUME Init
               PROVE  Rest
    OBVIOUS
  <2>1. \A u \in Unit : holder[u] \notin Changes
    BY UnitsAssumption, RowAssumption DEF Init, InitDb, Row
  <2> QED
    BY <2>1, InitUnitsOK, InitStockOK DEF Init, ChangesUnsold
<1>2. StockInv /\ StockInv' /\ SalesInv /\ AuditsConsistent /\ UnitsRegistered /\ PlannedOnce
        /\ ChangesSpareSold /\ ChangesFresh /\ UnitsMoveAlong /\ Rest /\ [Next \/ Done]_vars
        => Rest'
  BY NextKeeps, NextKeepsUnits, NextKeepsStock
<1>3. Rest => (VoidedOnce => QuantityCountsUnits)
  BY DEF StockInStep, InStep, QuantityCountsUnits, CountedUnits
<1> HIDE DEF Rest
<1> QED
  BY <1>1, <1>2, <1>3, RegisteredInvariant, PlannedInvariant, PTL DEF Spec

(* ReportConsistent where the balances count their units: a dashboard's    *)
(* sections agree whatever commits while they are put together, where each *)
(* sale is named by one void request, and changes by hand and movements    *)
(* without a unit are as above.                                            *)
THEOREM ReportsAgreeTogether ==
  ASSUME OneVoidPerSale, OpeningInStep
  PROVE  Spec /\ []ChangesSpareSold /\ []ChangesFresh /\ []UnitsMoveAlong => []ReportConsistent
BY StockCountsUnitsTogether, VoidsReturnOnceTogether, ReportsAgree, PTL

-----------------------------------------------------------------------------
(* A sale and its movements, an audit and its one completion, a key and    *)
(* its one receipt, a receipt and its purchases and new products: what the *)
(* histories behind SaleBooked, AuditSparesOthers, KeysTakenOnce,          *)
(* ReceiptsBooked and LinesShareProduct need, with that a unit's row is    *)
(* written by its registration alone until it is there, and that the plan  *)
(* of an audit has each unit once, together, whatever runs beside them.    *)
THEOREM HistoryAlwaysConsistent == Spec => []HistoryInv
<1>1. SalesInv /\ AuditsConsistent /\ KeysConsistent /\ ReceiptsConsistent /\ LinesConsistent
        /\ UnitsRegistered /\ PlannedOnce => HistoryInv
  BY LinesConsistentMeans DEF SalesInv, HistoryInv
<1> QED
  BY <1>1, SalesInvariant, AuditsInvariant, KeysInvariant, ReceiptsInvariant, LinesInvariant,
     RegisteredInvariant, PlannedInvariant, PTL
=============================================================================
