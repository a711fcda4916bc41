---------------------------- MODULE StockDbProofs ----------------------------
(***************************************************************************)
(* What the statements of StockDb keep true, whichever handler issues them.*)
(* The proofs about handlers only have to show that the rows they write    *)
(* are rows they may write.                                                *)
(***************************************************************************)
EXTENDS StockDb, TLAPS, SequenceTheorems

DbInv == TypeOKDb /\ VersionsConsistent

(* A value a row may take: well typed and, for a product, balanced.        *)
RowOK(x, v) ==
  /\ x \in Product => v \in ProductRow /\ Balanced(x, v)
  /\ x \in Unit => v \in UnitRow
  /\ x \in Sale => v \in SaleRow
  /\ x \in Audit => v \in AuditRow
  /\ x \in IdempotencyKey => v \in KeyRow

(* Units and the rows they may take.                                       *)
UnitRowsOK(unitRows) == \A u \in DOMAIN unitRows : u \in Unit /\ unitRows[u] \in UnitRow

(* Committed ledgers are only ever continued.                              *)
LedgersGrow == \A p \in Product : Continues(committed[p].ledger, committed'[p].ledger)

(* A ledger continues itself.                                              *)
LEMMA ContinuesReflexive == \A s : Len(s) \in Nat => Continues(s, s)
BY DEF Continues

(* Continuing a continuation is continuing.                                *)
LEMMA ContinuesTransitive ==
  ASSUME NEW T, NEW s \in Seq(T), NEW t \in Seq(T), NEW u \in Seq(T),
         Continues(s, t), Continues(t, u)
  PROVE  Continues(s, u)
BY DEF Continues

(* The ledger of a product row is a sequence of movements.                 *)
LEMMA LedgerType ==
  ASSUME NEW row \in ProductRow
  PROVE  row.ledger \in Seq(StockMovement) /\ Len(row.ledger) \in Nat
         /\ row.quantityOnHand \in Nat
BY DEF ProductRow

(* Both versions of each row may be what they are.                         *)
LEMMA VersionsOK ==
  ASSUME DbInv, NEW x \in Row
  PROVE  RowOK(x, committed[x]) /\ RowOK(x, pending[x])
BY DEF DbInv, TypeOKDb, DbTypeOK, VersionsConsistent, RowOK, Row

(* A transaction that may lock a row sees its pending version.             *)
LEMMA VisibleIsPending ==
  ASSUME DbInv, NEW x \in Row, NEW r, Lockable(r, x)
  PROVE  Visible(r, x) = pending[x]
BY DEF DbInv, VersionsConsistent, Lockable, Visible

(* What is visible of a row is a value it may take.                        *)
LEMMA VisibleOK ==
  ASSUME DbInv, NEW x \in Row, NEW r
  PROVE  RowOK(x, Visible(r, x))
BY VersionsOK DEF Visible

(* What is visible of a product has a card, and that a location or none.   *)
LEMMA CardType ==
  ASSUME DbInv, NEW p \in Product, NEW r
  PROVE  /\ committed[p].card \in Card /\ committed[p].card.loc \in Location \cup {NoLocation}
         /\ Visible(r, p).card \in Card /\ Visible(r, p).card.loc \in Location \cup {NoLocation}
<1>1. p \in Row
  BY DEF Row
<1>2. committed[p] \in ProductRow /\ Visible(r, p) \in ProductRow
  BY <1>1, VersionsOK, VisibleOK DEF RowOK
<1> QED
  BY <1>2 DEF ProductRow, Card

(* The balance of a row that is posted to, when the handler goes on.       *)
LEMMA PostedQuantity ==
  ASSUME NEW row \in ProductRow, NEW type, NEW change \in Int, NEW u, NEW loc, NEW s,
         NEW item, ~ Oversold(Posted(row, type, change, u, loc, s, item))
  PROVE  row.quantityOnHand + change >= 0
<1> DEFINE new == Posted(row, type, change, u, loc, s, item)
           moved == [row EXCEPT !.quantityOnHand = @ + change]
           m == Movement(type, change, row.quantityOnHand + change, u, loc, s, item)
<1>1. new = [moved EXCEPT !.ledger = Append(row.ledger, m)]
  BY Zenon DEF Posted
<1>2. moved = [quantityOnHand |-> row.quantityOnHand + change,
               ledger |-> row.ledger, isArchived |-> row.isArchived, card |-> row.card]
  BY DEF ProductRow
<1>3. row.quantityOnHand \in Nat
  BY DEF ProductRow
<1>4. ~ new.quantityOnHand < 0
  BY Zenon DEF Oversold
<1> HIDE DEF new, moved, m
<1> QED
  BY <1>1, <1>2, <1>3, <1>4

(* A row that is posted to stays a product row, balanced, and its ledger   *)
(* is continued: the arithmetic of completeProductSale, restoreProduct-    *)
(* Quantity, changeProductUnitStatus and recordStockMovement.              *)
LEMMA PostedOK ==
  ASSUME NEW p \in Product, NEW row \in ProductRow, Balanced(p, row),
         NEW type \in SystemKey, NEW change \in Int, NEW u \in Unit \cup {NoUnit},
         NEW loc \in Location \cup {NoLocation}, NEW s \in Sale \cup {NoSale},
         NEW item \in Nat,
         row.quantityOnHand + change >= 0
  PROVE  LET new == Posted(row, type, change, u, loc, s, item)
         IN  /\ new \in ProductRow
             /\ Balanced(p, new)
             /\ Continues(row.ledger, new.ledger)
<1> DEFINE m == Movement(type, change, row.quantityOnHand + change, u, loc, s, item)
           new == Posted(row, type, change, u, loc, s, item)
<1>1. row.ledger \in Seq(StockMovement) /\ Len(row.ledger) \in Nat
      /\ row.quantityOnHand \in Nat
  BY LedgerType
<1>2. m \in StockMovement
  BY <1>1 DEF Movement, StockMovement
<1>3. new = [quantityOnHand |-> row.quantityOnHand + change,
             ledger |-> Append(row.ledger, m), isArchived |-> row.isArchived, card |-> row.card]
  <2> DEFINE moved == [row EXCEPT !.quantityOnHand = @ + change]
  <2>1. new = [moved EXCEPT !.ledger = Append(row.ledger, m)]
    BY Zenon DEF Posted
  <2>2. moved = [quantityOnHand |-> row.quantityOnHand + change,
                 ledger |-> row.ledger, isArchived |-> row.isArchived, card |-> row.card]
    BY DEF ProductRow
  <2> HIDE DEF moved, new, m
  <2> QED
    BY <2>1, <2>2
<1>4. new \in ProductRow
  BY <1>1, <1>2, <1>3 DEF ProductRow
<1>5. /\ Append(row.ledger, m) \in Seq(StockMovement)
      /\ Len(Append(row.ledger, m)) = Len(row.ledger) + 1
      /\ \A i \in 1 .. Len(row.ledger) : Append(row.ledger, m)[i] = row.ledger[i]
      /\ Append(row.ledger, m)[Len(row.ledger) + 1] = m
  BY <1>1, <1>2
<1>6. Continues(row.ledger, new.ledger)
  BY <1>1, <1>3, <1>5 DEF Continues
<1>7. Balanced(p, new)
  <2>1. m.quantityAfter = row.quantityOnHand + change /\ m.quantityChange = change
    BY DEF Movement
  <2>2. row.quantityOnHand = BalanceBefore(p, row.ledger, Len(row.ledger) + 1)
    BY DEF Balanced
  <2>3. \A i \in 1 .. Len(row.ledger) + 1 :
          BalanceBefore(p, new.ledger, i) = BalanceBefore(p, row.ledger, i)
    BY <1>1, <1>3, <1>5 DEF BalanceBefore
  <2>4. ASSUME NEW i \in 1 .. Len(new.ledger)
        PROVE  new.ledger[i].quantityAfter =
                 BalanceBefore(p, new.ledger, i) + new.ledger[i].quantityChange
    <3>1. CASE i \in 1 .. Len(row.ledger)
      BY <1>1, <1>3, <1>5, <2>3, <3>1 DEF Balanced
    <3>2. CASE i = Len(row.ledger) + 1
      <4>1. new.ledger[i] = m
        BY <1>3, <1>5, <3>2
      <4>2. BalanceBefore(p, new.ledger, i) = row.quantityOnHand
        BY <1>1, <2>2, <2>3, <3>2
      <4> QED
        BY <2>1, <4>1, <4>2
    <3> QED
      BY <1>1, <1>3, <1>5, <3>1, <3>2
  <2>5. new.quantityOnHand = BalanceBefore(p, new.ledger, Len(new.ledger) + 1)
    BY <1>1, <1>3, <1>5, <2>1 DEF BalanceBefore
  <2> QED
    BY <2>4, <2>5 DEF Balanced
<1> QED
  BY <1>4, <1>6, <1>7

(* The balance a movement of a batch starts from.                          *)
BatchBefore(row, batch, i) ==
  IF i = 1 THEN row.quantityOnHand ELSE batch[i - 1].quantityAfter

(* A row to which one update posts a batch of movements, each from the     *)
(* balance the one before it left: the arithmetic of registerProductUnits  *)
(* and reconcileUnitStatuses.                                              *)
LEMMA BatchPostedOK ==
  ASSUME NEW p \in Product, NEW row \in ProductRow, Balanced(p, row),
         NEW batch \in Seq(StockMovement), NEW new,
         \A i \in 1 .. Len(batch) :
            batch[i].quantityAfter = BatchBefore(row, batch, i) + batch[i].quantityChange,
         new = [quantityOnHand |-> BatchBefore(row, batch, Len(batch) + 1),
                ledger |-> row.ledger \o batch, isArchived |-> row.isArchived, card |-> row.card],
         new.quantityOnHand \in Nat
  PROVE  /\ new \in ProductRow
         /\ Balanced(p, new)
         /\ Continues(row.ledger, new.ledger)
<1> DEFINE old == row.ledger
           n == Len(batch)
           whole == new.ledger
<1>1. old \in Seq(StockMovement) /\ Len(old) \in Nat /\ n \in Nat
  BY LedgerType
<1>2. /\ whole \in Seq(StockMovement) /\ Len(whole) = Len(old) + n
      /\ \A i \in 1 .. Len(old) + n :
            whole[i] = IF i <= Len(old) THEN old[i] ELSE batch[i - Len(old)]
  BY <1>1, ConcatProperties
<1>3. new.quantityOnHand = BatchBefore(row, batch, n + 1)
      /\ new.isArchived = row.isArchived /\ new.card = row.card
  OBVIOUS
<1>4. new \in ProductRow
  BY <1>2 DEF ProductRow
<1> HIDE DEF whole, old, n
<1>5. \A i \in 1 .. Len(old) : whole[i] = old[i]
  BY <1>1, <1>2
<1>6. ASSUME NEW i \in 1 .. n
      PROVE  whole[Len(old) + i] = batch[i]
  <2>1. Len(old) + i \in 1 .. Len(old) + n /\ ~ (Len(old) + i <= Len(old))
        /\ (Len(old) + i) - Len(old) = i
    BY <1>1
  <2> QED
    BY <1>2, <2>1
<1>7. Continues(old, whole)
  BY <1>1, <1>2, <1>5 DEF Continues
<1>8. \A i \in 1 .. Len(old) + 1 : BalanceBefore(p, whole, i) = BalanceBefore(p, old, i)
  BY <1>1, <1>5 DEF BalanceBefore
<1>9. ASSUME NEW i \in 1 .. n + 1
      PROVE  BalanceBefore(p, whole, Len(old) + i) = BatchBefore(row, batch, i)
  <2>1. CASE i = 1
    <3>1. row.quantityOnHand = BalanceBefore(p, old, Len(old) + 1)
      BY DEF Balanced, old
    <3> QED
      BY <1>1, <1>8, <2>1, <3>1 DEF BatchBefore
  <2>2. CASE i # 1
    <3>1. i - 1 \in 1 .. n /\ Len(old) + i # 1
          /\ (Len(old) + i) - 1 = Len(old) + (i - 1)
      BY <1>1, <2>2
    <3>2. whole[Len(old) + (i - 1)] = batch[i - 1]
      BY <1>6, <3>1
    <3> QED
      BY <2>2, <3>1, <3>2 DEF BalanceBefore, BatchBefore
  <2> QED
    BY <2>1, <2>2
<1>10. ASSUME NEW i \in 1 .. Len(whole)
       PROVE  whole[i].quantityAfter = BalanceBefore(p, whole, i) + whole[i].quantityChange
  <2>1. CASE i \in 1 .. Len(old)
    <3>1. old[i].quantityAfter = BalanceBefore(p, old, i) + old[i].quantityChange
      BY <2>1 DEF Balanced, old
    <3> QED
      BY <1>1, <1>5, <1>8, <2>1, <3>1
  <2>2. CASE i \notin 1 .. Len(old)
    <3> DEFINE j == i - Len(old)
    <3>1. j \in 1 .. n /\ j \in 1 .. n + 1 /\ i = Len(old) + j
      BY <1>1, <1>2, <2>2
    <3> HIDE DEF j
    <3>2. whole[i] = batch[j]
      BY <1>6, <3>1
    <3>3. BalanceBefore(p, whole, i) = BatchBefore(row, batch, j)
      BY <1>9, <3>1
    <3>4. batch[j].quantityAfter = BatchBefore(row, batch, j) + batch[j].quantityChange
      BY <3>1 DEF n
    <3> QED
      BY <3>2, <3>3, <3>4
  <2> QED
    BY <2>1, <2>2
<1>11. new.quantityOnHand = BalanceBefore(p, whole, Len(whole) + 1)
  <2>1. n + 1 \in 1 .. n + 1 /\ Len(whole) + 1 = Len(old) + (n + 1)
    BY <1>1, <1>2
  <2> QED
    BY <1>3, <1>9, <2>1
<1>12. Balanced(p, new)
  BY <1>10, <1>11 DEF Balanced, whole
<1> QED
  BY <1>4, <1>7, <1>12 DEF whole, old

-----------------------------------------------------------------------------
(* A row after a statement that wrote `rows` over `version`.               *)
LEMMA Overwritten ==
  ASSUME NEW rows, NEW version,
         \A x \in Row : RowOK(x, version[x]),
         \A x \in DOMAIN rows : x \in Row /\ RowOK(x, rows[x])
  PROVE  LET after == [x \in Row |-> IF x \in DOMAIN rows THEN rows[x] ELSE version[x]]
         IN  DbTypeOK(after) /\ \A p \in Product : Balanced(p, after[p])
BY DEF DbTypeOK, RowOK, Row

(* A statement inside a transaction publishes nothing and keeps the        *)
(* invariant, if the rows it writes may be what they become and products   *)
(* have their ledgers continued.                                           *)
LEMMA StageKeeps ==
  ASSUME DbInv, NEW r \in Req, NEW rows, Stage(r, rows),
         \A x \in DOMAIN rows : x \in Row /\ RowOK(x, rows[x]),
         \A p \in Product : p \in DOMAIN rows =>
           Continues(pending[p].ledger, rows[p].ledger)
  PROVE  DbInv' /\ committed' = committed
<1>1. committed' = committed
  BY DEF Stage
<1>2. pending' = [x \in Row |-> IF x \in DOMAIN rows THEN rows[x] ELSE pending[x]]
  BY DEF Stage
<1>3. holder' = [x \in Row |-> IF x \in DOMAIN rows THEN r ELSE holder[x]]
  BY DEF Stage
<1>4. DbTypeOK(pending') /\ \A p \in Product : Balanced(p, pending'[p])
  BY <1>2, VersionsOK, Overwritten
<1>5. holder' \in [Row -> Req \cup {NoReq}]
  BY <1>3 DEF DbInv, TypeOKDb
<1>6. \A x \in Row : holder'[x] = NoReq => pending'[x] = committed'[x]
  BY <1>1, <1>2, <1>3, RowAssumption DEF DbInv, VersionsConsistent
<1>7. ASSUME NEW p \in Product
      PROVE  Continues(committed[p].ledger, pending'[p].ledger)
  <2>1. Continues(committed[p].ledger, pending[p].ledger)
    BY DEF DbInv, VersionsConsistent
  <2>2. /\ committed[p].ledger \in Seq(StockMovement)
        /\ pending[p].ledger \in Seq(StockMovement)
        /\ pending'[p].ledger \in Seq(StockMovement)
    BY <1>4, LedgerType DEF DbInv, TypeOKDb, DbTypeOK
  <2>3. Continues(pending[p].ledger, pending'[p].ledger)
    BY <1>2, <2>2, ContinuesReflexive DEF Row
  <2> QED
    BY <2>1, <2>2, <2>3, ContinuesTransitive
<1>8. TypeOKDb'
  BY <1>1, <1>4, <1>5 DEF DbInv, TypeOKDb, DbTypeOK
<1>9. VersionsConsistent'
  BY <1>1, <1>4, <1>6, <1>7 DEF DbInv, VersionsConsistent, Balanced, BalanceBefore
<1> QED
  BY <1>1, <1>8, <1>9 DEF DbInv

(* A statement outside a transaction keeps the invariant and the ledgers,  *)
(* if the products it writes keep theirs.                                  *)
LEMMA AutoCommitKeeps ==
  ASSUME DbInv, NEW rows, AutoCommit(rows),
         \A x \in DOMAIN rows : x \in Row /\ RowOK(x, rows[x]),
         \A p \in Product : p \in DOMAIN rows => rows[p].ledger = committed[p].ledger
  PROVE  DbInv' /\ LedgersGrow
<1>1. committed' = [x \in Row |-> IF x \in DOMAIN rows THEN rows[x] ELSE committed[x]]
  BY DEF AutoCommit
<1>2. pending' = [x \in Row |-> IF x \in DOMAIN rows THEN rows[x] ELSE pending[x]]
  BY DEF AutoCommit
<1>3. holder' = holder
  BY DEF AutoCommit
<1>4. DbTypeOK(pending') /\ \A p \in Product : Balanced(p, pending'[p])
  BY <1>2, VersionsOK, Overwritten
<1>5. DbTypeOK(committed') /\ \A p \in Product : Balanced(p, committed'[p])
  BY <1>1, VersionsOK, Overwritten
<1>6. \A x \in Row : holder'[x] = NoReq => pending'[x] = committed'[x]
  BY <1>1, <1>2, <1>3 DEF DbInv, VersionsConsistent
<1>7. ASSUME NEW p \in Product
      PROVE  /\ Continues(committed[p].ledger, committed'[p].ledger)
             /\ Continues(committed'[p].ledger, pending'[p].ledger)
  <2>1. Continues(committed[p].ledger, pending[p].ledger)
    BY DEF DbInv, VersionsConsistent
  <2>2. Len(committed[p].ledger) \in Nat
    BY LedgerType DEF DbInv, TypeOKDb, DbTypeOK
  <2>3. committed'[p].ledger = committed[p].ledger
    BY <1>1 DEF Row
  <2>4. pending'[p].ledger \in {committed[p].ledger, pending[p].ledger}
    BY <1>2 DEF Row
  <2> QED
    BY <2>1, <2>2, <2>3, <2>4, ContinuesReflexive
<1>8. TypeOKDb'
  BY <1>3, <1>4, <1>5 DEF DbInv, TypeOKDb
<1>9. VersionsConsistent'
  BY <1>4, <1>5, <1>6, <1>7 DEF VersionsConsistent, Balanced, BalanceBefore
<1> QED
  BY <1>7, <1>8, <1>9 DEF DbInv, LedgersGrow

(* A commit publishes pending rows, which is where the pending half of     *)
(* VersionsConsistent is needed.                                           *)
LEMMA CommitKeeps ==
  ASSUME DbInv, NEW r \in Req, Commit(r)
  PROVE  DbInv' /\ LedgersGrow
<1>1. committed' = [x \in Row |-> IF holder[x] = r THEN pending[x] ELSE committed[x]]
  BY DEF Commit
<1>2. pending' = pending
  BY DEF Commit
<1>3. holder' = [x \in Row |-> IF holder[x] = r THEN NoReq ELSE holder[x]]
  BY DEF Commit, Released
<1>4. \A x \in Row : committed'[x] \in {committed[x], pending[x]}
  BY <1>1
<1>5. DbTypeOK(committed')
  BY <1>1, <1>4, VersionsOK DEF DbTypeOK, RowOK, Row
<1>6. \A x \in Row : holder'[x] = NoReq => pending'[x] = committed'[x]
  BY <1>1, <1>2, <1>3 DEF DbInv, VersionsConsistent
<1>7. ASSUME NEW p \in Product
      PROVE  /\ Continues(committed[p].ledger, committed'[p].ledger)
             /\ Continues(committed'[p].ledger, pending'[p].ledger)
  <2>1. Continues(committed[p].ledger, pending[p].ledger)
    BY DEF DbInv, VersionsConsistent
  <2>2. Len(committed[p].ledger) \in Nat /\ Len(pending[p].ledger) \in Nat
    BY LedgerType DEF DbInv, TypeOKDb, DbTypeOK
  <2>3. committed'[p] \in {committed[p], pending[p]}
    BY <1>4 DEF Row
  <2> QED
    BY <1>2, <2>1, <2>2, <2>3, ContinuesReflexive
<1>8. \A p \in Product : Balanced(p, committed'[p]) /\ Balanced(p, pending'[p])
  BY <1>2, <1>4 DEF DbInv, VersionsConsistent, Row
<1>9. TypeOKDb'
  BY <1>2, <1>3, <1>5 DEF DbInv, TypeOKDb, DbTypeOK
<1>10. VersionsConsistent'
  BY <1>6, <1>7, <1>8 DEF VersionsConsistent, Balanced, BalanceBefore
<1> QED
  BY <1>7, <1>9, <1>10 DEF DbInv, LedgersGrow

(* A rollback publishes nothing and keeps the invariant.                   *)
LEMMA RollbackKeeps ==
  ASSUME DbInv, NEW r \in Req, Rollback(r)
  PROVE  DbInv' /\ committed' = committed
<1>1. committed' = committed
  BY DEF Rollback
<1>2. pending' = [x \in Row |-> IF holder[x] = r THEN committed[x] ELSE pending[x]]
  BY DEF Rollback
<1>3. holder' = [x \in Row |-> IF holder[x] = r THEN NoReq ELSE holder[x]]
  BY DEF Rollback, Released
<1>4. \A x \in Row : pending'[x] \in {committed[x], pending[x]}
  BY <1>2
<1>5. DbTypeOK(pending')
  BY <1>2, <1>4, VersionsOK DEF DbTypeOK, RowOK, Row
<1>6. \A x \in Row : holder'[x] = NoReq => pending'[x] = committed'[x]
  BY <1>1, <1>2, <1>3 DEF DbInv, VersionsConsistent
<1>7. ASSUME NEW p \in Product
      PROVE  Continues(committed[p].ledger, pending'[p].ledger)
  <2>1. Continues(committed[p].ledger, pending[p].ledger)
    BY DEF DbInv, VersionsConsistent
  <2>2. Len(committed[p].ledger) \in Nat
    BY LedgerType DEF DbInv, TypeOKDb, DbTypeOK
  <2>3. pending'[p] \in {committed[p], pending[p]}
    BY <1>4 DEF Row
  <2> QED
    BY <2>1, <2>2, <2>3, ContinuesReflexive
<1>8. \A p \in Product : Balanced(p, pending'[p])
  BY <1>4 DEF DbInv, VersionsConsistent, Row
<1>9. TypeOKDb'
  BY <1>1, <1>3, <1>5 DEF DbInv, TypeOKDb, DbTypeOK
<1>10. VersionsConsistent'
  BY <1>1, <1>6, <1>7, <1>8, SMTT(20) DEF DbInv, VersionsConsistent, Balanced, BalanceBefore
<1> QED
  BY <1>1, <1>9, <1>10 DEF DbInv

-----------------------------------------------------------------------------
(* The rows of the statements the handlers issue.                          *)

(* What every step of a handler does to the tables: it keeps the invariant *)
(* and continues committed ledgers.                                        *)
DbStep == DbInv' /\ LedgersGrow

(* A step that publishes nothing continues every ledger.                   *)
LEMMA NothingPublished ==
  ASSUME DbInv, committed' = committed
  PROVE  LedgersGrow
<1>1. \A p \in Product : Len(committed[p].ledger) \in Nat
  BY LedgerType DEF DbInv, TypeOKDb, DbTypeOK
<1> QED
  BY <1>1, ContinuesReflexive DEF LedgersGrow

(* A step that leaves the tables alone.                                    *)
LEMMA TablesUnchanged ==
  ASSUME DbInv, UNCHANGED dbVars
  PROVE  DbStep
<1>1. LedgersGrow
  BY NothingPublished DEF dbVars
<1>2. DbInv'
  BY DEF DbInv, TypeOKDb, DbTypeOK, VersionsConsistent, Balanced, BalanceBefore, dbVars
<1> QED
  BY <1>1, <1>2 DEF DbStep

(* A transaction writes a product, continuing its ledger, and units of it. *)
LEMMA StageStock ==
  ASSUME DbInv, NEW r \in Req, NEW p \in Product,
         NEW row \in ProductRow, Balanced(p, row),
         Continues(Visible(r, p).ledger, row.ledger),
         NEW unitRows, UnitRowsOK(unitRows),
         Stage(r, WriteStock(p, row, unitRows))
  PROVE  DbStep
<1> DEFINE rows == WriteStock(p, row, unitRows)
<1>1. Visible(r, p) = pending[p]
  <2>1. Lockable(r, p)
    BY DEF Stage, WriteStock
  <2> QED
    BY <2>1, VisibleIsPending DEF Row
<1>2. \A x \in DOMAIN rows : x \in Row /\ RowOK(x, rows[x])
  BY RowAssumption DEF RowOK, Row, WriteStock, UnitRowsOK
<1>3. \A q \in Product : q \in DOMAIN rows => q = p /\ rows[q] = row
  BY RowAssumption DEF WriteStock, UnitRowsOK
<1> HIDE DEF rows
<1>4. DbInv' /\ committed' = committed
  <2>1. Stage(r, rows)
    BY DEF rows
  <2> QED
    BY <1>1, <1>2, <1>3, <2>1, StageKeeps
<1> QED
  BY <1>4, NothingPublished DEF DbStep

(* A transaction posts a movement to a product, and may write units of it. *)
LEMMA StagePosted ==
  ASSUME DbInv, NEW r \in Req, NEW p \in Product,
         NEW type \in SystemKey, NEW change \in Int, NEW u \in Unit \cup {NoUnit},
         NEW loc \in Location \cup {NoLocation}, NEW s \in Sale \cup {NoSale},
         NEW item \in Nat,
         Visible(r, p).quantityOnHand + change >= 0,
         NEW unitRows, UnitRowsOK(unitRows),
         Stage(r, WriteStock(p, Posted(Visible(r, p), type, change, u, loc, s, item),
                             unitRows))
  PROVE  DbStep
<1> DEFINE row == Posted(Visible(r, p), type, change, u, loc, s, item)
<1>1. Visible(r, p) \in ProductRow /\ Balanced(p, Visible(r, p))
  BY VisibleOK DEF RowOK, Row
<1>2. /\ row \in ProductRow /\ Balanced(p, row)
      /\ Continues(Visible(r, p).ledger, row.ledger)
  BY <1>1, PostedOK
<1> HIDE DEF row
<1>3. Stage(r, WriteStock(p, row, unitRows))
  BY DEF row
<1> QED
  BY <1>2, <1>3, StageStock

(* A handler that fails leaves the tables as they were.                    *)
LEMMA RolledBack ==
  ASSUME DbInv, NEW r \in Req, Rollback(r)
  PROVE  DbStep
BY RollbackKeeps, NothingPublished DEF DbStep

(* A handler that succeeds publishes what it wrote.                        *)
LEMMA Committed ==
  ASSUME DbInv, NEW r \in Req, Commit(r)
  PROVE  DbStep
BY CommitKeeps DEF DbStep

(* Opening balances are balanced.                                          *)
LEMMA InitDbOK ==
  ASSUME InitDb
  PROVE  DbInv
<1>1. \A x \in Row : RowOK(x, OpeningRow[x])
  <2>1. ASSUME NEW p \in Product
        PROVE  OpeningRow[p] \in ProductRow /\ Balanced(p, OpeningRow[p])
    <3>1. OpeningRow[p] = [quantityOnHand |-> Opening[p], ledger |-> <<>>,
                           isArchived |-> FALSE, card |-> OpeningCard[p]]
      BY DEF OpeningRow, Row
    <3>2. Opening[p] \in Nat /\ OpeningCard[p] \in Card
      BY OpeningAssumption
    <3> QED
      BY <3>1, <3>2 DEF ProductRow, Balanced, BalanceBefore
  <2>2. ASSUME NEW u \in Unit
        PROVE  OpeningRow[u] \in UnitRow
    BY RowAssumption, OpeningAssumption DEF OpeningRow, Row
  <2>3. ASSUME NEW s \in Sale
        PROVE  OpeningRow[s] \in SaleRow
    <3>1. OpeningRow[s] = [status |-> "NONE", items |-> <<>>]
      BY RowAssumption DEF OpeningRow, Row
    <3> QED
      BY <3>1 DEF SaleRow
  <2>4. ASSUME NEW a \in Audit
        PROVE  OpeningRow[a] \in AuditRow
    <3>1. OpeningRow[a] = [status |-> "NONE"]
      BY RowAssumption DEF OpeningRow, Row
    <3> QED
      BY <3>1 DEF AuditRow
  <2>5. ASSUME NEW k \in IdempotencyKey
        PROVE  OpeningRow[k] \in KeyRow
    <3>1. OpeningRow[k] = [used |-> FALSE]
      BY RowAssumption DEF OpeningRow, Row
    <3> QED
      BY <3>1 DEF KeyRow
  <2> QED
    BY <2>1, <2>2, <2>3, <2>4, <2>5 DEF RowOK
<1>2. DOMAIN OpeningRow = Row
  BY DEF OpeningRow
<1>3. DbTypeOK(OpeningRow)
  BY <1>1, <1>2 DEF DbTypeOK, RowOK, Row
<1>4. TypeOKDb
  BY <1>3 DEF InitDb, TypeOKDb, DbTypeOK
<1>5. \A p \in Product : Len(OpeningRow[p].ledger) \in Nat
  BY <1>3, LedgerType DEF DbTypeOK
<1>6. VersionsConsistent
  BY <1>1, <1>5, ContinuesReflexive DEF InitDb, VersionsConsistent, RowOK, Row
<1> QED
  BY <1>4, <1>6 DEF DbInv
-----------------------------------------------------------------------------
(* What the requests of a set S see of a step of any other request: the    *)
(* rows they hold stay as they are, and ledgers gain no entry of a sale.   *)

SameFor(r) ==
  \A x \in Product \cup Sale :
     /\ holder[x] = r <=> holder'[x] = r
     /\ holder[x] = r => committed'[x] = committed[x] /\ pending'[x] = pending[x]

Elsewhere(S) ==
  /\ \A q \in S : SameFor(q)
  /\ \A s \in Sale : committed'[s] = committed[s] /\ holder'[s] = holder[s]
  /\ \A p \in Product : holder'[p] \notin S =>
        /\ ContinuesAside(committed[p].ledger, committed'[p].ledger)
        /\ ContinuesAside(committed'[p].ledger, pending'[p].ledger)

(* Only requests of S write sales, and others enter no movement of a sale. *)
KeptAside(S) ==
  /\ \A s \in Sale : holder[s] \in S \cup {NoReq}
  /\ \A p \in Product : holder[p] \notin S =>
        ContinuesAside(committed[p].ledger, pending[p].ledger)

(* The rows a statement of such a request may write.                       *)
RowsAside(r, rows) ==
  \A x \in DOMAIN rows :
     /\ x \notin Sale
     /\ x \in Product => /\ rows[x].ledger \in Seq(StockMovement)
                          /\ ContinuesAside(Visible(r, x).ledger, rows[x].ledger)

LEMMA AsideReflexive == \A s : Len(s) \in Nat => ContinuesAside(s, s)
BY ContinuesReflexive DEF ContinuesAside

LEMMA AsideTransitive ==
  ASSUME NEW s \in Seq(StockMovement), NEW t \in Seq(StockMovement),
         NEW u \in Seq(StockMovement), ContinuesAside(s, t), ContinuesAside(t, u)
  PROVE  ContinuesAside(s, u)
<1>1. Continues(s, u)
  BY ContinuesTransitive DEF ContinuesAside
<1>2. ASSUME NEW i \in Len(s) + 1 .. Len(u)
      PROVE  u[i].sale = NoSale
  <2>1. CASE i <= Len(t)
    <3>1. i \in Len(s) + 1 .. Len(t) /\ i \in 1 .. Len(t)
      BY <2>1
    <3> QED
      BY <3>1 DEF ContinuesAside, Continues
  <2>2. CASE i > Len(t)
    BY <2>2 DEF ContinuesAside
  <2> QED
    BY <2>1, <2>2
<1> QED
  BY <1>1, <1>2 DEF ContinuesAside

(* A ledger with movements of no sale put behind it.                       *)
LEMMA AsideConcat ==
  ASSUME NEW s \in Seq(StockMovement), NEW batch \in Seq(StockMovement),
         \A i \in 1 .. Len(batch) : batch[i].sale = NoSale
  PROVE  s \o batch \in Seq(StockMovement) /\ ContinuesAside(s, s \o batch)
<1> DEFINE t == s \o batch
<1>1. /\ t \in Seq(StockMovement) /\ Len(t) = Len(s) + Len(batch)
      /\ \A i \in 1 .. Len(s) + Len(batch) :
            t[i] = IF i <= Len(s) THEN s[i] ELSE batch[i - Len(s)]
  BY ConcatProperties
<1> HIDE DEF t
<1>2. Continues(s, t)
  BY <1>1 DEF Continues
<1>3. ASSUME NEW i \in Len(s) + 1 .. Len(t)
      PROVE  t[i].sale = NoSale
  <2>1. ~ (i <= Len(s)) /\ i - Len(s) \in 1 .. Len(batch) /\ i \in 1 .. Len(s) + Len(batch)
    BY <1>1
  <2> QED
    BY <1>1, <2>1
<1> QED
  BY <1>1, <1>2, <1>3 DEF ContinuesAside, t

(* What one posting enters, and that nothing else of the ledger changes.   *)
LEMMA PostedLedger ==
  ASSUME NEW row \in ProductRow, NEW type \in SystemKey, NEW change \in Int,
         NEW u \in Unit \cup {NoUnit}, NEW loc \in Location \cup {NoLocation},
         NEW s \in Sale \cup {NoSale}, NEW item \in Nat
  PROVE  LET m == Movement(type, change, row.quantityOnHand + change, u, loc, s, item)
             new == Posted(row, type, change, u, loc, s, item)
         IN  /\ new.ledger = Append(row.ledger, m) /\ m \in StockMovement
             /\ new.quantityOnHand = row.quantityOnHand + change
             /\ new.isArchived = row.isArchived /\ new.card = row.card
<1> DEFINE m == Movement(type, change, row.quantityOnHand + change, u, loc, s, item)
           new == Posted(row, type, change, u, loc, s, item)
           moved == [row EXCEPT !.quantityOnHand = @ + change]
<1>1. new = [moved EXCEPT !.ledger = Append(row.ledger, m)]
  BY Zenon DEF Posted
<1>2. moved = [quantityOnHand |-> row.quantityOnHand + change,
               ledger |-> row.ledger, isArchived |-> row.isArchived, card |-> row.card]
  BY DEF ProductRow
<1>3. m \in StockMovement
  BY LedgerType DEF Movement, StockMovement
<1> HIDE DEF new, moved, m
<1> QED
  BY <1>1, <1>2, <1>3 DEF new, m

LEMMA PostedAside ==
  ASSUME NEW row \in ProductRow, NEW type \in SystemKey, NEW change \in Int,
         NEW u \in Unit \cup {NoUnit}, NEW loc \in Location \cup {NoLocation}, NEW item \in Nat
  PROVE  LET new == Posted(row, type, change, u, loc, NoSale, item)
         IN  new.ledger \in Seq(StockMovement) /\ ContinuesAside(row.ledger, new.ledger)
<1> DEFINE m == Movement(type, change, row.quantityOnHand + change, u, loc, NoSale, item)
           new == Posted(row, type, change, u, loc, NoSale, item)
<1>1. new.ledger = Append(row.ledger, m) /\ m \in StockMovement
  <2>1. NoSale \in Sale \cup {NoSale}
    OBVIOUS
  <2> QED
    BY <2>1, PostedLedger, ZenonT(30)
<1>2. row.ledger \in Seq(StockMovement) /\ m.sale = NoSale
  BY LedgerType DEF Movement
<1> HIDE DEF m, new
<1>3. Append(row.ledger, m) \in Seq(StockMovement)
      /\ ContinuesAside(row.ledger, Append(row.ledger, m))
  BY <1>1, <1>2 DEF ContinuesAside, Continues
<1> QED
  BY <1>1, <1>3 DEF new

LEMMA LedgersTyped ==
  ASSUME DbInv, NEW p \in Product, NEW r
  PROVE  /\ committed[p].ledger \in Seq(StockMovement) /\ Len(committed[p].ledger) \in Nat
         /\ pending[p].ledger \in Seq(StockMovement) /\ Len(pending[p].ledger) \in Nat
         /\ Visible(r, p).ledger \in Seq(StockMovement)
BY LedgerType DEF DbInv, TypeOKDb, DbTypeOK, Visible

(* A step is one statement, commit or rollback of one request.             *)
LEMMA OthersSeeNothing ==
  ASSUME NEW r, NEW q \in Req \ {r},
         \/ \E rows : Stage(r, rows)
         \/ Commit(r) \/ Rollback(r) \/ UNCHANGED dbVars
  PROVE  SameFor(q)
<1>1. CASE UNCHANGED dbVars
  BY <1>1 DEF SameFor, dbVars
<1>2. ASSUME NEW rows, Stage(r, rows)
      PROVE  SameFor(q)
  BY <1>2, RowAssumption DEF SameFor, Stage, Lockable, Row
<1>3. CASE Commit(r)
  BY <1>3, RowAssumption DEF SameFor, Commit, Released, Row
<1>4. CASE Rollback(r)
  BY <1>4, RowAssumption DEF SameFor, Rollback, Released, Row
<1> QED
  BY <1>1, <1>2, <1>3, <1>4

LEMMA UnchangedElsewhere ==
  ASSUME DbInv, NEW S, KeptAside(S), UNCHANGED dbVars
  PROVE  Elsewhere(S)
BY LedgersTyped, AsideReflexive DEF Elsewhere, SameFor, KeptAside, dbVars

LEMMA StageElsewhere ==
  ASSUME DbInv, NEW S \in SUBSET Req, KeptAside(S), NEW r \in Req \ S, NEW rows, Stage(r, rows),
         RowsAside(r, rows)
  PROVE  Elsewhere(S)
<1>1. \A q \in S : SameFor(q)
  BY OthersSeeNothing
<1>2. \A s \in Sale : committed'[s] = committed[s] /\ holder'[s] = holder[s]
  BY DEF Stage, RowsAside, Row
<1>3. ASSUME NEW p \in Product, holder'[p] \notin S
      PROVE  /\ ContinuesAside(committed[p].ledger, committed'[p].ledger)
             /\ ContinuesAside(committed'[p].ledger, pending'[p].ledger)
  <2>1. committed'[p] = committed[p] /\ holder[p] \notin S
    BY <1>3, RowAssumption DEF Stage, Lockable, Row
  <2>2. ContinuesAside(committed[p].ledger, pending[p].ledger)
    BY <2>1 DEF KeptAside
  <2>3. CASE p \in DOMAIN rows
    <3>1. pending'[p] = rows[p] /\ Visible(r, p) = pending[p]
      BY <2>3, VisibleIsPending DEF Stage, Row
    <3>2. ContinuesAside(pending[p].ledger, rows[p].ledger) /\ rows[p].ledger \in Seq(StockMovement)
      BY <2>3, <3>1 DEF RowsAside
    <3> QED
      BY <2>1, <2>2, <3>1, <3>2, LedgersTyped, AsideReflexive, AsideTransitive
  <2>4. CASE p \notin DOMAIN rows
    <3>1. pending'[p] = pending[p]
      BY <2>4 DEF Stage, Row
    <3> QED
      BY <2>1, <2>2, <3>1, LedgersTyped, AsideReflexive
  <2> QED
    BY <2>3, <2>4
<1> QED
  BY <1>1, <1>2, <1>3 DEF Elsewhere

LEMMA CommitElsewhere ==
  ASSUME DbInv, NEW S \in SUBSET Req, KeptAside(S), NEW r \in Req \ S, Commit(r)
  PROVE  Elsewhere(S)
<1>1. \A q \in S : SameFor(q)
  BY OthersSeeNothing
<1>2. \A s \in Sale : committed'[s] = committed[s] /\ holder'[s] = holder[s]
  BY RowAssumption DEF Commit, Released, KeptAside, Row
<1>3. ASSUME NEW p \in Product, holder'[p] \notin S
      PROVE  /\ ContinuesAside(committed[p].ledger, committed'[p].ledger)
             /\ ContinuesAside(committed'[p].ledger, pending'[p].ledger)
  <2>1. /\ holder[p] \notin S /\ pending'[p] = pending[p]
        /\ committed'[p] = IF holder[p] = r THEN pending[p] ELSE committed[p]
    BY <1>3 DEF Commit, Released, Row
  <2>2. ContinuesAside(committed[p].ledger, pending[p].ledger)
    BY <2>1 DEF KeptAside
  <2> QED
    BY <2>1, <2>2, LedgersTyped, AsideReflexive
<1> QED
  BY <1>1, <1>2, <1>3 DEF Elsewhere

LEMMA RollbackElsewhere ==
  ASSUME DbInv, NEW S \in SUBSET Req, KeptAside(S), NEW r \in Req \ S, Rollback(r)
  PROVE  Elsewhere(S)
<1>1. \A q \in S : SameFor(q)
  BY OthersSeeNothing
<1>2. \A s \in Sale : committed'[s] = committed[s] /\ holder'[s] = holder[s]
  BY RowAssumption DEF Rollback, Released, KeptAside, Row
<1>3. ASSUME NEW p \in Product, holder'[p] \notin S
      PROVE  /\ ContinuesAside(committed[p].ledger, committed'[p].ledger)
             /\ ContinuesAside(committed'[p].ledger, pending'[p].ledger)
  <2>1. /\ holder[p] \notin S /\ committed'[p] = committed[p]
        /\ pending'[p] = IF holder[p] = r THEN committed[p] ELSE pending[p]
    BY <1>3 DEF Rollback, Released, Row
  <2>2. ContinuesAside(committed[p].ledger, pending[p].ledger)
    BY <2>1 DEF KeptAside
  <2> QED
    BY <2>1, <2>2, LedgersTyped, AsideReflexive
<1> QED
  BY <1>1, <1>2, <1>3 DEF Elsewhere

(* A statement outside a transaction leaves ledgers alone.                 *)
LEMMA AutoCommitElsewhere ==
  ASSUME DbInv, NEW S \in SUBSET Req, KeptAside(S), NEW rows, AutoCommit(rows),
         \A x \in DOMAIN rows :
            x \notin Sale /\ (x \in Product => rows[x].ledger = committed[x].ledger)
  PROVE  Elsewhere(S)
<1>1. \A q \in S : SameFor(q)
  BY RowAssumption DEF SameFor, AutoCommit, Row
<1>2. \A s \in Sale : committed'[s] = committed[s] /\ holder'[s] = holder[s]
  BY DEF AutoCommit, Row
<1>3. ASSUME NEW p \in Product, holder'[p] \notin S
      PROVE  /\ ContinuesAside(committed[p].ledger, committed'[p].ledger)
             /\ ContinuesAside(committed'[p].ledger, pending'[p].ledger)
  <2>1. holder[p] \notin S /\ committed'[p].ledger = committed[p].ledger
    BY <1>3 DEF AutoCommit, Row
  <2>2. ContinuesAside(committed[p].ledger, pending[p].ledger)
    BY <2>1 DEF KeptAside
  <2>3. pending'[p].ledger \in {committed[p].ledger, pending[p].ledger}
    BY DEF AutoCommit, Row
  <2> QED
    BY <2>1, <2>2, <2>3, LedgersTyped, AsideReflexive
<1> QED
  BY <1>1, <1>2, <1>3 DEF Elsewhere

(* A product and units of it, with movements of no sale.                   *)
LEMMA StockElsewhere ==
  ASSUME DbInv, NEW S \in SUBSET Req, KeptAside(S), NEW r \in Req \ S, NEW p \in Product,
         NEW row, row.ledger \in Seq(StockMovement),
         ContinuesAside(Visible(r, p).ledger, row.ledger),
         NEW unitRows, UnitRowsOK(unitRows), Stage(r, WriteStock(p, row, unitRows))
  PROVE  Elsewhere(S)
<1> DEFINE rows == WriteStock(p, row, unitRows)
<1>1. \A x \in DOMAIN rows : x = p \/ (x \in Unit /\ x # p)
  BY RowAssumption DEF WriteStock, UnitRowsOK
<1>2. rows[p] = row
  BY DEF WriteStock
<1> HIDE DEF rows
<1>3. RowsAside(r, rows)
  BY <1>1, <1>2, RowAssumption DEF RowsAside
<1> QED
  BY <1>3, StageElsewhere DEF rows

(* One movement of no sale.                                                *)
LEMMA MovementElsewhere ==
  ASSUME DbInv, NEW S \in SUBSET Req, KeptAside(S), NEW r \in Req \ S, NEW p \in Product,
         NEW type \in SystemKey, NEW change \in Int, NEW u \in Unit \cup {NoUnit},
         NEW loc \in Location \cup {NoLocation}, NEW item \in Nat,
         NEW unitRows, UnitRowsOK(unitRows),
         Stage(r, WriteStock(p, Posted(Visible(r, p), type, change, u, loc, NoSale, item),
                             unitRows))
  PROVE  Elsewhere(S)
<1> DEFINE row == Posted(Visible(r, p), type, change, u, loc, NoSale, item)
<1>1. Visible(r, p) \in ProductRow
  BY VisibleOK DEF RowOK, Row
<1>2. row.ledger \in Seq(StockMovement) /\ ContinuesAside(Visible(r, p).ledger, row.ledger)
  BY <1>1, PostedAside
<1> HIDE DEF row
<1> QED
  BY <1>2, StockElsewhere DEF row

-----------------------------------------------------------------------------
(* A statement, commit or rollback of the request q that writes no row of  *)
(* A: what such a step leaves alone, whatever else the statement does.     *)
Sparing(q, A) ==
  \/ \E rows : (DOMAIN rows) \cap A = {} /\ (Stage(q, rows) \/ AutoCommit(rows))
  \/ Commit(q) \/ Rollback(q)
  \/ UNCHANGED dbVars

LEMMA StageSpares ==
  ASSUME NEW q, NEW A, NEW rows, (DOMAIN rows) \cap A = {}, Stage(q, rows) \/ AutoCommit(rows)
  PROVE  Sparing(q, A)
BY DEF Sparing

LEMMA WritesOneRow == \A x, value : DOMAIN Write(x, value) = {x}
BY DEF Write

(* What another request holds stays as it is and stays held.               *)
HeldStay(r) ==
  \A x \in Row :
     /\ holder[x] = r <=> holder'[x] = r
     /\ holder[x] = r => committed'[x] = committed[x] /\ pending'[x] = pending[x]

LEMMA SparingHeld ==
  ASSUME NEW q, NEW A, NEW r \in Req \ {q}, Sparing(q, A)
  PROVE  HeldStay(r)
<1>1. ASSUME NEW rows, Stage(q, rows)
      PROVE  HeldStay(r)
  BY <1>1, RowAssumption DEF HeldStay, Stage, Lockable
<1>2. ASSUME NEW rows, AutoCommit(rows)
      PROVE  HeldStay(r)
  BY <1>2, RowAssumption DEF HeldStay, AutoCommit
<1>3. CASE Commit(q)
  BY <1>3, RowAssumption DEF HeldStay, Commit, Released
<1>4. CASE Rollback(q)
  BY <1>4, RowAssumption DEF HeldStay, Rollback, Released
<1>5. CASE UNCHANGED dbVars
  BY <1>5 DEF HeldStay, dbVars
<1> QED
  BY <1>1, <1>2, <1>3, <1>4, <1>5 DEF Sparing

(* A row of A is changed by such a step only through the commit or the     *)
(* rollback of who held it.                                                *)
LEMMA SparingRows ==
  ASSUME NEW q, NEW A, NEW x \in Row \cap A, Sparing(q, A)
  PROVE  /\ holder'[x] \in {holder[x], NoReq}
         /\ holder[x] # q => /\ holder'[x] = holder[x]
                             /\ committed'[x] = committed[x] /\ pending'[x] = pending[x]
<1>1. ASSUME NEW rows, (DOMAIN rows) \cap A = {}, Stage(q, rows) \/ AutoCommit(rows)
      PROVE  /\ holder'[x] = holder[x]
             /\ committed'[x] = committed[x] /\ pending'[x] = pending[x]
  <2>1. x \notin DOMAIN rows
    BY <1>1
  <2> QED
    BY <1>1, <2>1 DEF Stage, AutoCommit
<1>2. CASE Commit(q)
  BY <1>2 DEF Commit, Released
<1>3. CASE Rollback(q)
  BY <1>3 DEF Rollback, Released
<1>4. CASE UNCHANGED dbVars
  BY <1>4 DEF dbVars
<1> QED
  BY <1>1, <1>2, <1>3, <1>4 DEF Sparing

(* The rows by which a handler claims its work.                            *)
Claims == Audit \cup IdempotencyKey

LEMMA StockNoClaim ==
  ASSUME NEW x \in Product \cup Unit \cup Sale
  PROVE  x \notin Claims
BY RowAssumption DEF Claims

LEMMA StockSpares ==
  ASSUME NEW q, NEW p \in Product, NEW row, NEW unitRows, DOMAIN unitRows \subseteq Unit,
         Stage(q, WriteStock(p, row, unitRows))
  PROVE  Sparing(q, Claims)
<1> DEFINE rows == WriteStock(p, row, unitRows)
<1>1. DOMAIN rows = {p} \cup DOMAIN unitRows
  BY DEF WriteStock
<1> HIDE DEF rows
<1>2. (DOMAIN rows) \cap Claims = {}
  BY <1>1, StockNoClaim
<1> QED
  BY <1>2, StageSpares DEF rows

LEMMA RowSpares ==
  ASSUME NEW q, NEW x, NEW value, NEW A, x \notin A,
         Stage(q, Write(x, value)) \/ AutoCommit(Write(x, value))
  PROVE  Sparing(q, A)
<1> DEFINE rows == Write(x, value)
<1>1. DOMAIN rows = {x}
  BY WritesOneRow
<1> HIDE DEF rows
<1> QED
  BY <1>1, StageSpares DEF rows
=============================================================================
