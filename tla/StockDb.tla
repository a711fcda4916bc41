------------------------------- MODULE StockDb -------------------------------
(***************************************************************************)
(* The stock tables as the request handlers see them through Prisma: the   *)
(* products with their append-only movement ledger, the product units, the *)
(* sales and the inventory audits, under PostgreSQL's default isolation    *)
(* level, READ COMMITTED.                                                  *)
(*                                                                         *)
(* A row has a committed version, which every SELECT of another            *)
(* transaction returns, and a pending version, which the transaction that  *)
(* holds the row's lock has written.  An UPDATE waits for the row lock and *)
(* then works on the newest committed version, so a lock that is free can  *)
(* always be taken without looking back at what was read before.           *)
(*                                                                         *)
(* A movement is inserted only by a transaction that has just updated the  *)
(* movement's product, so the ledger is kept in the product's row.         *)
(***************************************************************************)
EXTENDS Integers, Sequences, FiniteSets

CONSTANTS
  Product,       \* product rows
  Serialized,    \* the products sold unit by unit (Product.isSerialized)
  Unit,          \* product unit rows, those not yet registered included
  ProductOf,     \* the product of each unit
  Location,      \* stock locations
  Sale,          \* sale rows, those not yet created included
  Audit,         \* inventory audit rows, those not yet created included
  IdempotencyKey, \* the keys receipts are committed under
  Text,          \* the SKUs, barcodes and folded names of products
  Req,           \* the requests in flight: one handler invocation each
  Opening,       \* quantityOnHand of each product when the behaviour starts
  OpeningCard,   \* the catalogue fields of each product row then
  OpeningUnit,   \* the unit rows then
  NoReq, NoLocation, NoUnit, NoSale, NoText    \* the null of each kind of value

VARIABLES
  committed,     \* committed version of every row
  pending,       \* the version written by the transaction that holds the row
  holder         \* the request whose transaction holds the row's lock

dbVars == <<committed, pending, holder>>

Row == Product \cup Unit \cup Sale \cup Audit \cup IdempotencyKey

-----------------------------------------------------------------------------
(* What each status means: product-unit-status.constants.ts.               *)

STOCK_COUNTED_STATUSES == {"IN_STOCK", "RESERVED", "RETURNED", "MISPLACED"}
LOCATION_CLEARED_STATUSES == {"SOLD", "LOST", "DISPOSED"}
SELLABLE_UNIT_STATUSES == {"IN_STOCK", "RESERVED", "RETURNED", "MISPLACED"}

ProductUnitStatus ==
  STOCK_COUNTED_STATUSES \cup LOCATION_CLEARED_STATUSES \cup {"DAMAGED", "MISSING"}

(* A unit row that registerProductUnits has not created yet.               *)
Unregistered == [status |-> "UNREGISTERED", loc |-> NoLocation]

-----------------------------------------------------------------------------
(* The types of the rows.                                                  *)

SystemKey == {"SALE", "RETURN", "ADJUSTMENT", "INITIAL", "PURCHASE", "MANUAL"}

StockMovement ==
  [type: SystemKey, quantityChange: Int, quantityAfter: Int,
   unit: Unit \cup {NoUnit}, loc: Location \cup {NoLocation},
   sale: Sale \cup {NoSale}, item: Nat]

(* Product.sku, barcode, name and locationId.                              *)
Card ==
  [sku: Text \cup {NoText}, barcode: Text \cup {NoText}, name: Text \cup {NoText},
   loc: Location \cup {NoLocation}]

(* The card of a product row that has not been created yet.                *)
Unlisted == [sku |-> NoText, barcode |-> NoText, name |-> NoText, loc |-> NoLocation]

ProductRow ==
  [quantityOnHand: Nat, ledger: Seq(StockMovement), isArchived: BOOLEAN, card: Card]
UnitRow == [status: ProductUnitStatus \cup {"UNREGISTERED"}, loc: Location \cup {NoLocation}]
SaleLine == [product: Product, unit: Unit \cup {NoUnit}, quantity: Nat \ {0}]
SaleRow == [status: {"NONE", "COMPLETED", "VOIDED"}, items: Seq(SaleLine)]
AuditRow == [status: {"NONE", "IN_PROGRESS", "COMPLETED", "CANCELLED"}]
KeyRow == [used: BOOLEAN]    \* a receipt_imports row: there or not there yet

ASSUME RowAssumption ==
  /\ Product \cap Unit = {} /\ Product \cap Sale = {} /\ Unit \cap Sale = {}
  /\ Audit \cap (Product \cup Unit \cup Sale) = {}
  /\ IdempotencyKey \cap (Product \cup Unit \cup Sale \cup Audit) = {}
  /\ NoReq \notin Req /\ NoUnit \notin Unit /\ NoSale \notin Sale
  /\ NoLocation \notin Location /\ NoText \notin Text

ASSUME OpeningAssumption ==
  /\ Serialized \subseteq Product
  /\ ProductOf \in [Unit -> Product]
  /\ Opening \in [Product -> Nat]
  /\ OpeningCard \in [Product -> Card]
  /\ OpeningUnit \in [Unit -> UnitRow]

DbTypeOK(version) ==
  /\ DOMAIN version = Row
  /\ \A p \in Product : version[p] \in ProductRow
  /\ \A u \in Unit : version[u] \in UnitRow
  /\ \A s \in Sale : version[s] \in SaleRow
  /\ \A a \in Audit : version[a] \in AuditRow
  /\ \A k \in IdempotencyKey : version[k] \in KeyRow

TypeOKDb ==
  /\ DbTypeOK(committed)
  /\ DbTypeOK(pending)
  /\ holder \in [Row -> Req \cup {NoReq}]

(* Movements recorded before the behaviour starts are folded into Opening. *)
OpeningRow ==
  [x \in Row |->
     IF x \in Product
       THEN [quantityOnHand |-> Opening[x], ledger |-> <<>>, isArchived |-> FALSE,
             card |-> OpeningCard[x]]
       ELSE IF x \in Unit THEN OpeningUnit[x]
       ELSE IF x \in Sale THEN [status |-> "NONE", items |-> <<>>]
       ELSE IF x \in Audit THEN [status |-> "NONE"]
       ELSE [used |-> FALSE]]

InitDb ==
  /\ committed = OpeningRow
  /\ pending = OpeningRow
  /\ holder = [x \in Row |-> NoReq]

-----------------------------------------------------------------------------
(* Statements.  `rows` maps the rows a statement writes to their new value.*)

(* One row.                                                                *)
Write(x, value) == [y \in {x} |-> value]

(* A product and the units written under its lock.                         *)
WriteStock(p, row, unitRows) ==
  [x \in {p} \cup DOMAIN unitRows |-> IF x = p THEN row ELSE unitRows[x]]

(* What a SELECT inside r's transaction returns.                           *)
Visible(r, x) == IF holder[x] = r THEN pending[x] ELSE committed[x]

(* No other transaction holds the row: an UPDATE of it does not wait.      *)
Lockable(r, x) == holder[x] \in {NoReq, r}

(* An UPDATE or INSERT inside r's open transaction.                        *)
Stage(r, rows) ==
  /\ \A x \in DOMAIN rows : Lockable(r, x)
  /\ pending' = [x \in Row |-> IF x \in DOMAIN rows THEN rows[x] ELSE pending[x]]
  /\ holder' = [x \in Row |-> IF x \in DOMAIN rows THEN r ELSE holder[x]]
  /\ UNCHANGED committed

(* A model call outside $transaction is a transaction of its own.          *)
AutoCommit(rows) ==
  /\ \A x \in DOMAIN rows : holder[x] = NoReq
  /\ committed' = [x \in Row |-> IF x \in DOMAIN rows THEN rows[x] ELSE committed[x]]
  /\ pending' = [x \in Row |-> IF x \in DOMAIN rows THEN rows[x] ELSE pending[x]]
  /\ UNCHANGED holder

(* Mutant: a commit that forgets to give its locks back.                   *)
HeldForever(r) == holder

(* Commit and rollback give every lock of the transaction back.            *)
Released(r) == [x \in Row |-> IF holder[x] = r THEN NoReq ELSE holder[x]]

(* $transaction's callback returns.                                        *)
Commit(r) ==
  /\ committed' = [x \in Row |-> IF holder[x] = r THEN pending[x] ELSE committed[x]]
  /\ holder' = Released(r)
  /\ UNCHANGED pending

(* Mutant: the handler's writes are not wrapped in one transaction.        *)
NoTransaction(r) == Commit(r)

(* $transaction's callback throws, times out or loses its connection.      *)
Rollback(r) ==
  /\ pending' = [x \in Row |-> IF holder[x] = r THEN committed[x] ELSE pending[x]]
  /\ holder' = Released(r)
  /\ UNCHANGED committed

(* The unique constraints on (organization, sku) and (organization, barcode):*)
(* an INSERT or UPDATE that gives p this card fails on another product with *)
(* its SKU or barcode, archived or not, and waits for a transaction that has*)
(* written such a product.                                                  *)
Collides(card, other) ==
  \/ card.sku # NoText /\ card.sku = other.sku
  \/ card.barcode # NoText /\ card.barcode = other.barcode

CardTaken(r, p, card) == \E q \in Product \ {p} : Collides(card, Visible(r, q).card)

CardRivals(r, p, card) ==
  {q \in Product \ {p} : /\ ~ Lockable(r, q)
                         /\ \/ Collides(card, committed[q].card)
                            \/ Collides(card, pending[q].card)}

(* The product is there for a handler that finds it by its id.             *)
Live(row) == row.card # Unlisted /\ ~ row.isArchived

-----------------------------------------------------------------------------
(* Stock arithmetic shared by the handlers.                                *)

Movement(type, change, after, u, loc, s, item) ==
  [type |-> type, quantityChange |-> change, quantityAfter |-> after,
   unit |-> u, loc |-> loc, sale |-> s, item |-> item]

(* product.update({ quantityOnHand: { increment } }) followed by           *)
(* stockMovement.create({ quantityAfter: updated.quantityOnHand }).        *)
Posted(row, type, change, u, loc, s, item) ==
  [row EXCEPT !.quantityOnHand = @ + change,
              !.ledger = Append(@, Movement(type, change, row.quantityOnHand + change,
                                            u, loc, s, item))]

(* Mutant: the balance of the product is not looked at.                    *)
NeverOversold(row) == FALSE

(* `updated.quantityOnHand < 0` makes the handler throw.                   *)
Oversold(row) == row.quantityOnHand < 0

-----------------------------------------------------------------------------
(* The ledger of a product, read from the first movement to the last.      *)

BalanceBefore(p, ledger, i) == IF i = 1 THEN Opening[p] ELSE ledger[i - 1].quantityAfter

(* Every movement starts from the balance the one before it left, and the  *)
(* product's quantityOnHand is what the last one left.                     *)
Balanced(p, row) ==
  /\ \A i \in 1 .. Len(row.ledger) :
        row.ledger[i].quantityAfter =
          BalanceBefore(p, row.ledger, i) + row.ledger[i].quantityChange
  /\ row.quantityOnHand = BalanceBefore(p, row.ledger, Len(row.ledger) + 1)

(* "quantityAfter is a snapshot for trustworthy counts" (schema.prisma):   *)
(* the committed ledger of each product is an unbroken chain of balances   *)
(* that ends in its quantityOnHand, whoever the concurrent writers were.   *)
LedgerBalanced == \A p \in Product : Balanced(p, committed[p])

(* Ledger t is ledger s with movements added at its end.                   *)
Continues(s, t) ==
  Len(s) <= Len(t) /\ \A i \in 1 .. Len(s) : t[i] = s[i]

(* The movements added belong to no sale.                                  *)
ContinuesAside(s, t) ==
  Continues(s, t) /\ \A i \in Len(s) + 1 .. Len(t) : t[i].sale = NoSale

(* What every transaction keeps true of the two versions of the rows.  A   *)
(* row nobody holds has no pending version of its own, both versions of a  *)
(* product are balanced, and the pending ledger continues the committed    *)
(* one.  With the types this is inductive; LedgerBalanced alone is not, as *)
(* a commit publishes whatever was pending.                                *)
VersionsConsistent ==
  /\ \A x \in Row : holder[x] = NoReq => pending[x] = committed[x]
  /\ \A p \in Product : /\ Balanced(p, committed[p])
                         /\ Balanced(p, pending[p])
                         /\ Continues(committed[p].ledger, pending[p].ledger)

(* The products a transaction has written, and where its movements are.    *)
Held(r) == {p \in Product : holder[p] = r}

NewEntries(old, new, p) == Len(old[p].ledger) + 1 .. Len(new[p].ledger)

CountedUnits(p) ==
  {u \in Unit : ProductOf[u] = p /\ committed[u].status \in STOCK_COUNTED_STATUSES}

(* Product.quantityOnHand of a serialized product is the number of its     *)
(* units whose status still counts (product-unit-status.constants.ts).     *)
QuantityCountsUnits ==
  \A p \in Serialized : committed[p].quantityOnHand = Cardinality(CountedUnits(p))

-----------------------------------------------------------------------------
(* A set of requests each of which waits for a row another one holds.      *)
(* want[r] is the set of rows r's next statement locks.                    *)
Waits(want, r, q) == q # r /\ \E x \in want[r] : holder[x] = q

Deadlocked(want, r) ==
  LET waiting == {q \in Req : \E x \in want[q] : holder[x] \notin {NoReq, q}}
  IN  \E D \in SUBSET waiting :
         /\ r \in D
         /\ \A a \in D : /\ \E b \in D : Waits(want, a, b)
                         /\ \E b \in D : Waits(want, b, a)
=============================================================================
