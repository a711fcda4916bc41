---------------------------- MODULE ReceiptImports ----------------------------
(***************************************************************************)
(* commitReceiptImport of receipt-imports.service.ts: a preview outside the*)
(* transaction, then one transaction that claims the idempotency key,      *)
(* matches the lines with products in three queries, finds or creates the  *)
(* supplier, and finds or creates and stocks in the product of each line.  *)
(* Names stand for themselves normalized and folded, which is how they are *)
(* compared.                                                               *)
(***************************************************************************)
EXTENDS StockDb

CONSTANTS
  Receipts,        \* the requests that run commitReceiptImport
  ReceiptOf,       \* [key, supplier, items, loc]: the body each one sends
  DrawnFor,        \* the ids the database draws for the products of the lines
  GeneratedSku,    \* what generateSku makes of each line
  SupplierName,
  OpeningSuppliers,    \* the suppliers there are when the behaviour starts
  NoKey, NoProduct

VARIABLES
  suppliers,    \* the committed suppliers: [name, by], by the receipt that made it
  receipt       \* local variables of the running handlers

receiptLocals == <<suppliers, receipt>>

ReceiptItem ==
  [sku: Text \cup {NoText}, barcode: Text \cup {NoText}, name: Text, quantity: Nat \ {0},
   clear: BOOLEAN,      \* every confidence is at least MIN_CONFIDENCE
   category: BOOLEAN]   \* the item or the defaults name a category
ReceiptBody ==
  [key: IdempotencyKey \cup {NoKey}, supplier: SupplierName, items: Seq(ReceiptItem),
   loc: Location \cup {NoLocation}]
Supplier == [name: SupplierName, by: Req \cup {NoReq}]

Items(r) == ReceiptOf[r].items

ASSUME ReceiptsAssumption ==
  /\ Receipts \subseteq Req
  /\ ReceiptOf \in [Receipts -> ReceiptBody]
  /\ OpeningSuppliers \subseteq Supplier
  /\ NoKey \notin IdempotencyKey /\ NoProduct \notin Product
  /\ \A r \in Receipts : \A i \in DOMAIN Items(r) :
        DrawnFor[r][i] \in Product /\ GeneratedSku[r][i] \in Text

(* ProductMatchMap: a Map from texts to products for each of the queries.  *)
MatchField == <<"barcode", "sku", "name">>
NoMatches == [field \in {"barcode", "sku", "name"} |-> [t \in {} |-> NoProduct]]

Resolved(matches) ==
  \A field \in {"barcode", "sku", "name"} :
     \A t \in DOMAIN matches[field] : matches[field][t] \in Product

ReceiptPc == {"idle", "reserve", "match", "supplier", "stock", "ok", "failed"}

TypeOKReceipts ==
  /\ suppliers \subseteq Supplier
  /\ DOMAIN receipt = Receipts
  /\ \A r \in Receipts :
        /\ DOMAIN receipt[r] = {"pc", "matches", "next", "supplier"}
        /\ receipt[r].pc \in ReceiptPc
        /\ receipt[r].next \in Nat \ {0}
        /\ receipt[r].pc = "stock" => receipt[r].supplier \in Supplier
        /\ Resolved(receipt[r].matches)

AtReceipt(pc) == [pc |-> pc, matches |-> NoMatches, next |-> 1, supplier |-> NoReq]

InitReceiptLocals ==
  /\ suppliers = OpeningSuppliers
  /\ receipt = [r \in Receipts |-> AtReceipt("idle")]

EndReceipt(r, outcome) == receipt' = [receipt EXCEPT ![r] = AtReceipt(outcome)]

-----------------------------------------------------------------------------
(* The live products a query on one of the three fields returns for t.     *)
Matching(r, field, t) ==
  {p \in Product : Live(Visible(r, p)) /\ Visible(r, p).card[field] = t}

(* The texts the items ask for, and the Map that is made of the answer: of *)
(* several products of one name the last one stays, in no certain order.   *)
Asked(r, field) == {Items(r)[i][field] : i \in DOMAIN Items(r)} \ {NoText}

MatchMaps(r, field) ==
  LET found == {t \in Asked(r, field) : Matching(r, field, t) # {}}
  IN  {map \in [found -> Product] : \A t \in found : map[t] \in Matching(r, field, t)}

(* findProductInMap                                                        *)
FindProductInMap(item, matches) ==
  IF item.barcode \in DOMAIN matches.barcode THEN matches.barcode[item.barcode]
  ELSE IF item.sku \in DOMAIN matches.sku THEN matches.sku[item.sku]
  ELSE IF item.name \in DOMAIN matches.name THEN matches.name[item.name]
  ELSE NoProduct

(* previewItem does not reject the item.                                   *)
Importable(r, item) ==
  /\ item.clear
  /\ item.category \/ \E field \in {"barcode", "sku", "name"} :
        item[field] # NoText /\ Matching(r, field, item[field]) # {}

PreviewReceiptImport(r) ==
  /\ receipt[r].pc = "idle"
  /\ IF \A i \in DOMAIN Items(r) : Importable(r, Items(r)[i])
       THEN receipt' = [receipt EXCEPT ![r].pc = "reserve"]
       ELSE EndReceipt(r, "failed")
  /\ UNCHANGED <<dbVars, suppliers>>

(* Mutant: the key is taken in a transaction of its own.                   *)
ClaimedAtOnce(r, key) == AutoCommit(Write(key, [used |-> TRUE]))

(* The key's row is inserted in the receipt's transaction.                 *)
Claimed(r, key) == Stage(r, Write(key, [used |-> TRUE]))

(* The insert waits for a transaction that has inserted the same key, and  *)
(* fails if that one has committed.                                        *)
ReserveIdempotencyKey(r) ==
  LET key == ReceiptOf[r].key
      goOn == receipt' = [receipt EXCEPT ![r].pc = "match"]
  IN  /\ receipt[r].pc = "reserve"
      /\ \/ key = NoKey /\ goOn /\ UNCHANGED dbVars
         \/ /\ key # NoKey /\ Lockable(r, key)
            /\ IF committed[key].used
                 THEN EndReceipt(r, "failed") /\ UNCHANGED dbVars
                 ELSE Claimed(r, key) /\ goOn
      /\ UNCHANGED suppliers

(* buildProductMatchMap, one query after the other.                        *)
BuildProductMatchMap(r) ==
  LET field == MatchField[receipt[r].next]
  IN  /\ receipt[r].pc = "match"
      /\ \E map \in MatchMaps(r, field) :
            receipt' = [receipt EXCEPT
               ![r].matches[field] = map,
               ![r].pc = IF field = "name" THEN "supplier" ELSE "match",
               ![r].next = IF field = "name" THEN 1 ELSE @ + 1]
      /\ UNCHANGED <<dbVars, suppliers>>

(* No constraint makes the names of suppliers unique.                      *)
FindOrCreateSupplier(r) ==
  LET name == ReceiptOf[r].supplier
      existing == {s \in suppliers : s.name = name}
  IN  /\ receipt[r].pc = "supplier"
      /\ \E s \in IF existing = {} THEN {[name |-> name, by |-> r]} ELSE existing :
            receipt' = [receipt EXCEPT ![r].pc = "stock", ![r].supplier = s]
      /\ UNCHANGED <<dbVars, suppliers>>

-----------------------------------------------------------------------------
(* The lines                                                               *)

With(map, t, p) == [x \in DOMAIN map \cup {t} |-> IF x = t THEN p ELSE map[x]]

(* Mutant: a product that was just created is not found by later lines.    *)
NotIndexed(matches, p, card) == matches

(* indexProduct                                                            *)
Indexed(matches, p, card) ==
  [barcode |-> IF card.barcode = NoText THEN matches.barcode
               ELSE With(matches.barcode, card.barcode, p),
   sku |-> With(matches.sku, card.sku, p),
   name |-> With(matches.name, card.name, p)]

(* The card of the product a line creates.                                 *)
NewCard(r, i) ==
  LET item == Items(r)[i]
  IN  [sku |-> IF item.sku = NoText THEN GeneratedSku[r][i] ELSE item.sku,
       barcode |-> item.barcode, name |-> item.name, loc |-> ReceiptOf[r].loc]

(* The product's row after the line.                                       *)
StockedRow(r, row, quantity) ==
  LET loc == ReceiptOf[r].loc
      placed == [row EXCEPT !.card.loc = IF loc = NoLocation THEN @ ELSE loc]
  IN  Posted(placed, "PURCHASE", quantity, NoUnit, loc, NoSale, 0)

StockMatched(r, i, p) ==
  /\ Stage(r, Write(p, StockedRow(r, Visible(r, p), Items(r)[i].quantity)))
  /\ receipt' = [receipt EXCEPT ![r].next = @ + 1]

StockCreated(r, i) ==
  LET p == DrawnFor[r][i]
      card == NewCard(r, i)
      created == [Visible(r, p) EXCEPT !.card = card, !.isArchived = FALSE]
  IN  /\ CardRivals(r, p, card) = {}
      /\ IF CardTaken(r, p, card) \/ ~ Items(r)[i].category
           THEN Rollback(r) /\ EndReceipt(r, "failed")
           ELSE /\ Stage(r, Write(p, StockedRow(r, created, Items(r)[i].quantity)))
                /\ receipt' = [receipt EXCEPT ![r].next = @ + 1,
                                              ![r].matches = Indexed(@, p, card)]

(* findOrCreateProduct, product.update and stockMovement.create            *)
StockReceiptLine(r) ==
  LET i == receipt[r].next
      p == FindProductInMap(Items(r)[i], receipt[r].matches)
  IN  /\ receipt[r].pc = "stock" /\ i <= Len(Items(r))
      /\ IF p = NoProduct THEN StockCreated(r, i) ELSE StockMatched(r, i, p)
      /\ UNCHANGED suppliers

CommitReceipt(r) ==
  /\ receipt[r].pc = "stock" /\ receipt[r].next > Len(Items(r))
  /\ Commit(r) /\ EndReceipt(r, "ok")
  /\ suppliers' = suppliers \cup {receipt[r].supplier}

AbortReceipt(r) ==
  /\ receipt[r].pc \in {"reserve", "match", "supplier", "stock"}
  /\ Rollback(r) /\ EndReceipt(r, "failed")
  /\ UNCHANGED suppliers

-----------------------------------------------------------------------------
ReceiptsWant(r) ==
  IF r \notin Receipts THEN {}
  ELSE IF receipt[r].pc = "reserve" THEN {ReceiptOf[r].key} \ {NoKey}
  ELSE IF receipt[r].pc = "stock" /\ receipt[r].next <= Len(Items(r))
    THEN LET i == receipt[r].next
             p == FindProductInMap(Items(r)[i], receipt[r].matches)
         IN  IF p # NoProduct THEN {p} ELSE CardRivals(r, DrawnFor[r][i], NewCard(r, i))
  ELSE {}

ReceiptStep(r) ==
  \/ ReserveIdempotencyKey(r) \/ BuildProductMatchMap(r) \/ FindOrCreateSupplier(r)
  \/ StockReceiptLine(r) \/ CommitReceipt(r)

ReceiptsNext ==
  \E r \in Receipts : PreviewReceiptImport(r) \/ ReceiptStep(r) \/ AbortReceipt(r)

-----------------------------------------------------------------------------
(* What a receipt enters: a registration may be of type PURCHASE too, but  *)
(* each of its movements names a unit.                                     *)
IsPurchase(m) == m.type = "PURCHASE" /\ m.unit = NoUnit

(* The purchases, as pairs of a product and a place in its ledger.         *)
Purchases(version) ==
  UNION {{p} \X {i \in DOMAIN version[p].ledger : IsPurchase(version[p].ledger[i])} :
           p \in Product}

Imported == {r \in Receipts : receipt[r].pc = "ok"}

(* The lines of these receipts, as pairs likewise.                         *)
LinesOf(receipts) == UNION {{r} \X DOMAIN Items(r) : r \in receipts}

(* f gives each of these lines a movement of its own at one of the places, *)
(* of its quantity and into its receipt's location, and leaves no place out.*)
Books(f, lines, places, version) ==
  /\ \A a, b \in lines : f[a] = f[b] => a = b
  /\ \A e \in places : \E a \in lines : f[a] = e
  /\ \A a \in lines :
        LET m == version[f[a][1]].ledger[f[a][2]]
        IN  /\ IsPurchase(m)
            /\ m.quantityChange = Items(a[1])[a[2]].quantity /\ m.loc = ReceiptOf[a[1]].loc

Booked(lines, places, version) == \E f \in [lines -> places] : Books(f, lines, places, version)

(* A receipt is stocked in once or not at all, however often and from      *)
(* however many places it is sent: the committed purchases are, one for    *)
(* one, the lines of the receipts that were answered with success.         *)
ReceiptsBooked == Booked(LinesOf(Imported), Purchases(committed), committed)

(* The inductive invariant behind it: what a receipt's transaction has     *)
(* entered so far are the lines before its next one, and nobody else enters*)
(* a purchase.                                                             *)
ContinuesUnbought(s, t) ==
  Continues(s, t) /\ \A i \in Len(s) + 1 .. Len(t) : ~ IsPurchase(t[i])

StockedLines(r) == {r} \X (1 .. receipt[r].next - 1)

NewPlaces(old, new, held) == UNION {{p} \X NewEntries(old, new, p) : p \in held}

ReceiptConsistent(r) ==
  /\ receipt[r].pc = "supplier" => receipt[r].next = 1
  /\ IF receipt[r].pc = "stock"
       THEN /\ receipt[r].next <= Len(Items(r)) + 1
            /\ Booked(StockedLines(r), NewPlaces(committed, pending, Held(r)), pending)
       ELSE Held(r) = {}

ReceiptsConsistent ==
  /\ ReceiptsBooked
  /\ \A r \in Receipts : ReceiptConsistent(r)
  /\ \A p \in Product : holder[p] \notin Receipts =>
        ContinuesUnbought(committed[p].ledger, pending[p].ledger)

(* Of the receipts with one idempotency key at most one is answered with   *)
(* success, and a key is taken exactly when its receipt is in: neither an  *)
(* overlap nor a receipt that failed after it had claimed the key spends   *)
(* the key (reserveIdempotencyKey, in the receipt's own transaction).      *)
KeysTakenOnce ==
  /\ \A q, r \in Imported : ReceiptOf[q].key = ReceiptOf[r].key => q = r \/ ReceiptOf[r].key = NoKey
  /\ \A key \in IdempotencyKey :
        committed[key].used <=> \E r \in Imported : ReceiptOf[r].key = key

(* The inductive invariant behind it: the key a receipt names is its own   *)
(* from the claim to the end of its transaction, free before and taken     *)
(* after, and it holds no other.                                           *)
Claimant(r) == receipt[r].pc \in {"match", "supplier", "stock"}

KeysConsistent ==
  /\ KeysTakenOnce
  /\ \A key \in IdempotencyKey : holder[key] # NoReq =>
        \E r \in Receipts : holder[key] = r /\ ReceiptOf[r].key = key /\ Claimant(r)
  /\ \A r \in Receipts :
        LET key == ReceiptOf[r].key
        IN  Claimant(r) /\ key # NoKey =>
              holder[key] = r /\ pending[key].used /\ ~ committed[key].used

(* The products the transaction of r has created so far (a product that is *)
(* not there has no name).                                                 *)
Created(r) ==
  {p \in Product : holder[p] = r /\ committed[p].card.name = NoText
                                /\ pending[p].card.name # NoText}

(* "Fold the new product into the match map so a later line with the same  *)
(* name/sku/barcode resolves to it instead of creating a duplicate": the   *)
(* products one receipt creates have different names.                      *)
LinesShareProduct ==
  \A r \in Receipts : receipt[r].pc = "stock" =>
     \A p, q \in Created(r) : pending[p].card.name = pending[q].card.name => p = q

(* The inductive invariant behind it: the map finds by its name whatever   *)
(* the transaction has created.                                            *)
CreatedIndexed ==
  \A r \in Receipts : receipt[r].pc = "stock" =>
     \A p \in Created(r) : pending[p].card.name \in DOMAIN receipt[r].matches.name
=============================================================================
