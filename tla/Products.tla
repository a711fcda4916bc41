------------------------------ MODULE Products ------------------------------
(***************************************************************************)
(* The product catalogue (products.service.ts): createProduct, which       *)
(* reactivates an archived product of its SKU, updateProduct and           *)
(* archiveProduct.  Each reads in transactions of their own and writes one *)
(* row later; the unique constraints are all that guards the write.  The   *)
(* two availability reads are one step: the second can only refuse, as the *)
(* write itself may, and a handler may fail at any point.                  *)
(***************************************************************************)
EXTENDS StockDb

CONSTANTS
  Archivals,          \* the requests that run archiveProduct
  ProductCreations,   \* the requests that run createProduct
  ProductUpdates,     \* the requests that run updateProduct
  ProductBodies,      \* the cards clients send; NoText, NoLocation: not in the body
  DrawnProduct        \* the id the database draws for each creation

VARIABLE catalog    \* the running handlers: [pc, product, body]

CatalogReq == Archivals \cup ProductCreations \cup ProductUpdates

(* CreateProductDTO, and UpdateProductDTO of all its fields.               *)
ProductBody == Card

ASSUME CatalogAssumption ==
  /\ CatalogReq \subseteq Req
  /\ Archivals \cap (ProductCreations \cup ProductUpdates) = {}
  /\ ProductCreations \cap ProductUpdates = {}
  /\ \A body \in ProductBodies : body \in ProductBody
  /\ DrawnProduct \in [ProductCreations -> Product]

CatalogWrite == [pc: {"write"}, product: Product, body: Card]

TypeOKCatalog ==
  /\ DOMAIN catalog = CatalogReq
  /\ \A r \in CatalogReq : catalog[r].pc = "write" => catalog[r] \in CatalogWrite

CatalogPc(pc) == [pc |-> pc]

InitCatalogLocals == catalog = [r \in CatalogReq |-> CatalogPc("idle")]

EndCatalog(r, outcome) == catalog' = [catalog EXCEPT ![r] = CatalogPc(outcome)]

WillWrite(r, p, body) ==
  catalog' = [catalog EXCEPT ![r] = [pc |-> "write", product |-> p, body |-> body]]

(* ensureSkuAvailable and ensureBarcodeAvailable, for a row the value may  *)
(* stay on.                                                                *)
ValuesFree(body, p) == ~ \E q \in Product \ {p} : Collides(body, committed[q].card)

-----------------------------------------------------------------------------
(* archiveProduct                                                          *)
ReadForArchive(r) ==
  /\ catalog[r].pc = "idle"
  /\ \E p \in Product :
        IF Live(committed[p]) THEN WillWrite(r, p, Unlisted) ELSE EndCatalog(r, "failed")
  /\ UNCHANGED dbVars

(* updateProduct                                                           *)
ReadForUpdate(r) ==
  /\ catalog[r].pc = "idle"
  /\ \E p \in Product, body \in ProductBodies :
        IF Live(committed[p]) /\ ValuesFree(body, p)
          THEN WillWrite(r, p, body) ELSE EndCatalog(r, "failed")
  /\ UNCHANGED dbVars

(* createProduct: the row that will hold the product is the archived one   *)
(* of the same SKU, or a new one.                                          *)
CreationTarget(r, body) ==
  LET owners == {p \in Product : committed[p].card.sku = body.sku}
  IN  IF owners = {} THEN DrawnProduct[r] ELSE CHOOSE p \in owners : TRUE

ReadForCreate(r) ==
  /\ catalog[r].pc = "idle"
  /\ \E body \in ProductBodies :
        LET p == CreationTarget(r, body)
        IN  IF body.sku # NoText /\ ~ Live(committed[p]) /\ ValuesFree(body, p)
              THEN WillWrite(r, p, body) ELSE EndCatalog(r, "failed")
  /\ UNCHANGED dbVars

-----------------------------------------------------------------------------
(* The card with the fields of the body in it.                             *)
Patched(card, body) ==
  [sku |-> IF body.sku = NoText THEN card.sku ELSE body.sku,
   barcode |-> IF body.barcode = NoText THEN card.barcode ELSE body.barcode,
   name |-> IF body.name = NoText THEN card.name ELSE body.name,
   loc |-> IF body.loc = NoLocation THEN card.loc ELSE body.loc]

ArchivedBy(r, row) ==
  IF r \in Archivals THEN TRUE ELSE IF r \in ProductCreations THEN FALSE ELSE row.isArchived

(* Mutant: a product that comes back starts from an empty balance.         *)
StartsEmpty(r, row, card) ==
  [row EXCEPT !.isArchived = ArchivedBy(r, row), !.card = card, !.quantityOnHand = 0]

(* The balance is never written here.                                      *)
Catalogued(r, row, card) == [row EXCEPT !.isArchived = ArchivedBy(r, row), !.card = card]

(* product.update or product.create                                        *)
WriteProduct(r) ==
  LET p == catalog[r].product
      card == Patched(committed[p].card, catalog[r].body)
  IN  /\ catalog[r].pc = "write"
      /\ CardRivals(r, p, card) = {}
      /\ IF CardTaken(r, p, card)
           THEN EndCatalog(r, "failed") /\ UNCHANGED dbVars
           ELSE AutoCommit(Write(p, Catalogued(r, committed[p], card))) /\ EndCatalog(r, "ok")

AbortCatalog(r) ==
  /\ catalog[r].pc = "write"
  /\ EndCatalog(r, "failed")
  /\ UNCHANGED dbVars

CatalogWants(r) ==
  IF r \in CatalogReq /\ catalog[r].pc = "write"
    THEN LET p == catalog[r].product
         IN  {p} \cup CardRivals(r, p, Patched(committed[p].card, catalog[r].body))
    ELSE {}

CatalogNext ==
  \/ \E r \in Archivals : ReadForArchive(r)
  \/ \E r \in ProductUpdates : ReadForUpdate(r)
  \/ \E r \in ProductCreations : ReadForCreate(r)
  \/ \E r \in CatalogReq : WriteProduct(r) \/ AbortCatalog(r)
=============================================================================
