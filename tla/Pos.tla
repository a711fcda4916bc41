--------------------------------- MODULE Pos ---------------------------------
(***************************************************************************)
(* The point of sale (pos.service.ts): checkout and voidSale.  Each is one *)
(* interactive transaction; a step of the model is a statement another     *)
(* transaction can notice: a read of committed rows, the update that takes *)
(* a product's lock together with the writes it covers, or the commit.     *)
(* A unit is written in a transaction only under its product's lock, so    *)
(* the product update and the unit update of one line are one step.        *)
(***************************************************************************)
EXTENDS StockDb

CONSTANTS
  Checkouts,     \* the requests that run checkout
  Voids,         \* the requests that run voidSale
  Payloads,      \* the checkout bodies clients send
  SaleOf,        \* the id randomUUID gives the sale of each checkout
  VoidTarget,    \* the sale each void request names
  Price          \* Product.sellingPrice

VARIABLES checkout, void    \* local variables of the running handlers

posLocals == <<checkout, void>>
posVars == <<committed, pending, holder, checkout, void>>

Cart == INSTANCE CartLines WITH NoUnitRef <- NoUnit

ASSUME PosAssumption ==
  /\ Checkouts \subseteq Req /\ Voids \subseteq Req /\ Checkouts \cap Voids = {}
  /\ SaleOf \in [Checkouts -> Sale]
  /\ \A a, b \in Checkouts : SaleOf[a] = SaleOf[b] => a = b
  /\ VoidTarget \in [Voids -> Sale]

OneOfEachUnit(lines) ==
  \A i \in 1 .. Len(lines) : lines[i].unit # NoUnit => lines[i].quantity = 1

(* CheckoutPosDTO: quantities from 1 up.                                   *)
CheckoutBody == [items: Seq(SaleLine), tendered: Nat]

ASSUME PayloadAssumption == Payloads \subseteq CheckoutBody

Finished == {"ok", "failed"}

CheckoutState ==
  [pc: {"idle", "prepare", "sell"} \cup Finished, lines: Seq(SaleLine), tendered: Int,
   next: Nat \ {0}, loc: Seq(Location \cup {NoLocation})]
VoidState ==
  [pc: {"idle", "restore", "commit"} \cup Finished, lines: Seq(SaleLine),
   next: Nat \ {0}, loc: Seq(Location \cup {NoLocation})]

TypeOKPos == checkout \in [Checkouts -> CheckoutState] /\ void \in [Voids -> VoidState]

IdleCheckout == [pc |-> "idle", lines |-> <<>>, tendered |-> 0, next |-> 1, loc |-> <<>>]
IdleVoid == [pc |-> "idle", lines |-> <<>>, next |-> 1, loc |-> <<>>]

InitPosLocals ==
  /\ checkout = [r \in Checkouts |-> IdleCheckout]
  /\ void = [r \in Voids |-> IdleVoid]

EndCheckout(r, outcome) ==
  checkout' = [checkout EXCEPT ![r] = [IdleCheckout EXCEPT !.pc = outcome]]
EndVoid(r, outcome) == void' = [void EXCEPT ![r] = [IdleVoid EXCEPT !.pc = outcome]]

-----------------------------------------------------------------------------
(* checkout                                                                *)

BeginCheckout(r) ==
  /\ checkout[r].pc = "idle"
  /\ \E body \in Payloads :
        IF Cart!Refuses(body.items)
          THEN EndCheckout(r, "failed")
          ELSE checkout' = [checkout EXCEPT
                  ![r] = [pc |-> "prepare", lines |-> Cart!Normalized(body.items),
                          tendered |-> body.tendered, next |-> 1, loc |-> <<>>]]
  /\ UNCHANGED <<dbVars, void>>

(* prepareProductSaleLine and prepareSerializedSaleLine find what the line *)
(* sells, on the version r's transaction sees.                             *)
Available(r, line) ==
  /\ Live(Visible(r, line.product))
  /\ IF line.unit = NoUnit
       THEN line.product \notin Serialized
       ELSE /\ line.product \in Serialized
            /\ ProductOf[line.unit] = line.product
            /\ Visible(r, line.unit).status \in SELLABLE_UNIT_STATUSES

LineLocation(r, line) ==
  IF line.unit = NoUnit THEN Visible(r, line.product).card.loc ELSE Visible(r, line.unit).loc

PrepareSaleLine(r) ==
  LET c == checkout[r]
      line == c.lines[c.next]
  IN  /\ c.pc = "prepare" /\ c.next <= Len(c.lines)
      /\ IF Available(r, line)
           THEN checkout' = [checkout EXCEPT
                   ![r] = [c EXCEPT !.next = @ + 1, !.loc = Append(@, LineLocation(r, line))]]
           ELSE EndCheckout(r, "failed")
      /\ UNCHANGED <<dbVars, void>>

(* calculateTotals, then sale.create: the sale is COMPLETED from the start,*)
(* and nobody sees it before the commit.                                   *)
CreateSale(r) ==
  LET c == checkout[r]
  IN  /\ c.pc = "prepare" /\ c.next > Len(c.lines)
      /\ IF c.tendered < Cart!Subtotal(c.lines, Price)
           THEN EndCheckout(r, "failed") /\ UNCHANGED dbVars
           ELSE /\ Stage(r, Write(SaleOf[r], [status |-> "COMPLETED", items |-> c.lines]))
                /\ checkout' = [checkout EXCEPT ![r] = [c EXCEPT !.pc = "sell", !.next = 1]]
      /\ UNCHANGED void

(* Mutant: quantityAfter is taken from the product read before the sale.   *)
SoldRowFromCommitted(r, line, loc, item) ==
  [Posted(committed[line.product], "SALE", -line.quantity, line.unit, loc, SaleOf[r], item)
     EXCEPT !.quantityOnHand = Visible(r, line.product).quantityOnHand - line.quantity]

(* Mutant: the product of a unit line is not decremented.                  *)
UnitLineKeepsQuantity(r, line, loc, item) ==
  Posted(Visible(r, line.product), "SALE",
         IF line.unit = NoUnit THEN -line.quantity ELSE 0, line.unit, loc, SaleOf[r], item)

(* The product's row after the line: decremented, with a SALE movement at  *)
(* the location prepareSaleLines captured.                                 *)
SoldRow(r, line, loc, item) ==
  Posted(Visible(r, line.product), "SALE", -line.quantity, line.unit, loc, SaleOf[r], item)

(* Mutant: the unit is marked SOLD whatever became of it.                  *)
UnitNotChecked(r, u) == TRUE

(* The compare-and-set of completeSerializedSale.                          *)
UnitStillSellable(r, u) == Visible(r, u).status \in SELLABLE_UNIT_STATUSES

(* createSaleItemAndMovement: completeProductSale or completeSerializedSale*)
(* for the next line.                                                      *)
SellLine(r) ==
  LET c == checkout[r]
      line == c.lines[c.next]
      row == SoldRow(r, line, c.loc[c.next], c.next)
      sold == [status |-> "SOLD", loc |-> NoLocation]
  IN  /\ c.pc = "sell" /\ c.next <= Len(c.lines)
      /\ Lockable(r, line.product)
      /\ line.unit # NoUnit => Lockable(r, line.unit)
      /\ IF Oversold(row) \/ (line.unit # NoUnit /\ ~ UnitStillSellable(r, line.unit))
           THEN Rollback(r) /\ EndCheckout(r, "failed")
           ELSE /\ Stage(r, WriteStock(line.product, row,
                                       [u \in {line.unit} \ {NoUnit} |-> sold]))
                /\ checkout' = [checkout EXCEPT ![r].next = @ + 1]
      /\ UNCHANGED void

CommitCheckout(r) ==
  /\ checkout[r].pc = "sell" /\ checkout[r].next > Len(checkout[r].lines)
  /\ Commit(r) /\ EndCheckout(r, "ok")
  /\ UNCHANGED void

(* The transaction times out, loses its connection, is the victim of the   *)
(* deadlock detector, or a statement fails for a reason not modelled.      *)
AbortCheckout(r) ==
  /\ checkout[r].pc \in {"prepare", "sell"}
  /\ Rollback(r) /\ EndCheckout(r, "failed")
  /\ UNCHANGED void

-----------------------------------------------------------------------------
(* voidSale                                                                *)

(* Mutant: the original movement is not looked up.                         *)
AlwaysHome(s, line, item) == committed[line.product].card.loc

(* The location of the item's SALE movement, or the product's own.         *)
RestoreLocation(s, line, item) ==
  LET ledger == committed[line.product].ledger
      original == {i \in DOMAIN ledger : /\ ledger[i].type = "SALE"
                                         /\ ledger[i].sale = s /\ ledger[i].item = item
                                         /\ ledger[i].loc # NoLocation}
  IN  IF original = {} THEN committed[line.product].card.loc
      ELSE ledger[CHOOSE i \in original : TRUE].loc

(* findSaleOrThrow and the check of the status it returned.                *)
Voidable(s) == committed[s].status = "COMPLETED"

ReadSale(r) ==
  LET s == VoidTarget[r]
      lines == committed[s].items
  IN  /\ void[r].pc = "idle"
      /\ IF Voidable(s)
           THEN void' = [void EXCEPT
                   ![r] = [pc |-> "restore", lines |-> lines, next |-> 1,
                           loc |-> [i \in 1 .. Len(lines) |-> RestoreLocation(s, lines[i], i)]]]
           ELSE EndVoid(r, "failed")
      /\ UNCHANGED <<dbVars, checkout>>

(* The product's row after the return of a line, with its RETURN movement. *)
RestoredRow(r, line, loc, item) ==
  Posted(Visible(r, line.product), "RETURN", line.quantity, line.unit, loc,
         VoidTarget[r], item)

(* restoreSerializedItem, whose unit update has no condition on the status,*)
(* or restoreProductQuantity.                                              *)
RestoreLine(r) ==
  LET v == void[r]
      line == v.lines[v.next]
      loc == v.loc[v.next]
      row == RestoredRow(r, line, loc, v.next)
      returned == [status |-> "RETURNED", loc |-> loc]
  IN  /\ v.pc = "restore" /\ v.next <= Len(v.lines)
      /\ Stage(r, WriteStock(line.product, row, [u \in {line.unit} \ {NoUnit} |-> returned]))
      /\ void' = [void EXCEPT ![r].next = @ + 1]
      /\ UNCHANGED checkout

(* sale.update: the row is found by its id alone.                          *)
MarkVoided(r) ==
  LET s == VoidTarget[r]
  IN  /\ void[r].pc = "restore" /\ void[r].next > Len(void[r].lines)
      /\ Stage(r, Write(s, [Visible(r, s) EXCEPT !.status = "VOIDED"]))
      /\ void' = [void EXCEPT ![r].pc = "commit"]
      /\ UNCHANGED checkout

CommitVoid(r) ==
  /\ void[r].pc = "commit"
  /\ Commit(r) /\ EndVoid(r, "ok")
  /\ UNCHANGED checkout

AbortVoid(r) ==
  /\ void[r].pc \in {"restore", "commit"}
  /\ Rollback(r) /\ EndVoid(r, "failed")
  /\ UNCHANGED checkout

-----------------------------------------------------------------------------
(* searchItems and getProductUnits: what the tills are shown.  The text    *)
(* that is matched, the order and the page size are left out: these are    *)
(* the products and units that some search finds.                          *)

FoundProducts == {p \in Product : Live(committed[p])}

FoundUnits == {u \in Unit : Live(committed[ProductOf[u]])}

(* isSellable of a product in the answer (toProductSearchItem).            *)
ProductIsSellable(p) == p \notin Serialized /\ committed[p].quantityOnHand > 0

(* Mutant: only a unit that was never sold is shown as sellable.           *)
NeverSold(u) == committed[u].status = "IN_STOCK"

(* isSellable of a unit in the answer (toProductUnitSearchItem), which is  *)
(* also the filter sellableOnly of getProductUnits.                        *)
UnitIsSellable(u) == committed[u].status \in SELLABLE_UNIT_STATUSES

-----------------------------------------------------------------------------
(* The rows whose lock the next statement of each request takes.           *)
PosWants(r) ==
  IF r \in Checkouts /\ checkout[r].pc = "sell" /\ checkout[r].next <= Len(checkout[r].lines)
    THEN {checkout[r].lines[checkout[r].next].product}
  ELSE IF r \in Voids /\ void[r].pc = "restore"
    THEN IF void[r].next <= Len(void[r].lines)
           THEN {void[r].lines[void[r].next].product} ELSE {VoidTarget[r]}
  ELSE {}

CheckoutStep(r) == PrepareSaleLine(r) \/ CreateSale(r) \/ SellLine(r) \/ CommitCheckout(r)

VoidStep(r) == RestoreLine(r) \/ MarkVoided(r) \/ CommitVoid(r)

PosNext ==
  \/ \E r \in Checkouts : BeginCheckout(r) \/ CheckoutStep(r) \/ AbortCheckout(r)
  \/ \E r \in Voids : ReadSale(r) \/ VoidStep(r) \/ AbortVoid(r)

(* Every request has been answered.                                        *)
PosDone ==
  /\ \A r \in Checkouts : checkout[r].pc \in Finished
  /\ \A r \in Voids : void[r].pc \in Finished
  /\ UNCHANGED posVars

InitPos == InitDb /\ InitPosLocals

PosSpec == InitPos /\ [][PosNext \/ PosDone]_posVars

-----------------------------------------------------------------------------
(* Type correctness of the tables and of the handlers' local variables; in *)
(* particular no committed or pending balance is ever negative, which is   *)
(* what the checks of quantityOnHand < 0 in completeProductSale and        *)
(* completeSerializedSale are for.                                         *)
TypeOK == TypeOKDb /\ TypeOKPos

(* A handler has a location for every line it is about to write.           *)
PosLocalsConsistent ==
  /\ \A r \in Checkouts :
        LET c == checkout[r]
        IN  /\ c.pc = "prepare" => Len(c.loc) = c.next - 1
            /\ c.pc = "sell" => Len(c.loc) >= Len(c.lines)
  /\ \A r \in Voids : void[r].pc = "restore" => Len(void[r].loc) = Len(void[r].lines)

(* No unit is on two sales that stand: two tills that scan the same unit,  *)
(* both having read it as sellable, cannot both complete, and a unit that  *)
(* comes back through a void can be sold again (completeSerializedSale).   *)
UnitSoldOnce ==
  \A s, t \in Sale :
     s # t /\ committed[s].status = "COMPLETED" /\ committed[t].status = "COMPLETED"
       => \A i \in DOMAIN committed[s].items, j \in DOMAIN committed[t].items :
             committed[s].items[i].unit # NoUnit
               => committed[s].items[i].unit # committed[t].items[j].unit

Entries(ledger, type, s, item) ==
  {i \in DOMAIN ledger : ledger[i].type = type /\ ledger[i].sale = s /\ ledger[i].item = item}

(* A sale and its movements are committed together or not at all: a sale   *)
(* that exists has exactly one SALE movement of the right size for each of *)
(* its items, a RETURN movement for an item exists exactly when the sale is*)
(* VOIDED, and a sale that was rolled back left no movement behind         *)
(* (checkout and voidSale as single transactions).                         *)
SaleEntered(version, s) ==
  LET items == version[s].items
  IN  /\ \A i \in DOMAIN items :
           LET ledger == version[items[i].product].ledger
           IN  /\ Cardinality(Entries(ledger, "SALE", s, i)) = 1
               /\ \A e \in Entries(ledger, "SALE", s, i) :
                    /\ ledger[e].quantityChange = -items[i].quantity
                    /\ ledger[e].unit = items[i].unit
               /\ Entries(ledger, "RETURN", s, i) # {} <=> version[s].status = "VOIDED"
      /\ \A p \in Product : \A e \in DOMAIN version[p].ledger :
           LET m == version[p].ledger[e]
           IN  m.sale = s => m.item \in DOMAIN items /\ items[m.item].product = p

SaleBooked == \A s \in Sale : SaleEntered(committed, s)

(* What a sale takes comes back exactly once: at most one RETURN movement  *)
(* for an item of a sale.  voidSale refuses a sale that is VOIDED with     *)
(* 'Sale has already been voided'.                                         *)
VoidedOnce ==
  \A s \in Sale : \A i \in DOMAIN committed[s].items :
     LET p == committed[s].items[i].product
     IN  Cardinality(Entries(committed[p].ledger, "RETURN", s, i)) <= 1

(* What a till is shown is what it can sell: an item marked sellable by    *)
(* searchItems or getProductUnits passes every check of a checkout of one  *)
(* of it that meets no competitor (the product not archived, scanned as a  *)
(* unit exactly when it is serialized, the stock sufficient), and an item  *)
(* that is not found or not marked fails one.  The two are written twice   *)
(* in pos.service.ts and a unit's answer never looks at the quantity.      *)
OffersMatchTill ==
  \A r \in Checkouts :
     LET sells(p, u) ==
           LET line == [product |-> p, unit |-> u, quantity |-> 1]
           IN  Available(r, line) /\ ~ Oversold(SoldRow(r, line, LineLocation(r, line), 1))
     IN  checkout[r].pc = "idle" =>
           /\ \A p \in Product : p \in FoundProducts /\ ProductIsSellable(p) <=> sells(p, NoUnit)
           /\ \A u \in Unit : u \in FoundUnits /\ UnitIsSellable(u) <=> sells(ProductOf[u], u)

(* A returned item goes back to the place its SALE movement names: voidSale*)
(* looks the original movement up, however much happened in between.  (A   *)
(* change of a unit's status by hand enters SALE and RETURN movements that *)
(* belong to no sale.)                                                     *)
ReturnsWhereSold(ledger) ==
  \A i, j \in DOMAIN ledger :
     LET sold == ledger[i]
         back == ledger[j]
         sameItem == sold.sale # NoSale /\ sold.sale = back.sale /\ sold.item = back.item
     IN  sold.type = "SALE" /\ back.type = "RETURN" /\ sameItem /\ sold.loc # NoLocation
           => back.loc = sold.loc

ReturnedWhereSold == \A p \in Product : ReturnsWhereSold(committed[p].ledger)

-----------------------------------------------------------------------------
(* The inductive invariant behind SaleBooked and ReturnedWhereSold: what a *)
(* transaction of the point of sale has written and not yet committed.     *)

(* The movement m enters line k of the sale s.                             *)
EntersLine(m, type, s, k, line, loc) ==
  /\ m.type = type /\ m.sale = s /\ m.item = k /\ m.unit = line.unit /\ m.loc = loc
  /\ m.quantityChange = IF type = "SALE" THEN -line.quantity ELSE line.quantity

(* The new versions of these products enter the first n lines, each once,  *)
(* and nothing else.                                                       *)
EnteredUpTo(old, new, held, type, s, lines, loc, n) ==
  /\ n <= Len(lines)
  /\ \A k \in 1 .. n :
        /\ lines[k].product \in held
        /\ \E e \in NewEntries(old, new, lines[k].product) : new[lines[k].product].ledger[e].item = k
  /\ \A p \in held : \A e \in NewEntries(old, new, p) :
        LET m == new[p].ledger[e]
            k == m.item
        IN  /\ k \in 1 .. n /\ lines[k].product = p
            /\ EntersLine(m, type, s, k, lines[k], loc[k])
            /\ \A f \in NewEntries(old, new, p) : new[p].ledger[f].item = k => f = e

(* Where the lines of a sale came from is where they are to go.            *)
WillGoBack(version, s, lines, loc) ==
  \A k \in 1 .. Len(lines) :
     LET ledger == version[lines[k].product].ledger
     IN  \A e \in Entries(ledger, "SALE", s, k) : ledger[e].loc \in {NoLocation, loc[k]}

HoldsNothing(r) == \A x \in Product \cup Sale : holder[x] # r

CheckoutConsistent(r) ==
  LET c == checkout[r]
      s == SaleOf[r]
  IN  /\ c.pc \in {"idle", "prepare", "sell"} =>
           committed[s] = [status |-> "NONE", items |-> <<>>]
      /\ IF c.pc = "sell"
           THEN /\ holder[s] = r /\ pending[s] = [status |-> "COMPLETED", items |-> c.lines]
                /\ EnteredUpTo(committed, pending, Held(r), "SALE", s,
                                c.lines, c.loc, c.next - 1)
           ELSE HoldsNothing(r)

VoidConsistent(r) ==
  LET v == void[r]
      s == VoidTarget[r]
  IN  IF v.pc \in {"restore", "commit"}
        THEN /\ committed[s].status \in {"COMPLETED", "VOIDED"} /\ committed[s].items = v.lines
             /\ EnteredUpTo(committed, pending, Held(r), "RETURN", s,
                             v.lines, v.loc, v.next - 1)
             /\ WillGoBack(committed, s, v.lines, v.loc)
             /\ v.pc = "commit" =>
                  /\ v.next > Len(v.lines)
                  /\ holder[s] = r /\ pending[s] = [status |-> "VOIDED", items |-> v.lines]
        ELSE HoldsNothing(r)

SalesConsistent ==
  /\ \A r \in Checkouts : CheckoutConsistent(r)
  /\ \A r \in Voids : VoidConsistent(r)
  /\ \A s \in Sale : holder[s] # NoReq =>
        \/ holder[s] \in Checkouts /\ s = SaleOf[holder[s]]
        \/ holder[s] \in Voids /\ s = VoidTarget[holder[s]] /\ void[holder[s]].pc = "commit"
  /\ \A p \in Product : holder[p] \notin Checkouts \cup Voids =>
        ContinuesAside(committed[p].ledger, pending[p].ledger)

-----------------------------------------------------------------------------
(* The inductive invariant behind UnitSoldOnce: which units a transaction  *)
(* of the point of sale holds, and what it has made of them.               *)

(* What prepareSaleLines has checked of a line, and keeps.                 *)
FitsProduct(line) ==
  IF line.unit = NoUnit THEN line.product \notin Serialized
  ELSE /\ line.product \in Serialized /\ ProductOf[line.unit] = line.product
       /\ line.quantity = 1

UnitsOf(lines, n) == {lines[i].unit : i \in 1 .. n} \ {NoUnit}

NoUnitTwice(lines, n) ==
  \A i, j \in 1 .. n : lines[i].unit = lines[j].unit /\ lines[i].unit # NoUnit => i = j

HeldUnits(r) == {u \in Unit : holder[u] = r}

CheckoutUnits(r) ==
  LET c == checkout[r]
  IN  /\ c.pc \in {"prepare", "sell"} => OneOfEachUnit(c.lines)
      /\ c.pc = "prepare" =>
           c.next <= Len(c.lines) + 1 /\ \A i \in 1 .. c.next - 1 : FitsProduct(c.lines[i])
      /\ IF c.pc = "sell"
           THEN /\ \A i \in 1 .. Len(c.lines) : FitsProduct(c.lines[i])
                /\ HeldUnits(r) = UnitsOf(c.lines, c.next - 1)
                /\ NoUnitTwice(c.lines, c.next - 1)
                /\ \A u \in HeldUnits(r) : /\ committed[u].status \in SELLABLE_UNIT_STATUSES
                                           /\ pending[u].status = "SOLD"
           ELSE HeldUnits(r) = {}

VoidUnits(r) ==
  HeldUnits(r) = IF void[r].pc \in {"restore", "commit"}
                   THEN UnitsOf(void[r].lines, void[r].next - 1) ELSE {}

(* A sale that stands has taken its units, and no other has them.          *)
SoldUnitsStand ==
  /\ UnitSoldOnce
  /\ \A s \in Sale : committed[s].status = "COMPLETED" =>
        LET lines == committed[s].items
        IN  /\ NoUnitTwice(lines, Len(lines))
            /\ \A u \in UnitsOf(lines, Len(lines)) : committed[u].status = "SOLD"

(* Where no sale has been voided twice, what stands was sold once.         *)
UnitsConsistent ==
  /\ \A r \in Checkouts : CheckoutUnits(r)
  /\ \A r \in Voids : VoidUnits(r)
  /\ \A u \in Unit : holder[u] # NoReq => holder[ProductOf[u]] = holder[u]
  /\ \A s \in Sale : \A i \in 1 .. Len(committed[s].items) : FitsProduct(committed[s].items[i])
  /\ VoidedOnce => SoldUnitsStand

(* The inductive invariant behind QuantityCountsUnits and OffersMatchTill. *)
(* Until its sale is voided by another, a transaction has the balance of   *)
(* each product it holds in step with the units it holds.                  *)
InStep(version, p) ==
  version[p].quantityOnHand =
    Cardinality({u \in Unit : /\ ProductOf[u] = p
                              /\ version[u].status \in STOCK_COUNTED_STATUSES})

StillStands(r) ==
  r \in Voids => committed[VoidTarget[r]].status = "COMPLETED" \/ void[r].lines = <<>>

StockInStep ==
  VoidedOnce => \A p \in Serialized : /\ InStep(committed, p)
                                      /\ StillStands(holder[p]) => InStep(pending, p)

(* What the stock has to be like when the behaviour starts.                *)
OpeningInStep == IsFiniteSet(Unit) /\ \A p \in Serialized : InStep(OpeningRow, p)

(* registerProductUnits refuses a product that is not serialized.          *)
UnitsOfSerialized == \A u \in Unit : ProductOf[u] \in Serialized

(* No sale is named by two void requests.                                  *)
OneVoidPerSale == \A a, b \in Voids : VoidTarget[a] = VoidTarget[b] => a = b

(* The sale a void request is working on has not been voided by another.   *)
VoidsStanding ==
  \A r \in Voids : void[r].pc \in {"restore", "commit"} =>
     committed[VoidTarget[r]].status = "COMPLETED"
=============================================================================
