# Formal model of keepinv-backend

keepinv-backend is a multi-tenant inventory and point-of-sale API: NestJS handlers over one
PostgreSQL database reached through Prisma. Handlers keep nothing in memory between requests, so
everything that can go wrong between requests goes wrong in the database: several handlers read,
decide and write the same few rows. These TLA+ modules model the handlers that change state
statement by statement, check small instances with TLC and prove what matters most with TLAPS for
any number of products, units, tenants and requests.

Contents: 1 the system, 2 modules and how they correspond to the code, 3 properties, 4 runs,
5 fairness, 6 where the code and its own words disagree, 7 proofs, 8 what is not modelled, 9 plan.

## 1. The system

| Component | State | Operations that change it | What makes it hard | What makes it correct |
|---|---|---|---|---|
| Database access (`core/database`, `schema.prisma`) | rows, row locks, tenant setting | single calls (a transaction each), `$transaction` | READ COMMITTED: a read takes no lock, an update works on a row newer than the one that was read | what is committed is written by whole transactions |
| Point of sale (`pos.service.ts`) | sales and items, product balances, unit statuses, movements | `checkout`, `voidSale`; the searches that offer items to a till | two tills and one unit; carts in different orders; void sent twice; failure on a later line | a sale and its movements are one; a unit is on one standing sale; stock never negative; what is offered can be sold |
| Product units (`product-unit.service.ts`) | units (status, location, identifiers), balances, movements | `registerProductUnits`, `updateProductUnit`, `changeProductUnitStatus`, `retireProductUnit`, `writeProductUnitTag` | decisions taken on a status read before the transaction; running balances of a batch; identifiers looked up in three columns, then written | the balance counts the units on hand; every unit can be scanned, and a scan means one unit |
| Stock movements (`stock-movements.service.ts`) | balance, movements | `recordStockMovement` | reference checks that lock nothing | ledger is a chain of balances; nothing is entered for an archived product |
| Products (`products.service.ts`) | product rows, photos | create, update, archive, reactivate, photo upload and removal | read and write in different transactions; a second store for photos | the catalogue never touches a balance; no photo is lost by a failure |
| Inventory audits (`inventory-audit.service.ts`) | audits, scans, unit statuses, balances, movements | `createInventoryAudit`, `addScans`, `completeAudit`, `cancelAudit` | units sold, moved and returned while the audit is reconciled; two completions; completion against cancellation; lock order | one reconciliation per audit, over units still as planned; finished audits stay as they are |
| Receipt imports (`receipt-imports.service.ts`) | idempotency keys, suppliers, products, balances, movements | `commitReceiptImport` (its preview reads) | retries and concurrent commits with one key; products matched by three queries and created on the way | a receipt is stocked in once or not at all; one product for one name |
| Categories, suppliers and links, locations, movement types | rows with an archive flag | create (or reactivate), update, archive | case-insensitive names checked before the write, archived rows under the same unique constraints | fresh decisions never hit a constraint; the system types stay usable |
| Tenant lifecycle (`platform.service.ts`, `provisioning.ts`, `users.service.ts`) | organizations, users, memberships, all business tables | provision, update, delete | a deletion over all tables with foreign keys while accounts and rows come and members leave | a tenant keeps its owner; nothing of another tenant goes; a deletion is stopped by what is known to stop it |
| Product images (`core/cloudinary`) | assets at the image host | upload, destroy, purge of a tenant's folder | two stores and no transaction | a photo that a row names is there |
| Entitlements (`entitlements.service.ts`) | none: tenants and the clock | - | trial end at the boundary, tenant gone, tenant off | a tenant is locked while it is off and once its trial has run out |
| Reports (`reports.service.ts`) | none: REPEATABLE READ over the tables | - | commits between the queries | sections of one page agree |
| Authentication, guards, filters, wiring | sessions and memberships (in a library) | the session hook; invitations, removals and leaving through the organization plugin | memberships that end while a session and old rows go on naming them | what becomes of those rows (tenant lifecycle) |
| Seeds, scripts, deployment | - | - | - | - |

The stock handlers interact through the shared rows alone: `products.quantity_on_hand` (written by
sales, voids, units, manual movements, audits and receipts), `product_units.status` and
`location_id` (sales, voids, unit edits, audits), `products.is_archived`, `sku` and `barcode` (the
catalogue and receipts write them, the others test them), `stock_movements` (everybody appends,
voids look up the movement of the original sale), `inventory_audits.status` and the idempotency
keys of `receipt_imports`. There are no queues and no caches of rows. The other tables have one
writer service each; a tenant's deletion goes over all of them.

## 2. Modules

```
 CartLines    StockDb <--- Pos, ProductUnits, StockMovements, Products,
     ^           |         InventoryAudit, ReceiptImports, Dashboard
     +--- Pos <- Carts                 \      |      /
     |           |                      Inventory  -- implements --> StockBook
     |           v
     |     StockDbProofs <- PosProofs, ProductUnitsProofs, AuditProofs <- InventoryProofs
 CartsProofs -> FoldProofs <- PosProofs

 Overlay <--- ReferenceData, UnitIdentifiers
              Tenants <- ProductImages

 instances for TLC:  Pos <- MCPos <- MCTills -> Carts     Inventory <- MCInventory <- MCTraffic
                     ReferenceData, UnitIdentifiers, ProductImages <- MCBackOffice <- BackOfficeProofs
```

### Stock

**StockDb** is the database as the stock handlers see it. Each row of `Product`, `Unit`, `Sale`,
`Audit` and `IdempotencyKey` has a `committed` version, a `pending` version and a `holder`, the
request whose open transaction has written it. `Visible` is a SELECT inside a transaction (its own
pending rows, else the latest committed ones: READ COMMITTED, no snapshot). `Stage` is an UPDATE or
INSERT inside `$transaction` (waits for the row lock), `AutoCommit` a call outside one, `Commit` and
`Rollback` the end of one. A movement is inserted only after its product was updated by the same
transaction, so a product's movements are kept in its row as a sequence, `ledger`; what the
catalogue knows of a product (`sku`, `barcode`, `name`, `loc`) is the row's `card`. `CardRivals` and
`CardTaken` are the unique constraints on SKU and barcode: an insert waits for an open transaction
with the same value and fails on a committed one. The unit of interleaving is the statement, with
one merge: after a transaction has updated a product, the unit rows it then writes for that product
are part of the same step. Other transactions write those units only under the same product lock,
or in a transaction of one statement that holds nothing while it waits; a merge therefore hides no
interleaving of theirs, and every row of the step is required to be free.

**CartLines** is `normalizeCheckoutItems` and `calculateTotals`: the pure functions of a checkout.
**Carts** is every cart a client can put together, one item after the other, and what the two
functions owe it.

**Pos** is `checkout` (normalise, prepare each line, create the sale, sell each line, commit) and
`voidSale` (read the sale and the original movements, restore each line, mark, commit), and, as
`FoundProducts`, `FoundUnits`, `ProductIsSellable` and `UnitIsSellable`, what `searchItems` and
`getProductUnits` show a till. Local variables of a running handler are records `checkout[r]`,
`void[r]` with a program counter; the other modules do the same.

**ProductUnits**: `change` is `changeProductUnitStatus` (and `retireProductUnit`, a body of it),
`edit` is what `updateProductUnit` does to the location, `registration` is `registerProductUnits`.
**StockMovements**: `record` is `recordStockMovement`. **Products**: `catalog` is `createProduct`
(an archived product of the SKU comes back with the row it had), `updateProduct` and
`archiveProduct`, each a read (`getProduct`, the availability checks) and a later write.

**InventoryAudit**: `scanning` is `createInventoryAudit` and `addScans`, `completing` is
`completeAudit` (claim, refresh the scan results, plan, reconcile product after product, commit)
and `cancelling` is `cancelAudit`; `scans` are the committed scan rows. A scan row is written by one
statement, or published at the commit of a completion, so it needs no versions. `UnitOfTag` stands
for the match of a tag text with one unit by RFID tag, asset tag, serial number or barcode. The
order in which the audit visits the units of one product decides only the order of its movements;
the model takes one order (`SetToSeq`), and the transitions planned for one unit are applied in the
order of the code.

**ReceiptImports**: `receipt` is `commitReceiptImport`. `PreviewReceiptImport` reads outside the
transaction; then `ReserveIdempotencyKey` inserts the row of the key, `BuildProductMatchMap` makes
one step of each of its three queries (barcode, SKU, name) and keeps what they found, stale or not,
`FindOrCreateSupplier`, and for each line `StockReceiptLine`, which stocks a matched product or
creates one and folds it into the maps. Of several products of one name, a query returns the one it
likes. Names stand for themselves normalized and lower-cased.

**Dashboard**: `report` is `getInventoryDashboardReport`. Its first statement takes a `Snapshot`,
each later section is put together from it.

**Inventory** composes them: a step of one handler leaves the local variables of the others alone.
**StockBook** is the abstract specification: per product a book to which movements are only
appended, each from the balance the one before it left, the balance shown being the last one and
never negative. `Inventory!BookSpec` maps committed ledgers and balances to it. A commit may enter
movements of several products at once.

Every handler may also abort at any point of its transaction (`AbortX`): a transaction timeout, a
lost connection, a deadlock victim or a failing statement. A crash of the process is an abort of
its requests: nothing else is kept in memory.

### What surrounds the stock

**ReferenceData** is the five services of categories, locations, suppliers, supplier links and
movement types, which follow one protocol: `ReadEntries` is all the reads of a handler, which
decide (`Decisions`) to refuse or to give some columns of a row values; `WriteEntry` is the write,
later, under the table's unique constraint (`Violates`). `Fold` is the case-insensitive comparison;
the constraints see case, and see archived rows.

**UnitIdentifiers** is the other side of the unit handlers: which identifiers a unit has.
`ReadLabels` reads the unit and looks the identifiers up in all three columns, `WriteLabels` writes
under one unique constraint per column. `Received` is what the validation pipe makes of a body: an
instance with all four fields (section 6). The bodies in ProductUnits are those that send
every field, which is the case in which a patch does what it was sent to do; how unsent fields are
treated is modelled here alone. `Depart` is what sales and status changes do to a unit meanwhile.

**Tenants** is `createOrganization`, `updateOrganization`, `createUser` and
`createOrganizationUser` (`ProvisionOrganizationUser`), three endpoints of the organization plugin that
`auth.ts` mounts (`Join`, an invitation accepted; `RemoveMember`; `Leave`), the session hook (`SignIn`:
a session keeps the organization it brings, and one that brings none gets a membership of its user),
the tenants' own inserts (`InsertRow`), time, and `deleteOrganization` statement by statement:
`EmptyTable` for each table in the order of the code, `SortAccounts`, `DeleteAccounts`,
`DeleteTenant` with the commit. `Needs` are the foreign keys of the rows, restricting except for the
`CascadingKey`s; `ForeignKey` and `UserKey` are the keys the schema has, and `SchemaAssumption` says that
the rows use no others. Rows a deletion has deleted and not committed (`gone`) are still read by others,
but nothing that refers to them can be inserted (`Doomed`: the insert's share lock waits, and then
fails or finds the deletion rolled back). `Resolve` is `EntitlementsService.resolve`; the ghost
`daysLeft` counts the days of each trial down, one a tick, so that what `Resolve` compares with the
clock can be held against the words "that many days from now".

**ProductImages** adds the photos: the column of the product's row (`imageOf`), the assets at the
host (`hosted`), upload and removal as writes to one and then the other, either of which may fail,
and `DestroyProductImages`, the purge after a deletion has committed.

These three share no table with each other, except that a deletion empties what the others fill,
and Tenants keeps rows of its own for that; so **MCBackOffice** runs one of them per behaviour.

## 3. Properties

- `StockInv`, `TypeOK`, `OfficeTypeOK`: types with non-negative balances; `StockInv` is the types of
  all stock handlers (`InventoryTypeOK`) and adds that both versions of every row are consistent, and
  so is what each handler remembers with where it is.
- `LedgerBalanced`: the committed ledger of each product is an unbroken chain of balances that ends
  in `quantityOnHand` ("`quantityAfter` is a snapshot for trustworthy counts").
- `BookSpec`: committed stock implements StockBook.
- `HistoryInv`: the inductive invariants behind what several requests do to one row over time
  (`SalesConsistent`, `AuditsConsistent`, `KeysConsistent`, `ReceiptsConsistent`, `CreatedIndexed`,
  `UnitsRegistered`, `PlannedOnce`; section 7).
- `UnitSoldOnce`: no unit is on two standing sales. `SaleBooked`: a sale exists exactly with its
  movements, a voided one exactly with its returns. `ReturnedWhereSold`: a void brings an item back
  to where it was sold from. `VoidedOnce`: at most one return per sold item. `OffersMatchTill`: what
  a till is shown as sellable is what a checkout without competitors sells.
- `NormalizedKeepsOrder`: merging the items of a cart keeps what was ordered, its order and its total.
- `QuantityCountsUnits`: a serialized product's balance is the number of its units whose status
  counts. It is checked on requests that move units only; a manual movement on a serialized product
  is allowed by the code and breaks it by design.
- `AuditSparesOthers`: completing an audit changes only units whose status is audit-managed at that
  moment and moves none. `OneReconciliation`: of several completions of one audit only the one whose
  commit flips it applies changes. `CompletedIsFinal`, `MissingWhereCounted`: see section 6.
- `OrderedNeverDeadlock`: an audit that waits in a circle waits with a cart that does not name its
  products in the order of their ids: the order the audits keep is enough among those who keep it.
- `NoMovementOnArchived`: no movement of an archived product.
- `ReceiptsBooked`: the committed purchases are, one for one, the lines of the receipts answered with
  success, each with its quantity and location. `KeysTakenOnce`:
  of the receipts with one key at most one is, and a key is taken exactly when its receipt is in, so
  no overlap and no failure spends it. `LinesShareProduct`: the products one receipt creates have
  different names, so a line that repeats a name is stocked into the product of the earlier line.
- `ReportConsistent`: stock by category is stock by location and the value of both, and the units
  that need attention are those of the status breakdown, whatever commits meanwhile.
- `EveryHandlerEnds`: a request that has begun is answered.
- `FreshPlansFit`, `FreshLabelsFit`: a handler whose reads are still true when it writes keeps names
  and identifiers apart and is not stopped by a constraint: the rule the reads enforce is at least
  the rule of the database, for every table, case and archived row.
- `EveryUnitIdentified`: no overlap of patches, tag writes and registrations takes a unit's last
  identifier. `PatchSparesUnsent`: see section 6.
- `SystemTypesResolve`: every system movement type is found, live, with its effect.
- `EveryTenantOwned`, `OnlyExclusiveAccountsGo`: no deletion takes the owner or an account of another
  tenant (but for one that joined after the accounts were sorted), whoever joins and leaves meanwhile.
- `BlockersExplained`: of the tenant's own rows only those that came after the deletion began and
  receipt imports can stop it, so the order of the tables leaves no foreign key in the way; of another
  tenant's only those that name an account which has left that tenant, or joined it late.
  `NothingBlocks`: see section 6.
- `TrialsRunOut`: a tenant is locked exactly while it is switched off or its trial has no day left,
  however often the trial is set, prolonged, moved into the past or cleared.
- `PhotosServed`: no failed upload and no deletion that is refused, rolled back or of another tenant
  costs a product its photo.

## 4. Runs

| Run | Instance | Distinct states | Shows |
|---|---|---|---|
| `pos` | 3 checkouts over 6 kinds of cart, 2 voids, 2 units, stock 2; and every cart of up to 3 items of 2 products, 2 units, quantities 1-2 | 79,644 | sale properties, `OffersMatchTill`, `LedgerBalanced`, `QuantityCountsUnits`, the cart functions |
| `inventory` | 14 requests of 11 handlers in five mixes of traffic | 190,058 | `StockInv`, `HistoryInv`, `BookSpec`, `ReceiptsBooked`, `KeysTakenOnce`, `LinesShareProduct`, `ReportConsistent` |
| `audit` | creation with a tag, scan batch, 2 completions, 1 cancellation, 1 checkout and its void, 1 registration | 451,196 | audit properties, `StockInv`, `HistoryInv`, `QuantityCountsUnits` |
| `inventory_liveness` | 2 checkouts with carts in either order, a void, an audit, 2 serialized products | 5,732 | `OrderedNeverDeadlock`, `EveryHandlerEnds` |
| `back_office` | fourteen parts: names in each of four tables, patches, tags, deletions of two tenants, one deletion sent twice, a tenant with receipt imports, members that leave with and without new rows and others that join, deletion against new rows, photos, trials | 91,087 | the properties of section 3 from `FreshPlansFit` on |
| `double_void`, `stale_status`, `archived_window`, `audit_cancelled`, `audit_moved`, `tenant_stuck`, `patch_wipes` | the few requests of one race | until the counterexample | section 6 |

Bounds: a request runs once, so behaviours are finite and no counter needs a cap; the one clock, of
the tenants, stops at `Horizon`, two days: a trial can end, and one set anew can end too. Requests are in
different handlers, or two or three of one handler where that handler competes with itself: the
hazards need two writers and at most one more to undo what they did (sell, void, sell). Two products
are enough for lock cycles, one unit for a race; stock of 1 or 2 makes both outcomes of the balance
check reachable. Not every handler meets every other one in one behaviour: `MCTraffic` chooses one of
five mixes of five or so requests, each put together around a hazard (units that move while their
product is corrected by hand; a product that is sold, archived and comes back; one receipt sent twice
while its hub is also listed by hand; two receipts that name products in opposite order and a product
that takes their barcode; a dashboard beside what moves the stock it counts), and the requests outside
the mix have been refused before. `MCBackOffice` does the same with its parts. Requests are not
interchangeable (they name different sales, audits, keys and rows), so no symmetry is used. Where
every request may end, deadlock is checked against an explicit `Done` step; the back office has no
`Done`, and there deadlock is not checked, since its handlers never wait for each other's open
transactions except behind a deletion, which can always be aborted.

Each property of a passing run has a mutant: a definition changed the way a bug in that code could
(a compare-and-set without its condition, movements that all carry the final balance, writes
outside one transaction, a lookup in one column only, tables emptied in another order), for which
the run finds the property violated. The mutated definitions stand before the originals in the
modules, marked `Mutant`.

## 5. Fairness

`FairSpec` assumes that a request which has begun runs on when its next statement can run (the event
loop and PostgreSQL schedule it), and that of a cycle of waiting transactions one is aborted
(PostgreSQL's deadlock detector, `BreakDeadlock`). It assumes nothing of clients: no request need
be sent, and no transaction need time out. Under these, lock order does not matter for liveness;
without the second, two carts in opposite order wait for ever.

## 6. Where the code and its own words disagree

Each of these is a run that TLC ends with a counterexample; `PROJECT.json` quotes the lines.

- `double_void`: two voids of one sale both find it COMPLETED and both return the stock ("Sale has
  already been voided"): the status is read without a lock and overwritten without a condition.
- `stale_status`: two changes of one unit's status compute the delta from the status both have read;
  the balance no longer counts the units.
- `archived_window`: the reference check in the transaction does not close the window its comment
  says it closes, since READ COMMITTED reads lock nothing.
- `audit_cancelled`: a cancellation that read IN_PROGRESS overwrites COMPLETED.
- `audit_moved`: a unit moved between the plan and the compare-and-set keeps its status, so it is
  marked missing from a place where it was not expected any more.
- `tenant_stuck`: "Children before parents so no RESTRICT foreign key blocks the delete". The order is
  right, but `receipt_imports`, whose key to the organization restricts, is not among the tables, so a
  tenant that has imported a receipt with an idempotency key cannot be deleted (the counterexample).
  Nor can the last tenant of someone who once worked for another one and left it, as long as that one
  keeps the movements, sales or audits that name the account. `BlockersExplained` says that these two
  and rows inserted meanwhile are all that stops a deletion.
- `patch_wipes`: the body of a unit patch is an instance whose four fields are all own properties, so
  `hasOwnProperty` takes each for sent, and those the client did not send are cleared. What is assumed
  here of code outside `src/` is that the pipe makes an instance of the class and that a class field
  without a value, compiled for ES2023, is defined as undefined.

No run is spent on these, which the model or the reading also shows:

- a location patch clears the location of a unit that a void has taken back since it was read;
- scans are added to an audit that finished since its status was read;
- audits lock products by id, "matching POS to avoid deadlocks" (`inventory-audit.service.ts:233-234`),
  but `checkout` locks them in the order of the cart (`pos.service.ts:184`), and a void in that of the
  sale's items: a cart in another order and an audit can wait for each other. `OrderedNeverDeadlock`
  says that the comment is right of the carts that are in order, `EveryHandlerEnds` that the others are
  freed by PostgreSQL;
- a session goes on naming a tenant that its user has been removed from, and row-level security lets it
  work there (`SignIn` carries it into a renewed session, `InsertRow` uses it);
- an empty location code is not looked up before the write, and is stopped by the constraint;
- the comment at `entitlements.service.ts:38-39` speaks of BASIC defaults for a session without an
  organization, the code answers with PRO;
- the audit summary computes the missing units as expected minus matched, which a matched unit that was
  sold or moved since makes smaller than the missing bucket (`inventory-audit.service.ts:471`).

## 7. Proofs

`StockDbProofs` proves once, for the statements of StockDb, that they keep `DbInv` (types and
`VersionsConsistent`) and only ever continue committed ledgers, provided the rows they write are
well typed, balanced and continue the visible ledger. `PostedOK` and `BatchPostedOK` prove that of
the two kinds of stock arithmetic the code has: one movement per update, and one update for a batch
of movements with reconstructed balances. `PosProofs`, `ProductUnitsProofs`, `AuditProofs` and
`InventoryProofs` (which holds the manual movements, the catalogue, the receipts and the dashboard)
then have one lemma per action of each handler. `BackOfficeProofs` holds the proofs about reference
data, identifiers, tenants and photos, `CartsProofs` those about carts, and `FoldProofs` the facts about
folds and sums they and `InventoryProofs` rest on.

| Module | Theorem | Statement |
|---|---|---|
| InventoryProofs | `StockInvariant` | `Spec => []StockInv` |
| InventoryProofs | `TypesCorrect` | `Spec => []InventoryTypeOK`: in particular no balance is negative |
| InventoryProofs | `LedgersBalanced` | `Spec => []LedgerBalanced` |
| InventoryProofs | `ImplementsBook` | `Spec => BookSpec` |
| InventoryProofs | `SalesBooked` | `Spec => []SaleBooked` |
| InventoryProofs | `ReturnsMatchSales` | `Spec => []ReturnedWhereSold` |
| InventoryProofs | `AuditsSpareOthers` | `Spec => AuditSparesOthers` |
| InventoryProofs | `OnlyOneReconciles` | `Spec => OneReconciliation` |
| InventoryProofs | `KeysAlwaysTakenOnce` | `Spec => []KeysTakenOnce` |
| InventoryProofs | `ReceiptsAlwaysBooked` | `Spec => []ReceiptsBooked` |
| InventoryProofs | `LinesAlwaysShare` | `Spec => []LinesShareProduct` |
| InventoryProofs | `ReportsAgree` | `Spec /\ []QuantityCountsUnits => []ReportConsistent` |
| InventoryProofs | `UnitsSoldOnceTogether` | `Spec /\ []ChangesSpareSold => [](VoidedOnce => UnitSoldOnce)` |
| InventoryProofs | `VoidsReturnOnceTogether` | `OneVoidPerSale` gives `Spec => []VoidedOnce` |
| InventoryProofs | `UnitsSoldOnceOnlyTogether` | `OneVoidPerSale` gives `Spec /\ []ChangesSpareSold => []UnitSoldOnce` |
| InventoryProofs | `StockCountsUnitsTogether` | `OpeningInStep` gives `Spec /\ []ChangesSpareSold /\ []ChangesFresh /\ []UnitsMoveAlong => [](VoidedOnce => QuantityCountsUnits)` |
| InventoryProofs | `ReportsAgreeTogether` | `OneVoidPerSale`, `OpeningInStep` give `Spec /\ []ChangesSpareSold /\ []ChangesFresh /\ []UnitsMoveAlong => []ReportConsistent` |
| InventoryProofs | `HistoryAlwaysConsistent` | `Spec => []HistoryInv` |
| PosProofs | `PosTypesCorrect` | `PosSpec => []TypeOK` |
| PosProofs | `UnitsSoldOnce` | `PosSpec => [](VoidedOnce => UnitSoldOnce)` |
| PosProofs | `OneVoidReturnsOnce` | `OneVoidPerSale` gives `PosSpec => []VoidedOnce` |
| PosProofs | `UnitsSoldOnceOnly` | `OneVoidPerSale` gives `PosSpec => []UnitSoldOnce` |
| PosProofs | `StockCountsUnits` | `OpeningInStep` gives `PosSpec => [](VoidedOnce => QuantityCountsUnits)` |
| PosProofs | `OffersAlwaysMatch` | `OpeningInStep`, `UnitsOfSerialized` give `PosSpec => [](VoidedOnce => OffersMatchTill)` |
| CartsProofs | `CartsKeepOrder` | `CartSpec => []NormalizedKeepsOrder` |
| BackOfficeProofs | `AlwaysIdentified` | `LabelSpec => []EveryUnitIdentified` |
| BackOfficeProofs | `FreshLabelsAlwaysFit` | `LabelSpec => []FreshLabelsFit` |
| BackOfficeProofs | `LabelTypesCorrect` | `LabelSpec => []TypeOKLabels` |
| BackOfficeProofs | `SystemTypesAlwaysResolve` | `RefSpec => []SystemTypesResolve` |
| BackOfficeProofs | `FreshPlansAlwaysFit` | `RefSpec => []FreshPlansFit` |
| BackOfficeProofs | `RefTypesCorrect` | `RefSpec => []TypeOKRef` |
| BackOfficeProofs | `TenantsStayOwned` | `TenantsSpec => []EveryTenantOwned` |
| BackOfficeProofs | `PhotosAlwaysServed` | `TenantsSpec => []PhotosServed` |
| BackOfficeProofs | `DeletionsStayExclusive` | `TenantsSpec => OnlyExclusiveAccountsGo` |
| BackOfficeProofs | `BlockersAlwaysExplained` | `TenantsSpec => BlockersExplained` |
| BackOfficeProofs | `TrialsAlwaysRunOut` | `TenantsSpec => []TrialsRunOut` |
| BackOfficeProofs | `TenantTypesCorrect` | `TenantsSpec => [](TypeOKTenants /\ TypeOKImages)` |
| BackOfficeProofs | `OfficeTypesCorrect` | `OfficeSpec => []OfficeTypeOK` |

**Stock.** `LedgerBalanced` is not inductive: a commit publishes what was pending. `StockInv` adds
that pending rows are balanced too, that their ledgers continue the committed ones, that a row nobody
holds has no pending version of its own (so an aborted or finished transaction leaves nothing behind,
and whoever takes the lock next starts from the committed row), and that a handler remembers a
location for each line it is about to write. `ImplementsBook` needs this invariant and, for each
step, that committed ledgers continue (`LedgersGrow`).

**Sales.** `SalesConsistent` says what a checkout or a void has written and not yet committed: of the
products it holds, the pending ledgers enter its first `next - 1` lines, each once, with the unit,
quantity and location of the line, and nothing else (`EnteredUpTo`); it holds its sale's row with the
status it will commit; and a void's locations are those of the movements that sold the lines
(`WillGoBack`). Every other handler continues a ledger only with movements that belong to no sale
(`ContinuesAside`), which is one lemma per action of theirs (the `...Elsewhere` lemmas). A commit then
publishes a sale with all its movements.

**Units.** `UnitsConsistent` adds the units: a transaction holds exactly the units of the lines it
has written, found each of them sellable when it took it, and never holds a unit without its
product; and unless a sale was voided twice, every unit of a standing sale is SOLD and is on no
other. The condition is the known double void of section 6: a second void takes a unit back that
another customer may have bought. `OneVoidReturnsOnce` shows that this race alone breaks it: where
no two void requests name one sale (`OneVoidPerSale`), nothing is returned twice, and
`UnitsSoldOnceOnly` needs no condition. `StockInStep` does the same for balances: the pending
balance of a product is in step with the pending units, for every product and transaction, as long
as the sale a void works on still stands. From it follows that a till's offer of a unit, which never
looks at the balance, is good.

Beside the other handlers a sold unit has one more enemy: `updateProductUnit` refuses no status, so a
status change by hand takes a unit of a standing sale back, and the next checkout sells it again. The
theorems `...Together` are about the whole composition and exclude that alone: `ChangesSpareSold`, no
unit between the read of a change and its write is sold. Audits need no such condition, since they
write only units whose status is audit-managed, nor do registrations: `UnitsRegistered` says that
until its row is there a unit is written by its registration alone, and that whatever is sold,
returned, changed, moved or counted has its row. A registration can therefore put no status on a unit
of a sale.

`StockCountsUnitsTogether` is `StockInStep` through every step of every handler. Outside the point of
sale each write is one of three kinds (`BalancedStep`): a transaction's statement about one product and
units of its own that keeps them in step (`KeepsInStep`), a row in a transaction of its own that leaves
its balance or what its status counts for (`SameCount`), or rows that are neither products nor units.
`BalancingKeeps` is the argument for all three, and the lemmas `...Balance` say of each handler which
it takes. The audits are the hardest: one update nets the shifts of many units, two of which may be one
unit's. `PlannedOnce` says that a plan has a unit at most once in each of its two groups, and that a
unit in both goes to IN_STOCK first, so its second transition shifts nothing (`OneShift`); so the
netted balance is the number of units that begin to count less those that cease to. Three hypotheses
are left, and each names what the code does not look at: `ChangesSpareSold` as above; `ChangesFresh`, a
change by hand finds a status that counts as the one it computed its delta from (it does not read it
again in its transaction: run `stale_status`); `UnitsMoveAlong`, a manual movement or a line of a
receipt names no serialized product (both may, and neither names a unit). Without changes by hand and
without such movements all three hold of every behaviour.

**Audits.** `AuditsConsistent` says that from its claim to its commit a completion holds the row of
its audit, pending COMPLETED and committed IN_PROGRESS, and that each unit it holds was of an
audit-managed status when it took it and will be of one, where it was. What makes it inductive is
one fact about all the other handlers: `Sparing(q, A)`, a step of request `q` that writes no row of
`A`, leaves alone all that others hold (`SparingHeld`, `HeldStay`). Every handler spares the audits
and the keys but those that claim them. In particular `cancelAudit`, which writes without a
condition, waits for the row; what it overwrites afterwards (section 6) is after the reconciliation.

**Receipts.** `KeysConsistent` is the same argument for idempotency keys: a key somebody holds is
held by a receipt past its claim that names it, is free and pending taken. A second receipt with the
key waits for the row, then finds it taken or, after a rollback, free. `ReceiptsBooked` is a
bijection, between the lines of the receipts that are in and the purchases in the committed ledgers
(as places in them), and `ReceiptsConsistent` has the same bijection for each open transaction: of a
receipt at its line `next`, the lines before it and the new places of the products it holds
(`Booked`). A line adds one pair to it, a commit joins two disjoint bijections, and every other
handler adds movements that are no purchase of a receipt (`Unbuying`; the lemmas `...Unbuy`): a
registration of type PURCHASE names a unit in each of its movements, a receipt in none.

`LinesShareProduct` needs to know what the maps of matches find. `CreatedIndexed` says that the map of
names has every product that the open transaction has created, so a line that creates one had a name
none of them has. The maps are written by their own request alone, and no other writes a row it holds.

**Carts.** `normalizeCheckoutItems` folds the items of a cart into lines, and the theorems are about
carts of any length. A fold over a cart of unknown length cannot be expanded, and the library's induction
theorems take an operator; so `FoldProofs` does induction with sets, where it is first-order: a set of
finite sets that holds the empty set, and with each set the set with one element more, holds them all
(`SubsetInduction`, from the well-foundedness of smaller sets), which is instantiated with the set of
those for which the fact in question is true. From it come what a fold over a sequence is
(`FoldsAgree`: its value is that of any sequence of intermediate results), what a sum over a finite
set is, and that sums may be split, counted and regrouped by a key (`SumSplit`, `SumCounts`,
`SumByKey`, `CountByKey`). `CartsProofs` then follows the lines from item to item: they have for every
product and unit the quantity of the items so far, once, in the order of the first of them.

**Dashboard.** Every section is put together from the snapshot of the first statement, so `PagesOK`
says of a report on its way that the sections it has are those of its snapshot, and that the
snapshot was balances that count their units, whatever has been committed since. The rest is
arithmetic: the total by location is the sum of the balances regrouped by location, for products
without units, and the number of units regrouped by location and by product, for those with. The
hypothesis `[]QuantityCountsUnits` is there because the two sections count serialized stock
differently, by balance and by unit: where a status change or a manual movement has made these two
disagree (section 6), the sections disagree on the page as well. `ReportsAgreeTogether` puts in its
place what it follows from.

**Identifiers.** `EveryUnitIdentified` needs what a request carries from its reads to its write: for
each unit it names, an identifier of its own. A patch does because it writes all three columns,
which is why overlapping patches cannot strip a unit between them. `FreshLabelsFit` holds because
the lookup goes over all three columns, so what it finds free is free in the column it is written
to.

**Reference data.** No request ever holds a plan for a system type that does more than rename it; so
whatever order the writes come in, the row stays live and its effect stays. `FreshPlansFit`: the
lookup folds case and sees archived rows, so a name it finds free is free under the constraint of
each table.

**Tenants.** `TenantInv` follows an account from the moment a deletion has sorted it as one of its
own: until the commit its memberships elsewhere are ones that came late and are never an owner's
(`VictimsExclusive`). So no deletion takes the owner of another tenant, and a member leaves a tenant
only if an owner stays; that is why `EveryTenantOwned` alone is not inductive. `ImageInv` adds where
each photo request is. That tenants end once and take their rows along (`Lasting`) is proved of every
step: a photo purged is a photo of a tenant that will not come back.

`OrderInv` follows the order of the tables: of those behind it a deletion has every row of the tenant
but those that came after it began. With the schema's `ForeignKey`s (`ChildrenFirst`: the tables that
restrict a table come before it), no child of a row is left when its table's turn comes; what is left
at the end is in a table that is never emptied. A row of another tenant has no key to the tenant's
rows, only to users, and an account that belongs to that tenant too is no victim, unless it joined
late. `TrialInv` says that `daysLeft` is the distance from the clock to the end of the trial, through
every way of setting either.

Assumptions are the named ASSUMEs of the modules: rows of different tables are different, requests
run one handler each, opening balances are naturals and opening rows consistent, request bodies have
the types their DTOs check, product ids are totally ordered, there are finitely many units, a unit
starts with an identifier and a tenant with an owner, and the ids the database draws are ids of rows
(that they are fresh is not needed). `SchemaAssumption` lists the foreign keys.
`PayloadAssumption` is the types of a checkout's body and nothing more: that merging keeps the lines
well typed, and that a cart which is not refused names a unit once, with quantity one, is proved. The
dashboard adds up finitely many products and locations.

Some theorems have hypotheses of their own, which TLC evaluates for the instances (`MCPos`, `MCTills`). `OpeningInStep`: stock and units agree when the behaviour starts. `UnitsOfSerialized`:
units belong to serialized products, the only ones `registerProductUnits` accepts. `OneVoidPerSale`
is explained above.

Model-checked only: liveness (`EveryHandlerEnds`; no proof system support for ENABLED here) and
`OrderedNeverDeadlock`, whose proof would need the lock order of every handler as an invariant. The
disagreements of section 6 are counterexamples, which TLC finds. Everything else that a run checks is
a theorem, under the hypotheses given.

## 8. Not modelled

- Money beyond the comparison of tendered amount and total: prices, taxes, the money columns of the
  reports. Texts: receipt numbers, notes, generated SKUs and audit numbers.
- Lists and searches that only read, but for what a till is offered and the dashboard; the untagged
  bucket of the dashboard.
- The serialized flag of a product, which `updateProduct` may change without a look at stock or units,
  is a constant. `Category`, supplier and location rows that a stock handler refers to are taken to
  exist; that one of them is archived between the preview and the commit of a receipt, and the archive
  flag of suppliers there, are left out.
- One tenant in the stock modules, so row-level security is not, beyond the session a tenant's insert
  needs. The library's sessions beyond the hook, passwords, guards, filters, wiring.
- Of the organization plugin: roles do not change, "admin" counts as a member, and invitations are for
  members; each of its requests is one step, so that two owners who leave at the same moment are not
  shown; its own deletion of an organization is left out, which the rows of every tenant's movement
  types restrict. An account has one session at a time, and choosing another active organization is a
  sign-in that finds that membership first. The admin plugin's removal of a user is left out.
- The legacy column of the users is severed in the code before the accounts are deleted, and in the
  model at the commit, where others see it: nothing sets the column any more.
- `seed` scripts and deployment: data, and steps of an operator on an idle database.

Balances are unbounded integers; the column is a 32-bit integer, whose overflow PostgreSQL answers
with an error, which is an abort in the model.

## 9. Plan

Done: every component of section 1 but the shell and the seeds, and the theorems of section 7. Next:

1. Archived references in the stock handlers, by composing ReferenceData with Inventory for one small
   mix of traffic.
