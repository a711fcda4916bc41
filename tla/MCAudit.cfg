SPECIFICATION Spec
CONSTANTS
  cable = cable  phone = phone  u1 = u1  u2 = u2  u3 = u3  u4 = u4  shelf = shelf  store = store
  c1 = c1  c2 = c2  v1 = v1  h1 = h1  h2 = h2  e1 = e1  g1 = g1  m1 = m1  m2 = m2
  a1 = a1  k1 = k1  s1 = s1  s2 = s2
  stockTake = stockTake  tag1 = tag1  tag2 = tag2  tag3 = tag3
  n1 = n1  w1 = w1  d1 = d1  d2 = d2  x1 = x1
  r1 = r1  r2 = r2  r3 = r3  k2 = k2  b1 = b1  q1 = q1  key1 = key1  key2 = key2
  hub1 = hub1  hub2 = hub2  hub3 = hub3  hub4 = hub4  hub5 = hub5  hub6 = hub6
  NoReq = NoReq  NoLocation = NoLocation  NoUnit = NoUnit  NoSale = NoSale  NoText = NoText
  NoKey = NoKey  NoProduct = NoProduct
  Product = {phone}
  Serialized = {phone}
  Unit = {u1, u2, u3, u4}
  Location = {shelf, store}
  Sale = {s1}
  Audit = {stockTake}
  IdempotencyKey = {}
  Text = {"cable", "phone", "telephone", "hub", "0001"}
  SupplierName = {}
  OpeningSuppliers = {}
  Tag = {tag1, tag2, tag3}
  Req = {c1, v1, g1, n1, w1, d1, d2, x1}
  Checkouts = {c1}
  Voids = {v1}
  Changes = {}
  Edits = {}
  Registrations = {g1}
  Records = {}
  Archivals = {}
  ProductCreations = {}
  ProductUpdates = {}
  Receipts = {}
  DashboardReads = {}
  Creations = {n1}
  Scanners = {w1}
  Completions = {d1, d2}
  Cancellations = {x1}
  ProductOf <- MCProductOf
  Opening <- MCOpening
  OpeningUnit <- MCOpeningAudit
  Price <- MCPrice
  OpeningCard <- MCOpeningCard
  ProductBodies <- MCProductBodies
  DrawnProduct <- MCDrawnProduct
  ReceiptOf <- MCReceiptOf
  DrawnFor <- MCDrawnFor
  GeneratedSku <- MCGeneratedSku
  SaleOf <- MCSaleOf
  VoidTarget <- MCVoidTarget
  Payloads <- MCUnitSale
  ChangeBodies <- MCChangeBodies
  EditBodies <- MCMoveToStore
  RegistrationOf <- MCRegistrationOne
  RecordBodies <- MCRecordBodies
  AuditLocation <- MCAuditLocation
  UnitOfTag <- MCUnitOfTag
  AuditOf <- MCAuditOf
  TagsOf <- MCTagsOf
  ProductRank <- MCProductRank
INVARIANTS StockInv HistoryInv QuantityCountsUnits
PROPERTIES AuditSparesOthers OneReconciliation
