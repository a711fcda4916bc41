SPECIFICATION TillsSpec
CONSTANTS
  cable = cable  phone = phone  u1 = u1  u2 = u2  shelf = shelf  store = store
  c1 = c1  c2 = c2  c3 = c3  v1 = v1  v2 = v2  s1 = s1  s2 = s2  s3 = s3
  NoReq = NoReq  NoLocation = NoLocation  NoUnit = NoUnit  NoSale = NoSale  NoText = NoText
  MaxItems = 3
  CartItem <- MCCartItem
  Product = {cable, phone}
  Serialized = {phone}
  Unit = {u1, u2}
  Location = {shelf, store}
  Sale = {s1, s2, s3}
  Audit = {}
  IdempotencyKey = {}
  Text = {"cable", "phone"}
  Req = {c1, c2, c3, v1, v2}
  Checkouts = {c1, c2, c3}
  Voids = {v1, v2}
  ProductOf <- MCProductOf
  Opening <- MCOpening
  OpeningUnit <- MCOpeningUnit
  Price <- MCPrice
  OpeningCard <- MCOpeningCard
  SaleOf <- MCSaleOf
  VoidTarget <- MCOneVoidEach
  Payloads <- MCPayloads
INVARIANTS TypeOK LedgerBalanced UnitSoldOnce SaleBooked ReturnedWhereSold QuantityCountsUnits
           OffersMatchTill NormalizedKeepsOrder
