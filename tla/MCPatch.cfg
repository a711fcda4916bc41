SPECIFICATION OfficeSpec
CONSTANTS
  drinks = drinks  snacks = snacks  shop2 = shop2  p4 = p4  p5 = p5  p6 = p6  shoes = shoes
  store = store  archive = archive  shop = shop  webLink = webLink  custom = custom  p1 = p1
  p2 = p2  p3 = p3  t1 = t1  t2 = t2  t3 = t3  u1 = u1  u2 = u2  u3 = u3  tag1 = tag1
  tag2 = tag2  tag3 = tag3  shelf = shelf  acme = acme  bolt = bolt  core = core  ann = ann
  bob = bob  cy = cy  dan = dan  w1 = w1  w2 = w2  w3 = w3  w4 = w4  dock = dock  eve = eve
  dReceipt = dReceipt  up1 = up1  rm1 = rm1  aType = aType  aPhone = aPhone  aSold = aSold
  aSold2 = aSold2  aReceipt = aReceipt  bType = bType  bPhone = bPhone  cType = cType
  NoWord = NoWord  Blank = Blank  NoEntry = NoEntry  Null = Null  Spaces = Spaces  NoOrg = NoOrg
  Never = Never  SignedOut = SignedOut
  Entry = {"INITIAL", "PURCHASE", "SALE", "ADJUSTMENT", "RETURN",
           drinks, shoes, snacks, store, archive, shop, shop2, webLink, custom}
  Asked = {"SALE", "drinks", "Drinks"}
  Word = {"INITIAL", "PURCHASE", "SALE", "ADJUSTMENT", "RETURN", "drinks", "Drinks"}
  EntryCreations = {p1, p2, p3, p4, p5, p6}
  EntryUpdates = {t1}
  EntryArchivals = {t2}
  TableOf <- MCTableOf
  Fold <- MCFold
  OpeningEntries <- MCOpeningEntries
  DrawnEntry <- MCDrawnEntry
  Unit = {u1, u2, u3}
  Tag = {tag1, tag2, tag3}
  Place = {shelf}
  LabelRegistrations = {p1}
  Patches = {t1, t2}
  TagWrites = {t3}
  OpeningLabels <- MCOpeningLabels
  RegistrationInputs <- MCRegistrationInputs
  PatchBodies <- MCPatchBodies
  DrawnUnits <- MCDrawnUnits
  Org = {acme, bolt, core, dock}
  User = {ann, bob, cy, dan, eve}
  Business = {aType, aPhone, aSold, aSold2, aReceipt, bType, bPhone, cType, dReceipt}
  OpeningOrgs = {acme, bolt, dock}
  OpeningUsers = {ann, bob, cy, eve}
  OpeningRows = {aType, aPhone, aSold, bType, bPhone, dReceipt}
  Inserts = {aSold2, aReceipt}
  Wipes = {w1, w2, w3, w4}
  Horizon = 2
  BusinessTable <- MCBusinessTable
  OrgOf <- MCOrgOf
  Needs <- MCNeeds
  DefaultTypes <- MCDefaultTypes
  Slug <- MCSlug
  OpeningMembers <- MCOpeningMembers
  OpeningLegacy <- MCOpeningLegacy
  Founded <- MCFounded
  Recruits <- MCRecruits
  Joins <- MCJoins
  OrgBodies <- MCOrgBodies
  WipedOrg <- MCWipedOrg
  Uploads = {up1}
  Removals = {rm1}
  ImageTarget <- MCImageTarget
  OpeningImages = {aPhone, bPhone}
PROPERTIES PatchSparesUnsent
CHECK_DEADLOCK FALSE
