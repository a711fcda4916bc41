----------------------------- MODULE MCBackOffice -----------------------------
(***************************************************************************)
(* Small instances of what surrounds the stock: reference data, the        *)
(* identifiers of units, and the tenants with their photos.  The three     *)
(* share no table, so a behaviour runs one of them.                        *)
(***************************************************************************)
EXTENDS ReferenceData, UnitIdentifiers, ProductImages

VARIABLE part

CONSTANTS drinks, shoes, snacks, store, archive, shop, shop2, webLink, custom,
  p1, p2, p3, p4, p5, p6, t1, t2, t3, u1, u2, u3, tag1, tag2, tag3, shelf,
  acme, bolt, core, ann, bob, cy, dan, dock, eve, w1, w2, w3, w4, up1, rm1,
  aType, aPhone, aSold, aSold2, aReceipt, bType, bPhone, cType, dReceipt

(* Names in two cases, and the keys of two system types.                   *)
MCFold == [w \in Word |-> IF w = "Drinks" THEN "drinks" ELSE w]
MCTableOf ==
  [e \in Entry |->
     CASE e \in {drinks, shoes, snacks} -> "category" [] e \in {store, archive} -> "location"
       [] e \in {shop, shop2} -> "supplier" [] e = webLink -> "link" [] OTHER -> "type"]
LiveRow(key) ==
  [there |-> TRUE, key |-> key, parent |-> NoEntry, effect |-> "INCREASE", isArchived |-> FALSE]
MCOpeningEntries ==
  [e \in Entry \ SystemType |->
     CASE e = drinks -> LiveRow("drinks")
       [] e = store -> LiveRow("drinks")
       [] e = shop -> LiveRow("drinks")
       [] OTHER -> Uncreated]
MCDrawnEntry ==
  [r \in EntryCreations |->
     CASE r = p1 -> shoes [] r = p2 -> snacks [] r = p3 -> archive [] r = p4 -> shop2
       [] r = p5 -> webLink [] OTHER -> custom]

MCOpeningLabels ==
  [u \in Unit |->
     [there |-> u # u3, status |-> "IN_STOCK",
      data |-> [f \in Field |->
                  CASE u = u1 /\ f = "assetTag" -> tag1 [] u = u2 /\ f = "rfidTag" -> tag2
                    [] u # u3 /\ f = "locationId" -> shelf [] OTHER -> Null]]]
MCRegistrationInputs ==
  {<<[assetTag |-> tag3, rfidTag |-> Spaces]>>, <<[serialNumber |-> tag2]>>,
   <<[rfidTag |-> Spaces]>>}
MCPatchBodies ==
  {[serialNumber |-> tag3, locationId |-> shelf],
   [rfidTag |-> tag1, assetTag |-> Null, locationId |-> shelf],
   [serialNumber |-> Null, locationId |-> shelf], [rfidTag |-> tag3], [locationId |-> shelf]}
MCDrawnUnits == [r \in LabelRegistrations |-> <<u3>>]

(* Two tenants that share an account, one that has imported a receipt, and *)
(* one to come; an account that only the legacy column ties to a tenant.   *)
Belongs(o, u, role) == [org |-> o, user |-> u, role |-> role]
MCOpeningMembers ==
  {Belongs(acme, ann, "owner"), Belongs(bolt, bob, "owner"), Belongs(acme, bob, "owner"),
   Belongs(dock, eve, "owner")}
MCOpeningLegacy == [u \in User |-> IF u \in {cy, eve} THEN acme ELSE NoOrg]
MCFounded == {Belongs(core, dan, "owner")}
MCRecruits == {Belongs(acme, dan, "member")}
MCJoins == {Belongs(bolt, ann, "member")}
MCSlug == [o \in Org |-> IF o \in {core, bolt} THEN "bolt" ELSE IF o = acme THEN "acme" ELSE "dock"]
MCBusinessTable ==
  [x \in Business |->
     CASE x \in {aType, bType, cType} -> "stockMovementType" [] x \in {aPhone, bPhone} -> "product"
       [] x \in {aReceipt, dReceipt} -> "receiptImport" [] OTHER -> "stockMovement"]
MCOrgOf ==
  [x \in Business |-> CASE x \in {bType, bPhone} -> bolt [] x = cType -> core
                       [] x = dReceipt -> dock [] OTHER -> acme]
MCNeeds ==
  [x \in Business |-> CASE x = aSold -> {aType, aPhone, ann} [] x = aSold2 -> {aType, aPhone, bob}
                       [] OTHER -> {}]
MCDefaultTypes == [o \in Org |-> IF o = core THEN {cType} ELSE {}]
MCOrgBodies ==
  {[trialDays |-> 1], [trialEndsAt |-> 1, trialDays |-> 0], [trialDays |-> 0, isActive |-> FALSE],
   [trialEndsAt |-> Never, trialDays |-> 1], [isActive |-> TRUE, plan |-> "PRO"]}
MCWipedOrg == [r \in Wipes |-> CASE r = w2 -> bolt [] r = w4 -> dock [] OTHER -> acme]
MCImageTarget == [r \in Uploads \cup Removals |-> IF r = rm1 THEN aPhone ELSE bPhone]

-----------------------------------------------------------------------------
(* The requests, and the other events, that a behaviour of each part sees. *)
Sees ==
  [categories |-> {p1, p2, t1, t2}, locations |-> {p3, t1, t2}, suppliers |-> {p4, p5, t2},
   types |-> {p6, t1, t2}, patches |-> {p1, t1, t2}, tags |-> {p1, t1, t3, "units"},
   deletions |-> {w1, w2, "accounts"}, repeated |-> {w1, w3}, imports |-> {w4},
   leavers |-> {w2, "departures", "rows"}, moves |-> {w2, "accounts", "departures"},
   writes |-> {w1, "accounts", "rows"}, photos |-> {w2, up1, rm1}, trials |-> {"plans", "accounts"}]

RefPart == {"categories", "locations", "suppliers", "types"}
LabelPart == {"patches", "tags"}
TenantPart == {"deletions", "leavers", "moves", "repeated", "imports", "writes", "photos", "trials"}

(* A request the part does not see has been refused before.                *)
OfficeInit ==
  /\ part \in DOMAIN Sees
  /\ entries = InitEntries
  /\ clerk = [r \in RefReq |->
                IF part \in RefPart /\ r \in Sees[part] THEN [pc |-> "idle"] ELSE Refuse]
  /\ labels = OpeningLabels
  /\ labelling = [r \in LabelReq |->
                    IF part \in LabelPart /\ r \in Sees[part] THEN [pc |-> "idle"] ELSE Refused]
  /\ InitTenants /\ InitImages

OfficeVars == <<refVars, labelVars, tenantVars, imageVars, part>>

Unsent ==
  /\ \A r \in Wipes \ Sees[part] : wipe'[r].pc = "idle"
  /\ \A r \in (Uploads \cup Removals) \ Sees[part] : photo'[r] = "idle"

(* Nobody updates these tenants.                                           *)
Kept(O) == \A o \in O : orgs'[o].there = orgs[o].there => orgs'[o] = orgs[o]

OfficeNext ==
  /\ UNCHANGED part
  /\ \/ part \in RefPart /\ RefNext /\ UNCHANGED <<labelVars, tenantVars, imageVars>>
     \/ part \in LabelPart /\ LabelNext /\ UNCHANGED <<refVars, tenantVars, imageVars>>
     \/ part \in TenantPart /\ TenantsNext /\ UNCHANGED <<refVars, labelVars>>
  /\ Unsent
  /\ "units" \in Sees[part] \/ \A u \in Unit : labels'[u].status = labels[u].status
  /\ Kept(IF "plans" \in Sees[part] THEN {bolt, dock} ELSE Org)
  /\ "plans" \notin Sees[part] => clock' = clock
  /\ "accounts" \notin Sees[part] => members' \subseteq members
  /\ "departures" \notin Sees[part] =>
       /\ members \subseteq members' \/ orgs' # orgs
       /\ \A u \in User : session'[u] \in {session[u], SignedOut} \/ session[u] = SignedOut
  /\ "rows" \notin Sees[part] =>
       /\ rows' \subseteq rows \/ orgs' # orgs
       /\ \A u \in User : session'[u] \in {session[u], SignedOut}

OfficeSpec == OfficeInit /\ [][OfficeNext]_OfficeVars

OfficeTypeOK == TypeOKRef /\ TypeOKLabels /\ TypeOKTenants /\ TypeOKImages
=============================================================================
