------------------------------- MODULE Tenants -------------------------------
(***************************************************************************)
(* Organizations and their accounts: provisioning by the operator, members *)
(* that come and go, sign-in, entitlements over time, and the deletion of a*)
(* tenant, one statement at a time, while the tenants go on working.  A    *)
(* deletion sees what the others have committed; what it has deleted is not*)
(* seen gone before it commits, but nothing that refers to it can be       *)
(* inserted or changed any more.                                           *)
(***************************************************************************)
EXTENDS FiniteSets, Naturals, Sequences

CONSTANTS
  Org, User,       \* rows, those not yet created included
  Business,        \* the rows of the tenants' business tables
  BusinessTable, OrgOf,  \* the table and the tenant of each business row
  Needs,           \* the rows and users a business row refers to
  DefaultTypes,    \* the movement types a new tenant starts with
  Slug,            \* the slug of each organization
  NoOrg, Never, SignedOut,
  OpeningOrgs, OpeningUsers, OpeningMembers, OpeningRows,
  OpeningLegacy,   \* users.organizationId, which only old accounts have
  Founded,         \* the organizations createOrganization may create, and their owners
  Recruits,        \* the memberships createUser and createOrganizationUser may create
  Joins,           \* the memberships an accepted invitation may create
  Inserts,         \* the business rows the tenants may create
  Wipes, WipedOrg, \* the requests to delete an organization
  OrgBodies,       \* what updateOrganization may be asked
  Horizon          \* bound on the clock, in days

VARIABLES
  orgs, users, legacy, members, rows,   \* the committed rows
  session,         \* the active organization of each user's last session
  clock,
  daysLeft,        \* ghost: the days each trial still has to run
  wipe             \* the local variables of each deletion

tenantVars == <<orgs, users, legacy, members, rows, session, clock, daysLeft, wipe>>

(* The order in which deleteOrganization empties the tables.               *)
DELETED_TABLES ==
  <<"inventoryAuditScan", "inventoryAudit", "stockMovement", "stockMovementType", "saleItem",
    "sale", "productUnit", "product", "supplierLink", "supplier", "location", "category">>

(* Mutant: the movement types are deleted before the movements.            *)
TypesFirst ==
  <<"inventoryAuditScan", "inventoryAudit", "stockMovementType", "stockMovement", "saleItem",
    "sale", "productUnit", "product", "supplierLink", "supplier", "location", "category">>

DeletionOrder == DELETED_TABLES

(* The foreign keys that delete the child with its parent; the others of   *)
(* Needs restrict, and so does every table's key to its organization.      *)
CascadingKey ==
  {<<"stockMovement", "product">>, <<"productUnit", "product">>, <<"saleItem", "sale">>,
   <<"supplierLink", "supplier">>, <<"inventoryAuditScan", "inventoryAudit">>}

(* All the foreign keys between business tables that restrict or cascade,  *)
(* and the tables with a restricting key to users; the other keys are set  *)
(* null, and neither stop a deletion nor follow it.                        *)
ForeignKey ==
  CascadingKey \cup
  {<<"stockMovement", "stockMovementType">>, <<"product", "category">>, <<"saleItem", "product">>,
   <<"inventoryAudit", "location">>}

UserKey == {"stockMovement", "sale", "inventoryAudit"}

(* used: its id has been drawn, and is never drawn again.                  *)
OrgRow ==
  [used: BOOLEAN, there: BOOLEAN, isActive: BOOLEAN, trialEndsAt: Nat \cup {Never},
   plan: {"BASIC", "PRO"}]
Member == [org: Org, user: User, role: {"owner", "member"}]

(* UpdateOrganizationDTO: what it sends of an organization.                *)
OrgBody(body) ==
  /\ "isActive" \in DOMAIN body => body.isActive \in BOOLEAN
  /\ "plan" \in DOMAIN body => body.plan \in {"BASIC", "PRO"}
  /\ "trialEndsAt" \in DOMAIN body => body.trialEndsAt \in Nat \cup {Never}
  /\ "trialDays" \in DOMAIN body => body.trialDays \in Nat

(* A deletion: what it has deleted, the accounts it will delete, what came *)
(* after it began (ghosts), and what stopped it.                           *)
WipeRow ==
  [pc: {"idle", "rows", "sort", "accounts", "tenant", "purge", "ok", "failed"},
   at: 1 .. Len(DeletionOrder) + 1, gone: SUBSET Business, victims: SUBSET User,
   fresh: SUBSET Business, late: SUBSET Member, blockers: SUBSET Business]

ASSUME TenantAssumption ==
  /\ NoOrg \notin Org /\ SignedOut \notin Org \cup {NoOrg} /\ Never \notin Nat
  /\ Business \cap User = {} /\ Horizon \in Nat
  /\ OrgOf \in [Business -> Org] /\ Slug \in [Org -> STRING]
  /\ \A x \in Business : /\ Needs[x] \subseteq Business \cup User
                         /\ \A y \in Needs[x] \cap Business : OrgOf[y] = OrgOf[x]
  /\ DefaultTypes \in [Org -> SUBSET Business]
  /\ \A o \in Org : \A x \in DefaultTypes[o] : OrgOf[x] = o
  /\ OpeningOrgs \subseteq Org /\ OpeningUsers \subseteq User
  /\ OpeningMembers \subseteq Member
  /\ OpeningRows \subseteq {x \in Business : OrgOf[x] \in OpeningOrgs}
  /\ \A o \in OpeningOrgs : \E m \in OpeningMembers : m.org = o /\ m.role = "owner"
  /\ \A m \in OpeningMembers : m.org \in OpeningOrgs /\ m.user \in OpeningUsers
  /\ OpeningLegacy \in [User -> Org \cup {NoOrg}]
  /\ \A m \in Founded : m \in Member /\ m.role = "owner"
  /\ \A m \in Recruits \cup Joins : m \in Member /\ m.role = "member"
  /\ \A body \in OrgBodies : OrgBody(body)
  /\ Inserts \subseteq Business /\ WipedOrg \in [Wipes -> Org]

(* What the schema lets a row refer to.                                    *)
ASSUME SchemaAssumption ==
  \A x \in Business :
     /\ BusinessTable[x] = "receiptImport" \/ \E i \in 1 .. Len(DeletionOrder) : BusinessTable[x] = DeletionOrder[i]
     /\ \A y \in Needs[x] \cap Business : <<BusinessTable[x], BusinessTable[y]>> \in ForeignKey
     /\ Needs[x] \cap User # {} => BusinessTable[x] \in UserKey
     /\ \A o \in Org : x \in DefaultTypes[o] => BusinessTable[x] = "stockMovementType"

InitTenants ==
  /\ orgs = [o \in Org |->
               [used |-> o \in OpeningOrgs, there |-> o \in OpeningOrgs, isActive |-> TRUE,
                trialEndsAt |-> Never, plan |-> "BASIC"]]
  /\ users = OpeningUsers
  /\ legacy = OpeningLegacy
  /\ members = OpeningMembers
  /\ rows = OpeningRows
  /\ session = [u \in User |-> SignedOut]
  /\ clock = 0
  /\ daysLeft = [o \in Org |-> Never]
  /\ wipe = [r \in Wipes |->
               [pc |-> "idle", at |-> 1, gone |-> {}, victims |-> {},
                fresh |-> {}, late |-> {}, blockers |-> {}]]

Living == {o \in Org : orgs[o].there}

(* What some deletion has deleted and not committed.                       *)
Doomed ==
  UNION {wipe[r].gone \cup (IF wipe[r].pc = "tenant" THEN wipe[r].victims ELSE {}) : r \in Wipes}

-----------------------------------------------------------------------------
(* createOrganization: one transaction; the unique constraints on slug and *)
(* email turn a race into a refusal.  No id of a user is drawn again.      *)
TrialEnd(days) == IF days > 0 THEN clock + days ELSE Never

DaysOf(days) == IF days > 0 THEN days ELSE Never

NewUser(u) == u \notin users /\ \A r \in Wipes : u \notin wipe[r].victims

CreateOrganization(m, days, plan) ==
  /\ ~ orgs[m.org].used /\ NewUser(m.user)
  /\ \A o \in Living : Slug[o] # Slug[m.org]
  /\ orgs' = [orgs EXCEPT ![m.org] =
                [used |-> TRUE, there |-> TRUE, isActive |-> TRUE, trialEndsAt |-> TrialEnd(days),
                 plan |-> plan]]
  /\ users' = users \cup {m.user}
  /\ members' = members \cup {m}
  /\ rows' = rows \cup DefaultTypes[m.org]
  /\ daysLeft' = [daysLeft EXCEPT ![m.org] = DaysOf(days)]
  /\ UNCHANGED <<legacy, session, clock, wipe>>

(* updateOrganization: only what is sent is changed, and an explicit end of*)
(* the trial wins over its length.                                         *)
Updated(org, body) ==
  [org EXCEPT
     !.isActive = IF "isActive" \in DOMAIN body THEN body.isActive ELSE @,
     !.plan = IF "plan" \in DOMAIN body THEN body.plan ELSE @,
     !.trialEndsAt = IF "trialEndsAt" \in DOMAIN body THEN body.trialEndsAt
                     ELSE IF "trialDays" \in DOMAIN body THEN TrialEnd(body.trialDays) ELSE @]

DaysTo(end) == IF end = Never THEN Never ELSE IF end > clock THEN end - clock ELSE 0

UpdateOrganization(o, body) ==
  /\ orgs[o].there
  /\ orgs' = [orgs EXCEPT ![o] = Updated(@, body)]
  /\ daysLeft' = [daysLeft EXCEPT ![o] =
                    IF "trialEndsAt" \in DOMAIN body THEN DaysTo(body.trialEndsAt)
                    ELSE IF "trialDays" \in DOMAIN body THEN DaysOf(body.trialDays) ELSE @]
  /\ UNCHANGED <<users, legacy, members, rows, session, clock, wipe>>

(* Memberships that deletions which have sorted their accounts do not know.*)
LateFor(m) ==
  [r \in Wipes |->
     IF wipe[r].pc \in {"accounts", "tenant"} THEN [wipe[r] EXCEPT !.late = @ \cup {m}]
     ELSE wipe[r]]

(* provisionOrganizationUser, for createUser and createOrganizationUser.   *)
ProvisionOrganizationUser(m) ==
  /\ NewUser(m.user) /\ orgs[m.org].there
  /\ users' = users \cup {m.user}
  /\ members' = members \cup {m}
  /\ wipe' = LateFor(m)
  /\ UNCHANGED <<orgs, legacy, rows, session, clock, daysLeft>>

(* The organization plugin: an invitation is accepted.                     *)
Join(m) ==
  /\ m.user \in users \ Doomed /\ orgs[m.org].there
  /\ ~ \E x \in members : x.org = m.org /\ x.user = m.user
  /\ members' = members \cup {m}
  /\ wipe' = LateFor(m)
  /\ UNCHANGED <<orgs, users, legacy, rows, session, clock, daysLeft>>

(* The organization plugin: an owner removes another member, whose session *)
(* keeps its active organization.                                          *)
OtherOwner(m) == \E x \in members : x.org = m.org /\ x.user # m.user /\ x.role = "owner"

RemoveMember(m) ==
  /\ OtherOwner(m) /\ m.user \notin Doomed
  /\ members' = members \ {m}
  /\ UNCHANGED <<orgs, users, legacy, rows, session, clock, daysLeft, wipe>>

(* The organization plugin: a member leaves, but not the only owner.       *)
Leave(m) ==
  /\ m.role = "owner" => OtherOwner(m)
  /\ m.user \notin Doomed
  /\ members' = members \ {m}
  /\ session' = [session EXCEPT ![m.user] = IF @ = m.org THEN NoOrg ELSE @]
  /\ UNCHANGED <<orgs, users, legacy, rows, clock, daysLeft, wipe>>

(* sessionHooks: a new session keeps the organization it brings; one that  *)
(* brings none gets "the user's first membership", or none.                *)
FirstMembership(u) ==
  LET orgsOf == {m.org : m \in {x \in members : x.user = u}}
  IN  IF orgsOf = {} THEN {NoOrg} ELSE orgsOf

SignIn(u, given) ==
  /\ u \in users
  /\ \E o \in IF given \in Org THEN {given} ELSE FirstMembership(u) :
        session' = [session EXCEPT ![u] = o]
  /\ UNCHANGED <<orgs, users, legacy, members, rows, clock, daysLeft, wipe>>

(* What a new session brings: nothing, or what the one it renews worked in.*)
Carried(u) == {NoOrg} \cup ({session[u]} \cap Org)

(* A tenant's own handlers insert a row; row-level security gives it the   *)
(* session's organization.                                                 *)
InsertRow(x) ==
  /\ x \notin rows
  /\ \E u \in users : session[u] = OrgOf[x] /\ Needs[x] \cap User \subseteq {u}
  /\ orgs[OrgOf[x]].there /\ Needs[x] \subseteq (rows \cup users) \ Doomed
  /\ rows' = rows \cup {x}
  /\ wipe' = [r \in Wipes |-> IF wipe[r].pc = "idle" THEN wipe[r]
                              ELSE [wipe[r] EXCEPT !.fresh = @ \cup {x}]]
  /\ UNCHANGED <<orgs, users, legacy, members, session, clock, daysLeft>>

Tick ==
  /\ clock < Horizon
  /\ clock' = clock + 1
  /\ daysLeft' = [o \in Org |-> IF daysLeft[o] \in Nat \ {0} THEN daysLeft[o] - 1 ELSE daysLeft[o]]
  /\ UNCHANGED <<orgs, users, legacy, members, rows, session, wipe>>

-----------------------------------------------------------------------------
(* deleteOrganization                                                      *)
WipeUnchanged == UNCHANGED <<orgs, users, legacy, members, rows, session, clock, daysLeft>>

BeginWipe(r) ==
  /\ wipe[r].pc = "idle"
  /\ wipe' = [wipe EXCEPT ![r].pc = IF orgs[WipedOrg[r]].there THEN "rows" ELSE "failed"]
  /\ WipeUnchanged

(* What a DELETE takes along, and what stops it.                           *)
WithChildren(S) ==
  S \cup {x \in rows : \E y \in Needs[x] \cap S \cap Business :
                         <<BusinessTable[x], BusinessTable[y]>> \in CascadingKey}

Restricting(S, gone) == {x \in rows \ gone : Needs[x] \cap S # {}}

(* The transaction fails: nothing it deleted is gone.                      *)
Failed(r, blockers) == [wipe EXCEPT ![r].pc = "failed", ![r].gone = {}, ![r].blockers = blockers]

EmptyTable(r) ==
  LET o == WipedOrg[r]
      i == wipe[r].at
      S == {x \in rows \ wipe[r].gone : OrgOf[x] = o /\ BusinessTable[x] = DeletionOrder[i]}
      gone == wipe[r].gone \cup WithChildren(S)
  IN  /\ wipe[r].pc = "rows"
      /\ \A q \in Wipes \ {r} : S \cap wipe[q].gone = {}
      /\ wipe' = IF Restricting(S, gone) # {} THEN Failed(r, Restricting(S, gone))
                 ELSE [wipe EXCEPT ![r].gone = gone, ![r].at = i + 1,
                                   ![r].pc = IF i = Len(DeletionOrder) THEN "sort" ELSE "rows"]
      /\ WipeUnchanged

(* Users tied to this org via membership or the legacy column.             *)
Candidates(o) == {m.user : m \in {x \in members : x.org = o}} \cup {u \in users : legacy[u] = o}

(* Mutant: nobody is looked for in another organization.                   *)
NotShared(o) == {}

(* "member elsewhere, or legacy column points elsewhere"                   *)
Shared(o) ==
  {u \in Candidates(o) : \/ \E m \in members : m.user = u /\ m.org # o
                         \/ legacy[u] \notin {o, NoOrg}}

SortAccounts(r) ==
  /\ wipe[r].pc = "sort"
  /\ wipe' = [wipe EXCEPT ![r].victims = Candidates(WipedOrg[r]) \ Shared(WipedOrg[r]),
                          ![r].pc = "accounts"]
  /\ WipeUnchanged

DeleteAccounts(r) ==
  LET victims == wipe[r].victims
  IN  /\ wipe[r].pc = "accounts"
      /\ \A q \in Wipes \ {r} : wipe[q].pc = "tenant" => victims \cap wipe[q].victims = {}
      /\ wipe' = IF Restricting(victims, wipe[r].gone) # {}
                   THEN Failed(r, Restricting(victims, wipe[r].gone))
                   ELSE [wipe EXCEPT ![r].pc = "tenant"]
      /\ WipeUnchanged

(* The organization's own row, with the memberships that cascade, and the  *)
(* commit: every business row left restricts it.  The legacy column, which *)
(* nothing sets any more, is severed with the accounts and is seen so from *)
(* the commit on.                                                          *)
DeleteTenant(r) ==
  LET o == WipedOrg[r]
      left == {x \in rows \ wipe[r].gone : OrgOf[x] = o}
      victims == wipe[r].victims
  IN  /\ wipe[r].pc = "tenant"
      /\ IF ~ orgs[o].there \/ left # {}
           THEN wipe' = Failed(r, left) /\ WipeUnchanged
           ELSE /\ orgs' = [orgs EXCEPT ![o].there = FALSE]
                /\ users' = users \ victims
                /\ members' = {m \in members : m.org # o /\ m.user \notin victims}
                /\ legacy' = [u \in User |-> IF legacy[u] = o THEN NoOrg ELSE legacy[u]]
                /\ rows' = rows \ wipe[r].gone
                /\ session' = [u \in User |-> IF u \in victims THEN SignedOut ELSE session[u]]
                /\ wipe' = [wipe EXCEPT ![r].pc = "purge", ![r].gone = {}]
                /\ UNCHANGED <<clock, daysLeft>>

(* A timeout, a lost connection or the end of the process.                 *)
AbortWipe(r) ==
  /\ wipe[r].pc \in {"rows", "sort", "accounts", "tenant"}
  /\ wipe' = Failed(r, {})
  /\ WipeUnchanged

WipeNext ==
  \E r \in Wipes :
     \/ BeginWipe(r) \/ EmptyTable(r) \/ SortAccounts(r) \/ DeleteAccounts(r)
     \/ DeleteTenant(r) \/ AbortWipe(r)

TenantNext ==
  \/ \E m \in Founded, days \in {0, 1}, plan \in {"BASIC", "PRO"} :
        CreateOrganization(m, days, plan)
  \/ \E o \in Org, body \in OrgBodies : UpdateOrganization(o, body)
  \/ \E m \in Recruits : ProvisionOrganizationUser(m)
  \/ \E m \in Joins : Join(m)
  \/ \E m \in members : RemoveMember(m) \/ Leave(m)
  \/ \E u \in User : \E given \in Carried(u) : SignIn(u, given)
  \/ \E x \in Inserts : InsertRow(x)
  \/ Tick
  \/ WipeNext

-----------------------------------------------------------------------------
(* Mutant: a trial lasts a day longer than it says.                        *)
TrialLongOver(org) == org.trialEndsAt # Never /\ org.trialEndsAt < clock

(* EntitlementsService.resolve: what an organization, or none, is allowed. *)
TrialExpired(org) == org.trialEndsAt # Never /\ org.trialEndsAt <= clock

Resolve(o) ==
  IF o = NoOrg THEN [plan |-> "PRO", locked |-> FALSE]
  ELSE IF ~ orgs[o].there THEN [plan |-> "BASIC", locked |-> FALSE]
  ELSE [plan |-> orgs[o].plan, locked |-> TrialExpired(orgs[o]) \/ ~ orgs[o].isActive]

-----------------------------------------------------------------------------
TypeOKTenants ==
  /\ orgs \in [Org -> OrgRow] /\ users \subseteq User /\ members \subseteq Member
  /\ legacy \in [User -> Org \cup {NoOrg}] /\ rows \subseteq Business
  /\ session \in [User -> Org \cup {NoOrg, SignedOut}] /\ clock \in 0 .. Horizon
  /\ daysLeft \in [Org -> Nat \cup {Never}]
  /\ wipe \in [Wipes -> WipeRow]

(* "Its first owner" stays with every tenant: no deletion of another one,  *)
(* whoever joins it meanwhile, takes the account that owns it.             *)
EveryTenantOwned == \A o \in Living : \E m \in members : m.org = o /\ m.role = "owner"

(* "Only org-exclusive accounts are deleted": an account goes with the last*)
(* tenant it belongs to, unless it joined another one after the deletion   *)
(* had sorted the accounts.                                                *)
OnlyExclusiveAccountsGo ==
  [][\A r \in Wipes : wipe[r].pc = "tenant" /\ wipe'[r].pc = "purge" =>
       \A m \in members : m.user \in wipe[r].victims /\ m.org # WipedOrg[r] =>
          m \in wipe[r].late]_tenantVars

(* "Children before parents so no RESTRICT foreign key blocks the delete": *)
(* no row of the tenant's own stops its deletion but one that came after it*)
(* began, or a receipt import, whose table is not emptied; and no row of   *)
(* another tenant but one that names an account which does not belong to   *)
(* that tenant any more, or joined it after the accounts were sorted.      *)
BlockersExplained ==
  [][\A r \in Wipes : \A x \in wipe'[r].blockers \ wipe[r].blockers :
       \/ x \in wipe[r].fresh
       \/ OrgOf[x] = WipedOrg[r] /\ BusinessTable[x] = "receiptImport"
       \/ /\ OrgOf[x] # WipedOrg[r]
          /\ \E u \in Needs[x] \cap wipe[r].victims :
                \A m \in members : m.user = u /\ m.org = OrgOf[x] => m \in wipe[r].late]_tenantVars

(* The same sentence as it stands: nothing that was there when a deletion  *)
(* began stops it.                                                         *)
NothingBlocks == \A r \in Wipes : wipe[r].blockers \subseteq wipe[r].fresh

(* A tenant is locked while it is switched off and from the day its trial  *)
(* has run out, whatever is done to its plan, its trial and the clock: the *)
(* days are counted one by one, and no end of a trial is compared.         *)
TrialsRunOut ==
  \A o \in Living : Resolve(o).locked <=> ~ orgs[o].isActive \/ daysLeft[o] = 0
=============================================================================
