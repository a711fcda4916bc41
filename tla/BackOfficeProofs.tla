---------------------------- MODULE BackOfficeProofs ----------------------------
(***************************************************************************)
(* What surrounds the stock: reference data, the identifiers of units, and *)
(* the tenants with their photos, each with its inductive invariant.       *)
(***************************************************************************)
EXTENDS MCBackOffice, TLAPS

-----------------------------------------------------------------------------
(***************************************************************************)
(* The system movement types keep their row, their effect and their place  *)
(* among the live rows, whatever the clerks do: no request ever holds a    *)
(* plan for one of them that does more than rename it.                     *)
(***************************************************************************)

(* A system type as it was seeded, but for its name.                       *)
AsSeeded(key) ==
  /\ entries[key] \in EntryRow
  /\ entries[key].there /\ ~ entries[key].isArchived
  /\ entries[key].effect = DEFAULT_STOCK_MOVEMENT_TYPES[key]

(* A plan that leaves what makes a system type.                            *)
Harmless(plan) ==
  plan.entry \in SystemType =>
    /\ DOMAIN plan.data \subseteq {"key", "effect"}
    /\ "effect" \in DOMAIN plan.data =>
          plan.data["effect"] = DEFAULT_STOCK_MOVEMENT_TYPES[plan.entry]

(* A plan that gives columns values of their own type.                     *)
WellTyped(plan) ==
  /\ plan.entry \in Entry
  /\ DOMAIN plan.data \subseteq {"there", "key", "parent", "effect", "isArchived"}
  /\ "there" \in DOMAIN plan.data => plan.data["there"] \in BOOLEAN
  /\ "key" \in DOMAIN plan.data => plan.data["key"] \in Word \cup {NoWord, Blank}
  /\ "parent" \in DOMAIN plan.data => plan.data["parent"] \in Entry \cup {NoEntry}
  /\ "effect" \in DOMAIN plan.data => plan.data["effect"] \in Effect
  /\ "isArchived" \in DOMAIN plan.data => plan.data["isArchived"] \in BOOLEAN

Sound(plan) == plan.pc = "write" => WellTyped(plan) /\ Harmless(plan)

RefInv ==
  /\ entries \in [Entry -> EntryRow]
  /\ DOMAIN clerk = RefReq
  /\ \A r \in RefReq : Sound(clerk[r])
  /\ \A key \in SystemType : AsSeeded(key)

-----------------------------------------------------------------------------
(* The requests' decisions are sound, table by table.                      *)
LEMMA RefuseSound == Sound(Refuse)
BY DEF Sound, Refuse

(* What a write may give: a name, an effect, a supplier.                   *)
Columns(data) ==
  /\ DOMAIN data \subseteq {"key", "parent", "effect"}
  /\ "key" \in DOMAIN data => data["key"] \in Word \cup {NoWord, Blank}
  /\ "parent" \in DOMAIN data => data["parent"] \in Entry
  /\ "effect" \in DOMAIN data => data["effect"] \in Effect

LEMMA FreshRowSound ==
  ASSUME NEW r \in EntryCreations, NEW data, Columns(data)
  PROVE  Sound(Plan(DrawnEntry[r], Over([there |-> TRUE], data)))
<1> DEFINE all == Over([there |-> TRUE], data)
<1>1. DrawnEntry[r] \in Entry \ SystemType
  BY RefAssumption
<1>2. /\ DOMAIN all \subseteq {"there", "key", "parent", "effect"}
      /\ all["there"] = TRUE
      /\ \A f \in {"key", "parent", "effect"} : f \in DOMAIN all => f \in DOMAIN data /\ all[f] = data[f]
  BY DEF Over, Columns
<1> HIDE DEF all
<1>3. WellTyped(Plan(DrawnEntry[r], all)) /\ Harmless(Plan(DrawnEntry[r], all))
  BY <1>1, <1>2 DEF WellTyped, Harmless, Plan, Columns
<1> QED
  BY <1>3 DEF Sound, all

LEMMA ReactivatedSound ==
  ASSUME NEW e \in Entry \ SystemType, NEW data, Columns(data)
  PROVE  Sound(Plan(e, Over([isArchived |-> FALSE], data)))
<1> DEFINE all == Over([isArchived |-> FALSE], data)
<1>1. /\ DOMAIN all \subseteq {"isArchived", "key", "parent", "effect"}
      /\ all["isArchived"] = FALSE
      /\ \A f \in {"key", "parent", "effect"} : f \in DOMAIN all => f \in DOMAIN data /\ all[f] = data[f]
  BY DEF Over, Columns
<1> HIDE DEF all
<1>2. WellTyped(Plan(e, all)) /\ Harmless(Plan(e, all))
  BY <1>1 DEF WellTyped, Harmless, Plan, Columns
<1> QED
  BY <1>2 DEF Sound, all

LEMMA NewOrReactivatedSound ==
  ASSUME RefInv, NEW r \in EntryCreations, NEW found \in SUBSET Entry, NEW data, Columns(data),
         NEW plan \in NewOrReactivated(r, found, data)
  PROVE  Sound(plan)
<1>1. CASE found = {}
  BY <1>1, FreshRowSound DEF NewOrReactivated
<1>2. CASE found # {}
  <2>1. PICK e \in found :
           plan = IF entries[e].isArchived THEN Plan(e, Over([isArchived |-> FALSE], data)) ELSE Refuse
    BY <1>2 DEF NewOrReactivated
  <2>2. CASE entries[e].isArchived
    <3>1. e \in Entry \ SystemType
      BY <2>2 DEF RefInv, AsSeeded
    <3> QED
      BY <2>1, <2>2, <3>1, ReactivatedSound
  <2>3. CASE ~ entries[e].isArchived
    BY <2>1, <2>3, RefuseSound
  <2> QED
    BY <2>2, <2>3
<1> QED
  BY <1>1, <1>2

LEMMA NamedRowSound ==
  ASSUME NEW r \in EntryCreations, NEW name \in Word \cup {NoWord, Blank}
  PROVE  Sound(Plan(DrawnEntry[r], [there |-> TRUE, key |-> name]))
<1> DEFINE plan == Plan(DrawnEntry[r], [there |-> TRUE, key |-> name])
<1>1. /\ plan.entry \in Entry \ SystemType /\ DOMAIN plan.data = {"there", "key"}
      /\ plan.data["there"] = TRUE /\ plan.data["key"] = name
  BY RefAssumption DEF Plan
<1> HIDE DEF plan
<1>2. WellTyped(plan) /\ Harmless(plan)
  BY <1>1 DEF WellTyped, Harmless
<1> QED
  BY <1>2 DEF Sound, plan

(* An update, of a name and perhaps an effect.                             *)
LEMMA EditSound ==
  ASSUME NEW e \in Entry, NEW data, Columns(data), "parent" \notin DOMAIN data,
         e \in SystemType /\ "effect" \in DOMAIN data =>
           data["effect"] = DEFAULT_STOCK_MOVEMENT_TYPES[e]
  PROVE  Sound(Plan(e, data))
BY DEF Sound, WellTyped, Harmless, Plan, Columns

LEMMA RenamedSound ==
  ASSUME NEW e \in Entry, NEW data, Columns(data), "parent" \notin DOMAIN data,
         e \in SystemType /\ "effect" \in DOMAIN data =>
           data["effect"] = DEFAULT_STOCK_MOVEMENT_TYPES[e],
         NEW found, NEW plan \in Renamed(e, found, data)
  PROVE  Sound(plan)
BY EditSound, RefuseSound DEF Renamed

LEMMA ColumnsOf ==
  /\ \A name \in Word \cup {NoWord, Blank} : Columns([key |-> name])
  /\ \A name \in Word, s \in Entry : Columns([key |-> name, parent |-> s])
  /\ \A name \in Word, effect \in Effect : Columns([key |-> name, effect |-> effect])
BY DEF Columns

-----------------------------------------------------------------------------
LEMMA CreationSound ==
  ASSUME RefInv, NEW r \in EntryCreations, NEW plan \in Creation(r)
  PROVE  Sound(plan)
<1> USE RefAssumption
<1>1. \A table \in RefTable : RowsIn(table) \subseteq Entry /\ LiveIn(table) \subseteq Entry
  BY DEF RowsIn, LiveIn
<1>2. CASE plan \in CreateCategory(r)
  <2>1. PICK name \in Asked : plan \in NewOrReactivated(r, FindCategoryByName(name), [key |-> name])
    BY <1>2 DEF CreateCategory
  <2>2. FindCategoryByName(name) \in SUBSET Entry
    BY DEF FindCategoryByName, RowsIn
  <2> QED
    BY <2>1, <2>2, ColumnsOf, NewOrReactivatedSound
<1>3. CASE plan \in CreateLocation(r)
  <2>1. CASE \E code \in Asked :
                plan \in NewOrReactivated(r, FindLocationByCode(code), [key |-> code])
    <3>1. PICK code \in Asked :
             plan \in NewOrReactivated(r, FindLocationByCode(code), [key |-> code])
      BY <2>1
    <3>2. FindLocationByCode(code) \in SUBSET Entry
      BY DEF FindLocationByCode, RowsIn
    <3> QED
      BY <3>1, <3>2, ColumnsOf, NewOrReactivatedSound
  <2>2. CASE \E code \in {NoWord, Blank} : plan = Plan(DrawnEntry[r], [there |-> TRUE, key |-> code])
    BY <2>2, NamedRowSound
  <2> QED
    BY <1>3, <2>1, <2>2 DEF CreateLocation
<1>4. CASE plan \in CreateSupplier(r)
  <2>1. PICK name \in Asked : plan = Plan(DrawnEntry[r], [there |-> TRUE, key |-> name])
    BY <1>4 DEF CreateSupplier
  <2>2. name \in Word
    OBVIOUS
  <2> QED
    BY <2>1, <2>2, NamedRowSound
<1>5. CASE plan \in CreateSupplierLink(r)
  <2>1. CASE plan = Refuse
    BY <2>1, RefuseSound
  <2>2. CASE \E s \in LiveIn("supplier"), platform \in Asked :
                plan \in NewOrReactivated(r, FindLinkByPlatform(s, platform),
                                          [key |-> platform, parent |-> s])
    <3>1. PICK s \in LiveIn("supplier"), platform \in Asked :
             plan \in NewOrReactivated(r, FindLinkByPlatform(s, platform),
                                       [key |-> platform, parent |-> s])
      BY <2>2
    <3>2. FindLinkByPlatform(s, platform) \in SUBSET Entry /\ s \in Entry
      BY DEF FindLinkByPlatform, RowsIn, LiveIn
    <3> QED
      BY <3>1, <3>2, ColumnsOf, NewOrReactivatedSound
  <2> QED
    BY <1>5, <2>1, <2>2 DEF CreateSupplierLink
<1>6. CASE plan \in CreateStockMovementType(r)
  <2>1. PICK name \in Asked, effect \in Effect :
           plan \in NewOrReactivated(r, FindStockMovementTypeByName(name),
                                     [key |-> name, effect |-> effect])
    BY <1>6 DEF CreateStockMovementType
  <2>2. FindStockMovementTypeByName(name) \in SUBSET Entry
    BY DEF FindStockMovementTypeByName, RowsIn
  <2> QED
    BY <2>1, <2>2, ColumnsOf, NewOrReactivatedSound
<1>7. TableOf[DrawnEntry[r]] \in RefTable
  OBVIOUS
<1> QED
  BY <1>2, <1>3, <1>4, <1>5, <1>6, <1>7 DEF Creation, RefTable

LEMMA UpdateSound ==
  ASSUME RefInv, NEW e \in LiveEntries, NEW plan \in Update(e)
  PROVE  Sound(plan)
<1> USE RefAssumption
<1>1. e \in Entry /\ TableOf[e] \in RefTable
  BY DEF LiveEntries, LiveIn, RowsIn
<1>2. \A name \in Asked \cup {Blank} :
         Columns([key |-> name]) /\ "parent" \notin DOMAIN [key |-> name]
           /\ "effect" \notin DOMAIN [key |-> name]
  <2>1. \A name \in Asked \cup {Blank} : name \in Word \cup {NoWord, Blank}
    OBVIOUS
  <2> QED
    BY <2>1, ColumnsOf
<1>3. \A name \in Asked : \A found : \A x \in Renamed(e, found, [key |-> name]) : Sound(x)
  <2> SUFFICES ASSUME NEW name \in Asked, NEW found, NEW x \in Renamed(e, found, [key |-> name])
               PROVE  Sound(x)
    OBVIOUS
  <2>1. /\ Columns([key |-> name]) /\ "parent" \notin DOMAIN [key |-> name]
        /\ "effect" \notin DOMAIN [key |-> name]
    BY <1>2
  <2> QED
    BY <1>1, <2>1, RenamedSound
<1>4. CASE plan \in UpdateCategory(e)
  <2>1. PICK name \in Asked : plan \in Renamed(e, FindCategoryByName(name), [key |-> name])
    BY <1>4 DEF UpdateCategory
  <2> QED
    BY <1>3, <2>1
<1>5. CASE plan \in UpdateLocation(e)
  <2>1. /\ Columns([key |-> Blank]) /\ "parent" \notin DOMAIN [key |-> Blank]
        /\ "effect" \notin DOMAIN [key |-> Blank]
    BY <1>2
  <2>2. Sound(Plan(e, [key |-> Blank]))
    BY <1>1, <2>1, EditSound
  <2>3. CASE plan = Plan(e, [key |-> Blank])
    BY <2>2, <2>3
  <2>4. CASE \E code \in Asked : plan \in Renamed(e, FindLocationByCode(code), [key |-> code])
    BY <1>3, <2>4
  <2> QED
    BY <1>5, <2>3, <2>4 DEF UpdateLocation
<1>6. CASE plan \in UpdateSupplier(e)
  <2>1. PICK name \in Asked : plan = Plan(e, [key |-> name])
    BY <1>6 DEF UpdateSupplier
  <2>2. /\ Columns([key |-> name]) /\ "parent" \notin DOMAIN [key |-> name]
        /\ "effect" \notin DOMAIN [key |-> name]
    BY <1>2
  <2> QED
    BY <1>1, <2>1, <2>2, EditSound
<1>7. CASE plan \in UpdateSupplierLink(e)
  <2>1. PICK platform \in Asked :
           plan \in Renamed(e, FindLinkByPlatform(entries[e].parent, platform), [key |-> platform])
    BY <1>7 DEF UpdateSupplierLink
  <2> QED
    BY <1>3, <2>1
<1>8. CASE plan \in UpdateStockMovementType(e)
  <2>1. PICK name \in Asked, effect \in (IF e \in SystemType THEN {entries[e].effect} ELSE Effect) :
           plan \in Renamed(e, FindStockMovementTypeByName(name), [key |-> name, effect |-> effect])
    BY <1>8 DEF UpdateStockMovementType
  <2>2. effect \in Effect /\ (e \in SystemType => effect = DEFAULT_STOCK_MOVEMENT_TYPES[e])
    BY <1>1 DEF RefInv, AsSeeded, EntryRow
  <2>3. Columns([key |-> name, effect |-> effect])
    BY <2>2, ColumnsOf
  <2> QED
    BY <1>1, <2>1, <2>2, <2>3, RenamedSound
<1> QED
  BY <1>1, <1>4, <1>5, <1>6, <1>7, <1>8 DEF Update, RefTable

LEMMA ArchivalSound ==
  ASSUME NEW e \in LiveEntries, NEW plan \in Archival(e)
  PROVE  Sound(plan)
<1> USE RefAssumption
<1>1. e \in Entry
  BY DEF LiveEntries, LiveIn, RowsIn
<1>2. CASE e \in SystemType
  BY <1>2, RefuseSound DEF Archival, ArchiveStockMovementType
<1>3. CASE e \notin SystemType
  <2>1. plan = Plan(e, [isArchived |-> TRUE])
    BY <1>3 DEF Archival, ArchiveStockMovementType, ArchiveEntry
  <2> QED
    BY <1>1, <1>3, <2>1 DEF Plan, Sound, WellTyped, Harmless
<1> QED
  BY <1>2, <1>3

LEMMA DecisionsSound ==
  ASSUME RefInv, NEW r \in RefReq, NEW plan \in Decisions(r) \cup {Refuse}
  PROVE  Sound(plan)
<1>1. CASE plan = Refuse
  BY <1>1, RefuseSound
<1>2. CASE plan \in Decisions(r) /\ r \in EntryCreations
  BY <1>2, CreationSound DEF Decisions
<1>3. CASE plan \in Decisions(r) /\ r \notin EntryCreations
  <2>1. PICK e \in LiveEntries : plan \in Update(e) \/ plan \in Archival(e)
    BY <1>3 DEF Decisions
  <2> QED
    BY <2>1, UpdateSound, ArchivalSound
<1> QED
  BY <1>1, <1>2, <1>3

-----------------------------------------------------------------------------
LEMMA ClerkAdvances ==
  ASSUME RefInv, NEW r \in RefReq, NEW plan, Sound(plan), clerk' = [clerk EXCEPT ![r] = plan]
  PROVE  DOMAIN clerk' = RefReq /\ \A q \in RefReq : Sound(clerk'[q])
<1>1. \A q \in RefReq : clerk'[q] = IF q = r THEN plan ELSE clerk[q]
  BY DEF RefInv
<1> QED
  BY <1>1 DEF RefInv

LEMMA WrittenType ==
  ASSUME RefInv, NEW plan, WellTyped(plan)
  PROVE  Written(plan) \in EntryRow
<1> DEFINE row == entries[plan.entry]
<1>1. row \in EntryRow
  BY DEF RefInv, WellTyped
<1>2. DOMAIN plan.data \cup DOMAIN row = {"there", "key", "parent", "effect", "isArchived"}
  BY <1>1 DEF EntryRow, WellTyped
<1>3. Written(plan) = [f \in {"there", "key", "parent", "effect", "isArchived"} |->
                         IF f \in DOMAIN plan.data THEN plan.data[f] ELSE row[f]]
  BY <1>2 DEF Written, Over
<1> HIDE DEF row
<1> QED
  BY <1>1, <1>3 DEF EntryRow, WellTyped

LEMMA WriteEntryKeeps ==
  ASSUME RefInv, NEW r \in RefReq, WriteEntry(r)
  PROVE  RefInv'
<1> DEFINE plan == clerk[r]
<1>1. WellTyped(plan) /\ Harmless(plan)
  BY DEF WriteEntry, RefInv, Sound
<1>2. CASE clerk' = [clerk EXCEPT ![r] = Refuse] /\ UNCHANGED entries
  BY <1>2, ClerkAdvances, RefuseSound DEF RefInv, AsSeeded
<1>3. CASE /\ entries' = [entries EXCEPT ![plan.entry] = Written(plan)]
           /\ clerk' = [clerk EXCEPT ![r] = [pc |-> "ok"]]
  <2>1. Written(plan) \in EntryRow
    BY <1>1, WrittenType
  <2>2. entries' \in [Entry -> EntryRow]
    BY <1>3, <2>1 DEF RefInv
  <2>3. ASSUME NEW key \in SystemType
        PROVE  AsSeeded(key)'
    <3>1. key \in Entry
      BY RefAssumption
    <3>2. CASE key # plan.entry
      BY <1>3, <3>1, <3>2 DEF RefInv, AsSeeded
    <3>3. CASE key = plan.entry
      <4>1. entries'[key] = Written(plan) /\ entries[key] \in EntryRow
        BY <1>3, <3>1, <3>3 DEF RefInv
      <4>2. /\ Written(plan).there = entries[key].there
            /\ Written(plan).isArchived = entries[key].isArchived
            /\ Written(plan).effect = IF "effect" \in DOMAIN plan.data THEN plan.data["effect"]
                                      ELSE entries[key].effect
        BY <1>1, <3>3, <4>1 DEF Written, Over, Harmless, EntryRow
      <4>3. "effect" \in DOMAIN plan.data => plan.data["effect"] = DEFAULT_STOCK_MOVEMENT_TYPES[key]
        BY <1>1, <3>3 DEF Harmless
      <4> QED
        BY <2>1, <4>1, <4>2, <4>3 DEF RefInv, AsSeeded
    <3> QED
      BY <3>2, <3>3
  <2>4. Sound([pc |-> "ok"])
    BY DEF Sound
  <2>5. DOMAIN clerk' = RefReq /\ \A q \in RefReq : Sound(clerk'[q])
    BY <1>3, <2>4, ClerkAdvances
  <2> QED
    BY <2>2, <2>3, <2>5 DEF RefInv
<1> QED
  BY <1>2, <1>3 DEF WriteEntry

LEMMA RefBegins ==
  ASSUME InitRef
  PROVE  RefInv
<1> USE RefAssumption
<1>1. \A key \in SystemType : DEFAULT_STOCK_MOVEMENT_TYPES[key] \in Effect
  BY DEF SystemType, DEFAULT_STOCK_MOVEMENT_TYPES, Effect
<1>2. \A e \in Entry : entries[e] \in EntryRow
  BY <1>1 DEF InitRef, InitEntries, EntryRow
<1>3. entries \in [Entry -> EntryRow]
  BY <1>2 DEF InitRef, InitEntries
<1>4. \A key \in SystemType : AsSeeded(key)
  BY <1>2 DEF InitRef, InitEntries, AsSeeded
<1>5. \A r \in RefReq : Sound(clerk[r])
  BY DEF InitRef, Sound
<1> QED
  BY <1>3, <1>4, <1>5 DEF RefInv, InitRef

LEMMA RefKept ==
  ASSUME RefInv, [RefNext]_refVars
  PROVE  RefInv'
<1>1. ASSUME NEW r \in RefReq, ReadEntries(r)
      PROVE  RefInv'
  <2>1. PICK plan \in Decisions(r) \cup {Refuse} : clerk' = [clerk EXCEPT ![r] = plan]
    BY <1>1 DEF ReadEntries
  <2>2. DOMAIN clerk' = RefReq /\ \A q \in RefReq : Sound(clerk'[q])
    BY <2>1, DecisionsSound, ClerkAdvances
  <2> QED
    BY <1>1, <2>2 DEF ReadEntries, RefInv, AsSeeded
<1>2. ASSUME NEW r \in RefReq, AbortEntry(r)
      PROVE  RefInv'
  BY <1>2, ClerkAdvances, RefuseSound DEF AbortEntry, RefInv, AsSeeded
<1>3. CASE UNCHANGED refVars
  BY <1>3 DEF refVars, RefInv, AsSeeded
<1> QED
  BY <1>1, <1>2, <1>3, WriteEntryKeeps DEF RefNext

(* However many requests rename, create and archive at once, every system  *)
(* movement type resolves (getSystemStockMovementTypeId) to a live row with*)
(* the effect it was seeded with.                                          *)
THEOREM SystemTypesAlwaysResolve == RefSpec => []SystemTypesResolve
<1>1. RefInv => SystemTypesResolve
  <2> SUFFICES ASSUME RefInv, NEW key \in SystemType
               PROVE  /\ SystemStockMovementTypeId(key) # {}
                      /\ entries[key].effect = DEFAULT_STOCK_MOVEMENT_TYPES[key]
    BY DEF SystemTypesResolve
  <2>1. key \in LiveIn("type")
    BY RefAssumption DEF RefInv, AsSeeded, LiveIn, RowsIn
  <2> QED
    BY <2>1 DEF RefInv, AsSeeded, SystemStockMovementTypeId
<1> QED
  BY <1>1, RefBegins, RefKept, PTL DEF RefSpec

-----------------------------------------------------------------------------
(* The name a row has is its key, and for a link and a location the key    *)
(* under a parent: SameName as a row and a name meet.                      *)
Bears(table, row, parent, key) ==
  CASE table \in {"category", "type"} -> Fold[row.key] = Fold[key]
    [] table = "supplier" -> FALSE
    [] OTHER -> row.parent = parent /\ row.key = key /\ row.key # NoWord

(* Nobody else has the name a plan gives its row.                          *)
NameFree(table, plan) ==
  \A e \in RowsIn(table) \ {plan.entry} : ~ SameName(table, entries[e], Written(plan))

Fits(plan) ==
  NamesApart(TableOf[plan.entry]) /\ Written(plan).key # Blank => NameFree(TableOf[plan.entry], plan)

LEMMA BearsIsSameName ==
  ASSUME NEW table \in RefTable, NEW a, NEW b
  PROVE  SameName(table, a, b) <=> Bears(table, a, b.parent, b.key)
BY DEF SameName, Bears, RefTable

LEMMA WrittenColumns ==
  ASSUME RefInv, NEW e \in Entry, NEW data
  PROVE  /\ Written(Plan(e, data)).key = IF "key" \in DOMAIN data THEN data["key"] ELSE entries[e].key
         /\ Written(Plan(e, data)).parent =
              IF "parent" \in DOMAIN data THEN data["parent"] ELSE entries[e].parent
<1>1. entries[e] \in EntryRow
  BY DEF RefInv
<1>2. DOMAIN entries[e] = {"there", "key", "parent", "effect", "isArchived"}
  BY <1>1 DEF EntryRow
<1>3. Written(Plan(e, data)) = Over(data, entries[e])
  BY DEF Written, Plan
<1> QED
  BY <1>2, <1>3 DEF Over

(* A plan for a name that no row of the table bears.                       *)
LEMMA UnusedNameFits ==
  ASSUME NEW plan, TableOf[plan.entry] \in RefTable,
         \A x \in RowsIn(TableOf[plan.entry]) :
            ~ Bears(TableOf[plan.entry], entries[x], Written(plan).parent, Written(plan).key)
  PROVE  Fits(plan)
BY BearsIsSameName DEF Fits, NameFree

(* A plan for a name that the row bears already.                           *)
LEMMA OwnNameFits ==
  ASSUME NEW plan, TableOf[plan.entry] \in RefTable, plan.entry \in RowsIn(TableOf[plan.entry]),
         \A x \in RowsIn(TableOf[plan.entry]) :
            Bears(TableOf[plan.entry], entries[x], Written(plan).parent, Written(plan).key) =>
              SameName(TableOf[plan.entry], entries[plan.entry], entries[x])
  PROVE  Fits(plan)
<1> DEFINE table == TableOf[plan.entry]
<1> SUFFICES ASSUME NamesApart(table), NEW x \in RowsIn(table) \ {plan.entry},
                    SameName(table, entries[x], Written(plan))
             PROVE  FALSE
  BY DEF Fits, NameFree
<1>1. SameName(table, entries[plan.entry], entries[x])
  BY BearsIsSameName
<1> QED
  BY <1>1 DEF NamesApart

-----------------------------------------------------------------------------
(* What the lookups by name find: the rows that bear the name.             *)
Finds(table, found, parent, key) ==
  /\ found \subseteq RowsIn(table)
  /\ \A x \in RowsIn(table) : Bears(table, entries[x], parent, key) => x \in found
  /\ \A e \in found : \A x \in RowsIn(table) :
        Bears(table, entries[x], parent, key) /\ (table = "location" => entries[e].parent = parent) =>
          SameName(table, entries[e], entries[x])

LEMMA LookupsFind ==
  ASSUME RefInv
  PROVE  /\ \A name, parent : Finds("category", FindCategoryByName(name), parent, name)
         /\ \A code, parent : Finds("location", FindLocationByCode(code), parent, code)
         /\ \A s, platform : Finds("link", FindLinkByPlatform(s, platform), s, platform)
         /\ \A name, parent : Finds("type", FindStockMovementTypeByName(name), parent, name)
<1>1. \A name, parent : Finds("category", FindCategoryByName(name), parent, name)
  BY DEF Finds, Bears, SameName, FindCategoryByName
<1>2. \A code, parent : Finds("location", FindLocationByCode(code), parent, code)
  BY DEF Finds, Bears, SameName, FindLocationByCode
<1>3. \A s, platform : Finds("link", FindLinkByPlatform(s, platform), s, platform)
  BY DEF Finds, Bears, SameName, FindLinkByPlatform
<1>4. \A name, parent : Finds("type", FindStockMovementTypeByName(name), parent, name)
  BY DEF Finds, Bears, SameName, FindStockMovementTypeByName
<1> QED
  BY <1>1, <1>2, <1>3, <1>4

LEMMA NewOrReactivatedFits ==
  ASSUME RefInv, NEW r \in EntryCreations, NEW found, NEW data,
         TableOf[DrawnEntry[r]] \in RefTable, "key" \in DOMAIN data,
         "there" \notin DOMAIN data, "isArchived" \notin DOMAIN data,
         TableOf[DrawnEntry[r]] = "location" => "parent" \notin DOMAIN data,
         \A parent : ("parent" \in DOMAIN data => parent = data["parent"]) =>
            Finds(TableOf[DrawnEntry[r]], found, parent, data["key"]),
         NEW plan \in NewOrReactivated(r, found, data), plan # Refuse
  PROVE  Fits(plan)
<1> DEFINE table == TableOf[DrawnEntry[r]]
<1>1. CASE found = {}
  <2> DEFINE all == Over([there |-> TRUE], data)
  <2>1. plan = Plan(DrawnEntry[r], all) /\ DrawnEntry[r] \in Entry /\ plan.entry = DrawnEntry[r]
    BY <1>1, RefAssumption DEF NewOrReactivated, Plan
  <2>2. "key" \in DOMAIN all /\ all["key"] = data["key"]
    BY DEF Over
  <2>3. "parent" \in DOMAIN data => "parent" \in DOMAIN all /\ all["parent"] = data["parent"]
    BY DEF Over
  <2> HIDE DEF all
  <2>4. /\ Written(plan).key = data["key"]
        /\ "parent" \in DOMAIN data => Written(plan).parent = data["parent"]
    BY <2>1, <2>2, <2>3, WrittenColumns
  <2>5. Finds(table, found, Written(plan).parent, Written(plan).key)
    BY <2>4
  <2> QED
    BY <1>1, <2>1, <2>5, UnusedNameFits DEF Finds
<1>2. CASE found # {}
  <2>1. PICK e \in found : plan = Plan(e, Over([isArchived |-> FALSE], data))
    BY <1>2 DEF NewOrReactivated
  <2> DEFINE all == Over([isArchived |-> FALSE], data)
             anyone == IF "parent" \in DOMAIN data THEN data["parent"] ELSE NoEntry
  <2>2. Finds(table, found, anyone, data["key"])
    OBVIOUS
  <2>3. e \in RowsIn(table) /\ e \in Entry /\ TableOf[e] = table /\ plan.entry = e
    BY <2>1, <2>2 DEF Finds, RowsIn, Plan
  <2>4. "key" \in DOMAIN all /\ all["key"] = data["key"]
    BY DEF Over
  <2>5. /\ "parent" \in DOMAIN data => "parent" \in DOMAIN all /\ all["parent"] = data["parent"]
        /\ "parent" \notin DOMAIN data => "parent" \notin DOMAIN all
    BY DEF Over
  <2> HIDE DEF all, anyone
  <2>6. /\ Written(plan).key = data["key"]
        /\ Written(plan).parent = IF "parent" \in DOMAIN data THEN data["parent"] ELSE entries[e].parent
    BY <2>1, <2>3, <2>4, <2>5, WrittenColumns DEF all
  <2>7. Finds(table, found, Written(plan).parent, Written(plan).key)
    BY <2>6
  <2>8. table = "location" => entries[e].parent = Written(plan).parent
    BY <2>6
  <2> QED
    BY <2>3, <2>7, <2>8, OwnNameFits DEF Finds
<1> QED
  BY <1>1, <1>2

LEMMA RenamedFits ==
  ASSUME RefInv, NEW e \in LiveEntries, NEW found, NEW data,
         "key" \in DOMAIN data, "parent" \notin DOMAIN data,
         Finds(TableOf[e], found, entries[e].parent, data["key"]),
         NEW plan \in Renamed(e, found, data), plan # Refuse
  PROVE  Fits(plan)
<1>1. e \in Entry /\ TableOf[e] \in RefTable /\ e \in RowsIn(TableOf[e])
  BY DEF LiveEntries, LiveIn, RowsIn
<1>2. plan = Plan(e, data) /\ (found = {} \/ e \in found)
  BY DEF Renamed
<1>3. plan.entry = e
  BY <1>2 DEF Plan
<1>4. Written(plan).key = data["key"] /\ Written(plan).parent = entries[e].parent
  BY <1>1, <1>2, WrittenColumns
<1>5. CASE found = {}
  BY <1>1, <1>3, <1>4, <1>5, UnusedNameFits DEF Finds
<1>6. CASE e \in found
  BY <1>1, <1>3, <1>4, <1>6, OwnNameFits DEF Finds
<1> QED
  BY <1>2, <1>5, <1>6

(* A name nobody looks up: a supplier's, no code at all, an empty code.    *)
LEMMA NotLookedUpFits ==
  ASSUME RefInv, NEW e \in Entry, NEW data, "key" \in DOMAIN data, "parent" \notin DOMAIN data,
         \/ TableOf[e] = "supplier"
         \/ TableOf[e] = "location" /\ data["key"] \in {NoWord, Blank}
  PROVE  Fits(Plan(e, data))
<1> DEFINE plan == Plan(e, data)
<1>1. plan.entry = e /\ TableOf[e] \in RefTable
  BY DEF Plan, RefTable
<1>2. Written(plan).key = data["key"]
  BY WrittenColumns
<1> SUFFICES Fits(plan)
  OBVIOUS
<1> HIDE DEF plan
<1>3. CASE TableOf[e] = "supplier"
  BY <1>1, <1>3 DEF Fits, NameFree, SameName
<1>4. CASE TableOf[e] = "location" /\ data["key"] = NoWord
  BY <1>1, <1>2, <1>4 DEF Fits, NameFree, SameName
<1>5. CASE TableOf[e] = "location" /\ data["key"] = Blank
  BY <1>1, <1>2, <1>5 DEF Fits
<1> QED
  BY <1>3, <1>4, <1>5

-----------------------------------------------------------------------------
LEMMA TypeCreations ==
  ASSUME NEW r, NEW plan \in CreateStockMovementType(r)
  PROVE  \E name \in Asked, effect \in Effect :
            plan \in NewOrReactivated(r, FindStockMovementTypeByName(name),
                                      [key |-> name, effect |-> effect])
<1> DEFINE plans(name, effect) ==
             NewOrReactivated(r, FindStockMovementTypeByName(name), [key |-> name, effect |-> effect])
<1>1. plan \in UNION {plans(name, effect) : name \in Asked, effect \in Effect}
  BY DEF CreateStockMovementType
<1> HIDE DEF plans
<1>2. \E name \in Asked, effect \in Effect : plan \in plans(name, effect)
  BY <1>1
<1> QED
  BY <1>2 DEF plans

LEMMA CreationFits ==
  ASSUME RefInv, NEW r \in EntryCreations, NEW plan \in Creation(r), plan # Refuse
  PROVE  Fits(plan)
<1> DEFINE table == TableOf[DrawnEntry[r]]
<1>1. table \in RefTable /\ DrawnEntry[r] \in Entry
  BY RefAssumption
<1>2. CASE table = "category"
  <2>1. PICK name \in Asked : plan \in NewOrReactivated(r, FindCategoryByName(name), [key |-> name])
    BY <1>2 DEF Creation, CreateCategory
  <2>2. \A parent : Finds(table, FindCategoryByName(name), parent, name)
    BY <1>2, LookupsFind
  <2> QED
    BY <1>1, <1>2, <2>1, <2>2, NewOrReactivatedFits
<1>3. CASE table = "location"
  <2>1. CASE \E code \in Asked :
                plan \in NewOrReactivated(r, FindLocationByCode(code), [key |-> code])
    <3>1. PICK code \in Asked :
             plan \in NewOrReactivated(r, FindLocationByCode(code), [key |-> code])
      BY <2>1
    <3>2. \A parent : Finds(table, FindLocationByCode(code), parent, code)
      BY <1>3, LookupsFind
    <3> QED
      BY <1>1, <1>3, <3>1, <3>2, NewOrReactivatedFits
  <2>2. CASE \E code \in {NoWord, Blank} : plan = Plan(DrawnEntry[r], [there |-> TRUE, key |-> code])
    BY <1>1, <1>3, <2>2, NotLookedUpFits
  <2> QED
    BY <1>3, <2>1, <2>2 DEF Creation, CreateLocation
<1>4. CASE table = "supplier"
  <2>1. PICK name \in Asked : plan = Plan(DrawnEntry[r], [there |-> TRUE, key |-> name])
    BY <1>4 DEF Creation, CreateSupplier
  <2> QED
    BY <1>1, <1>4, <2>1, NotLookedUpFits
<1>5. CASE table = "link"
  <2>1. PICK s \in LiveIn("supplier"), platform \in Asked :
           plan \in NewOrReactivated(r, FindLinkByPlatform(s, platform),
                                     [key |-> platform, parent |-> s])
    BY <1>5 DEF Creation, CreateSupplierLink
  <2>2. Finds(table, FindLinkByPlatform(s, platform), s, platform)
    BY <1>5, LookupsFind
  <2> QED
    BY <1>1, <1>5, <2>1, <2>2, NewOrReactivatedFits
<1>6. CASE table = "type"
  <2>1. plan \in CreateStockMovementType(r)
    BY <1>6 DEF Creation
  <2>2. PICK name \in Asked, effect \in Effect :
           plan \in NewOrReactivated(r, FindStockMovementTypeByName(name),
                                     [key |-> name, effect |-> effect])
    BY <2>1, TypeCreations
  <2>3. \A parent : Finds(table, FindStockMovementTypeByName(name), parent, name)
    BY <1>6, LookupsFind
  <2> QED
    BY <1>1, <1>6, <2>2, <2>3, NewOrReactivatedFits
<1> QED
  BY <1>1, <1>2, <1>3, <1>4, <1>5, <1>6 DEF RefTable

LEMMA UpdateFits ==
  ASSUME RefInv, NEW e \in LiveEntries, NEW plan \in Update(e), plan # Refuse
  PROVE  Fits(plan)
<1>1. e \in Entry /\ TableOf[e] \in RefTable
  BY DEF LiveEntries, LiveIn, RowsIn
<1>2. CASE TableOf[e] = "category"
  <2>1. PICK name \in Asked : plan \in Renamed(e, FindCategoryByName(name), [key |-> name])
    BY <1>2 DEF Update, UpdateCategory
  <2>2. Finds(TableOf[e], FindCategoryByName(name), entries[e].parent, name)
    BY <1>2, LookupsFind
  <2> QED
    BY <2>1, <2>2, RenamedFits
<1>3. CASE TableOf[e] = "location"
  <2>1. CASE plan = Plan(e, [key |-> Blank])
    BY <1>1, <1>3, <2>1, NotLookedUpFits
  <2>2. CASE \E code \in Asked : plan \in Renamed(e, FindLocationByCode(code), [key |-> code])
    <3>1. PICK code \in Asked : plan \in Renamed(e, FindLocationByCode(code), [key |-> code])
      BY <2>2
    <3>2. Finds(TableOf[e], FindLocationByCode(code), entries[e].parent, code)
      BY <1>3, LookupsFind
    <3> QED
      BY <3>1, <3>2, RenamedFits
  <2> QED
    BY <1>3, <2>1, <2>2 DEF Update, UpdateLocation
<1>4. CASE TableOf[e] = "supplier"
  <2>1. PICK name \in Asked : plan = Plan(e, [key |-> name])
    BY <1>4 DEF Update, UpdateSupplier
  <2> QED
    BY <1>1, <1>4, <2>1, NotLookedUpFits
<1>5. CASE TableOf[e] = "link"
  <2>1. PICK platform \in Asked :
           plan \in Renamed(e, FindLinkByPlatform(entries[e].parent, platform), [key |-> platform])
    BY <1>5 DEF Update, UpdateSupplierLink
  <2>2. Finds(TableOf[e], FindLinkByPlatform(entries[e].parent, platform), entries[e].parent, platform)
    BY <1>5, LookupsFind
  <2> QED
    BY <2>1, <2>2, RenamedFits
<1>6. CASE TableOf[e] = "type"
  <2>1. PICK name \in Asked, effect \in (IF e \in SystemType THEN {entries[e].effect} ELSE Effect) :
           plan \in Renamed(e, FindStockMovementTypeByName(name), [key |-> name, effect |-> effect])
    BY <1>6 DEF Update, UpdateStockMovementType
  <2>2. Finds(TableOf[e], FindStockMovementTypeByName(name), entries[e].parent, name)
    BY <1>6, LookupsFind
  <2> QED
    BY <2>1, <2>2, RenamedFits
<1> QED
  BY <1>1, <1>2, <1>3, <1>4, <1>5, <1>6 DEF RefTable

LEMMA ArchivalFits ==
  ASSUME RefInv, NEW e \in LiveEntries, NEW plan \in Archival(e), plan # Refuse
  PROVE  Fits(plan)
<1>1. e \in Entry /\ TableOf[e] \in RefTable /\ e \in RowsIn(TableOf[e])
  BY DEF LiveEntries, LiveIn, RowsIn
<1>2. plan = Plan(e, [isArchived |-> TRUE])
  BY DEF Archival, ArchiveStockMovementType, ArchiveEntry
<1>3. plan.entry = e
  BY <1>2 DEF Plan
<1>4. Written(plan).key = entries[e].key /\ Written(plan).parent = entries[e].parent
  BY <1>1, <1>2, WrittenColumns
<1>5. \A x \in RowsIn(TableOf[e]) :
         Bears(TableOf[e], entries[x], entries[e].parent, entries[e].key) =>
           SameName(TableOf[e], entries[e], entries[x])
  BY DEF Bears, SameName
<1> QED
  BY <1>1, <1>3, <1>4, <1>5, OwnNameFits

LEMMA DecisionsFit ==
  ASSUME RefInv, NEW r \in RefReq, NEW plan \in Decisions(r) \ {Refuse}
  PROVE  Fits(plan)
<1>1. CASE r \in EntryCreations
  BY <1>1, CreationFits DEF Decisions
<1>2. CASE r \notin EntryCreations
  <2>1. PICK e \in LiveEntries : plan \in Update(e) \/ plan \in Archival(e)
    BY <1>2 DEF Decisions
  <2> QED
    BY <2>1, UpdateFits, ArchivalFits
<1> QED
  BY <1>1, <1>2

(* What SameName keeps apart is at least what the constraint does.         *)
LEMMA ApartSatisfies ==
  ASSUME NEW table \in RefTable, NEW a, NEW b, ~ SameName(table, a, b)
  PROVE  ~ Clash(table, a, b)
BY DEF SameName, Clash, RefTable

(* Categories, locations, links and movement types: a creation or update   *)
(* that nobody overtakes gives no name another row has (find...ByName,     *)
(* find...ByCode, archived rows included) and is not stopped by the        *)
(* constraint, for any number of rows and requests.                        *)
THEOREM FreshPlansAlwaysFit == RefSpec => []FreshPlansFit
<1>1. RefInv => FreshPlansFit
  <2> SUFFICES ASSUME RefInv, NEW r \in RefReq, NEW plan \in Decisions(r) \ {Refuse},
                      NamesApart(TableOf[plan.entry]), Written(plan).key # Blank,
                      NEW e \in RowsIn(TableOf[plan.entry]) \ {plan.entry}
               PROVE  /\ ~ Clash(TableOf[plan.entry], entries[e], Written(plan))
                      /\ ~ SameName(TableOf[plan.entry], entries[e], Written(plan))
    BY DEF FreshPlansFit
  <2>1. e \in Entry /\ TableOf[plan.entry] = TableOf[e] /\ TableOf[e] \in RefTable
    BY RefAssumption DEF RowsIn
  <2>2. ~ SameName(TableOf[plan.entry], entries[e], Written(plan))
    BY DecisionsFit DEF Fits, NameFree
  <2> QED
    BY <2>1, <2>2, ApartSatisfies
<1> QED
  BY <1>1, RefBegins, RefKept, PTL DEF RefSpec

(* TypeOKRef of every instance: a request that is about to write names an  *)
(* entry and columns of it.                                                *)
THEOREM RefTypesCorrect == RefSpec => []TypeOKRef
<1>1. RefInv => TypeOKRef
  BY DEF RefInv, TypeOKRef, Sound, WellTyped, Uncreated
<1> QED
  BY <1>1, RefBegins, RefKept, PTL DEF RefSpec

-----------------------------------------------------------------------------
(***************************************************************************)
(* No unit loses its last identifier.  The invariant says what a request   *)
(* carries from its reads to its write: for each unit it names, an         *)
(* identifier of its own.  A patch has one because it writes all three     *)
(* columns, a tag write because a tag is a value, a registration because   *)
(* it has checked its rows; whatever the others have written meanwhile,    *)
(* the row keeps what the request gives it.                                *)
(***************************************************************************)

Carries(values) ==
  /\ DOMAIN values \subseteq Unit
  /\ \A u \in DOMAIN values : Gives(values[u], Field, LabelValue) /\ Identified(values[u])

LabelInv ==
  /\ labels \in [Unit -> UnitLabel]
  /\ DOMAIN labelling = LabelReq
  /\ \A r \in LabelReq : labelling[r].pc = "write" => Carries(labelling[r].rows)
  /\ EveryUnitIdentified

-----------------------------------------------------------------------------
(* A row that takes given fields over its own still has the given ones.    *)
LEMMA OverlayType ==
  ASSUME NEW data, Gives(data, Field, LabelValue), NEW own \in [Field -> LabelValue]
  PROVE  Over(data, own) \in [Field -> LabelValue]
<1>1. DOMAIN data \cup DOMAIN own = Field
  BY DEF Gives
<1>2. Over(data, own) = [f \in Field |-> IF f \in DOMAIN data THEN data[f] ELSE own[f]]
  BY <1>1 DEF Over
<1>3. \A f \in Field : (IF f \in DOMAIN data THEN data[f] ELSE own[f]) \in LabelValue
  BY DEF Gives
<1> QED
  BY <1>2, <1>3

LEMMA OverlayIdentified ==
  ASSUME NEW data, NEW own, Identified(data)
  PROVE  Identified(Over(data, own))
<1>1. PICK f \in Column \cap DOMAIN data : data[f] # Null
  BY DEF Identified, Entries
<1>2. f \in DOMAIN (Over(data, own)) /\ (Over(data, own))[f] = data[f]
  BY <1>1 DEF Over
<1> QED
  BY <1>1, <1>2 DEF Identified, Entries

-----------------------------------------------------------------------------
(* What each handler decides.                                              *)
LEMMA RegisterDecides ==
  ASSUME NEW r \in LabelRegistrations, NEW inputs \in RegistrationInputs, NEW place \in Place,
         RegisterUnits(r, inputs, place) # Refused
  PROVE  \E values : RegisterUnits(r, inputs, place) = Relabel(values) /\ Carries(values)
<1> DEFINE units == [i \in DOMAIN inputs |-> Normalized(inputs[i])]
           drawn == DrawnUnits[r]
           given(u) == Over(units[CHOOSE i \in DOMAIN units : drawn[i] = u],
                           [locationId |-> place])
           values == [u \in {drawn[i] : i \in DOMAIN units} |-> given(u)]
<1>1. /\ EnsureUnitsHaveIdentifiers(units)
      /\ RegisterUnits(r, inputs, place) = Relabel(values)
  BY DEF RegisterUnits
<1>2. \A i \in DOMAIN units : Identified(units[i])
  BY <1>1 DEF EnsureUnitsHaveIdentifiers
<1>3. \A i \in DOMAIN units : units[i] \in [Column -> LabelValue]
  BY LabelAssumption DEF Gives, Normalized, Clean, LabelValue
<1>4. \A u \in {drawn[i] : i \in DOMAIN units} :
         (CHOOSE i \in DOMAIN units : drawn[i] = u) \in DOMAIN units
  OBVIOUS
<1>5. {drawn[i] : i \in DOMAIN units} \subseteq Unit
  BY LabelAssumption
<1>6. ASSUME NEW i \in DOMAIN units
      PROVE  /\ Gives(Over(units[i], [locationId |-> place]), Field, LabelValue)
             /\ Identified(Over(units[i], [locationId |-> place]))
  <2>1. Identified(Over(units[i], [locationId |-> place]))
    BY <1>2, OverlayIdentified
  <2>2. Gives(Over(units[i], [locationId |-> place]), Field, LabelValue)
    BY <1>3 DEF Gives, Over, Field, LabelValue
  <2> QED
    BY <2>1, <2>2
<1> HIDE DEF units, drawn
<1>7. Carries(values)
  BY <1>4, <1>5, <1>6 DEF Carries
<1> QED
  BY <1>1, <1>7

LEMMA PatchDecides ==
  ASSUME LabelInv, NEW u \in Registered, NEW body \in PatchBodies,
         UpdateProductUnit(u, body) # Refused
  PROVE  \E values : /\ UpdateProductUnit(u, body) = [Relabel(values) EXCEPT !.sent = DOMAIN body]
                   /\ Carries(values)
<1> DEFINE data == BuildPatchData(body)
           merged == Over(data, labels[u].data)
           values == [x \in {u} |-> data]
<1>1. /\ EnsureUnitsHaveIdentifiers(<<merged>>)
      /\ UpdateProductUnit(u, body) = [Relabel(values) EXCEPT !.sent = DOMAIN body]
  BY DEF UpdateProductUnit
<1>2. data \in [Field -> LabelValue]
  <2>1. DOMAIN Received(body) = Field /\ \A f \in Field : Received(body)[f] \in LabelValue \cup {Spaces}
    BY LabelAssumption DEF Received, Over, Gives, LabelValue
  <2> QED
    BY <2>1 DEF BuildPatchData, Clean, LabelValue
<1>3. Identified(merged)
  BY <1>1 DEF EnsureUnitsHaveIdentifiers
<1>4. Identified(data)
  <2>1. PICK f \in Column \cap DOMAIN merged : merged[f] # Null
    BY <1>3 DEF Identified, Entries
  <2>2. f \in DOMAIN data /\ merged[f] = data[f]
    BY <1>2 DEF Over, Field
  <2> QED
    BY <2>1, <2>2 DEF Identified, Entries
<1>5. u \in Unit
  BY DEF Registered
<1> HIDE DEF data, merged
<1>6. Carries(values)
  BY <1>2, <1>4, <1>5 DEF Carries, Gives
<1> QED
  BY <1>1, <1>6

LEMMA TagDecides ==
  ASSUME NEW u \in Registered, NEW tag \in Tag, WriteProductUnitTag(u, tag) # Refused
  PROVE  \E values : WriteProductUnitTag(u, tag) = Relabel(values) /\ Carries(values)
<1> DEFINE written == [rfidTag |-> tag]
           values == [x \in {u} |-> written]
<1>1. WriteProductUnitTag(u, tag) = Relabel(values)
  BY DEF WriteProductUnitTag
<1>2. Gives(written, Field, LabelValue)
  BY DEF Gives, Field, Column, LabelValue
<1>3. "rfidTag" \in Column \cap DOMAIN written /\ written["rfidTag"] # Null
  BY LabelAssumption DEF Column
<1>4. Identified(written)
  BY <1>3 DEF Identified, Entries
<1>5. u \in Unit
  BY DEF Registered
<1> HIDE DEF written
<1>6. Carries(values)
  BY <1>2, <1>4, <1>5 DEF Carries
<1> QED
  BY <1>1, <1>6

LEMMA DecisionsCarry ==
  ASSUME LabelInv, NEW r \in LabelReq, NEW decision \in LabelDecisions(r), decision.pc = "write"
  PROVE  Carries(decision.rows)
<1>1. decision # Refused
  BY DEF Refused
<1>2. ASSUME NEW values, decision = Relabel(values), Carries(values)
      PROVE  Carries(decision.rows)
  BY <1>2 DEF Relabel
<1>3. ASSUME NEW values, NEW fields, decision = [Relabel(values) EXCEPT !.sent = fields], Carries(values)
      PROVE  Carries(decision.rows)
  <2>1. decision.rows = values
    BY <1>3 DEF Relabel
  <2> QED
    BY <1>3, <2>1
<1>4. CASE r \in LabelRegistrations
  BY <1>1, <1>2, <1>4, RegisterDecides DEF LabelDecisions
<1>5. CASE r \notin LabelRegistrations /\ r \in Patches
  <2>1. PICK u \in Registered, body \in PatchBodies : decision = UpdateProductUnit(u, body)
    BY <1>1, <1>5 DEF LabelDecisions
  <2> QED
    BY <1>1, <1>3, <2>1, PatchDecides
<1>6. CASE r \notin LabelRegistrations /\ r \notin Patches
  <2>1. PICK u \in Registered, tag \in Tag : decision = WriteProductUnitTag(u, tag)
    BY <1>1, <1>6 DEF LabelDecisions, LabelReq
  <2> QED
    BY <1>1, <1>2, <2>1, TagDecides
<1> QED
  BY <1>4, <1>5, <1>6

-----------------------------------------------------------------------------
LEMMA ReadLabelsKeeps ==
  ASSUME LabelInv, NEW r \in LabelReq, ReadLabels(r)
  PROVE  LabelInv'
<1>1. PICK decision \in LabelDecisions(r) : labelling' = [labelling EXCEPT ![r] = decision]
  BY DEF ReadLabels
<1>2. labels' = labels
  BY DEF ReadLabels
<1>3. \A q \in LabelReq : labelling'[q] = IF q = r THEN decision ELSE labelling[q]
  BY <1>1 DEF LabelInv
<1>4. \A q \in LabelReq : labelling'[q].pc = "write" => Carries(labelling'[q].rows)
  BY <1>3, DecisionsCarry DEF LabelInv
<1> QED
  BY <1>1, <1>2, <1>4 DEF LabelInv, EveryUnitIdentified, Registered

LEMMA EndLabelsKeeps ==
  ASSUME LabelInv, NEW r \in LabelReq, NEW outcome \in {"ok", "failed"},
         labelling' = [labelling EXCEPT ![r] = [pc |-> outcome]]
  PROVE  /\ DOMAIN labelling' = LabelReq
         /\ \A q \in LabelReq : labelling'[q].pc = "write" => Carries(labelling'[q].rows)
<1>1. \A q \in LabelReq : labelling'[q] = IF q = r THEN [pc |-> outcome] ELSE labelling[q]
  BY DEF LabelInv
<1> QED
  BY <1>1 DEF LabelInv

LEMMA WriteLabelsKeeps ==
  ASSUME LabelInv, NEW r \in LabelReq, WriteLabels(r)
  PROVE  LabelInv'
<1> DEFINE values == labelling[r].rows
<1>1. Carries(values)
  BY DEF WriteLabels, LabelInv
<1>2. CASE labels' = Relabelled(values) /\ labelling' = [labelling EXCEPT ![r] = [pc |-> "ok"]]
  <2>1. \A u \in Unit : labels'[u] =
           IF u \in DOMAIN values
             THEN [labels[u] EXCEPT !.there = TRUE, !.data = Over(values[u], labels[u].data)]
             ELSE labels[u]
    BY <1>2 DEF Relabelled
  <2>2. ASSUME NEW u \in Unit
        PROVE  labels'[u] \in UnitLabel /\ (labels'[u].there => Identified(labels'[u].data))
    <3>1. CASE u \in DOMAIN values
      <4>1. labels[u] \in UnitLabel /\ labels[u].data \in [Field -> LabelValue]
        BY DEF LabelInv, UnitLabel
      <4>2. Over(values[u], labels[u].data) \in [Field -> LabelValue]
        BY <1>1, <3>1, <4>1, OverlayType DEF Carries
      <4>3. Identified(Over(values[u], labels[u].data))
        BY <1>1, <3>1, OverlayIdentified DEF Carries
      <4>4. /\ labels'[u] = [labels[u] EXCEPT !.there = TRUE, !.data = Over(values[u], labels[u].data)]
            /\ labels'[u].data = Over(values[u], labels[u].data)
        BY <2>1, <3>1, <4>1 DEF UnitLabel
      <4>5. labels'[u] \in UnitLabel
        BY <4>1, <4>2, <4>4 DEF UnitLabel
      <4> QED
        BY <4>3, <4>4, <4>5
    <3>2. CASE u \notin DOMAIN values
      BY <2>1, <3>2 DEF LabelInv, EveryUnitIdentified, Registered
    <3> QED
      BY <3>1, <3>2
  <2>3. labels' \in [Unit -> UnitLabel]
    BY <1>2, <2>2 DEF Relabelled
  <2>4. EveryUnitIdentified'
    BY <2>2 DEF EveryUnitIdentified, Registered
  <2> QED
    BY <1>2, <2>3, <2>4, EndLabelsKeeps DEF LabelInv
<1>3. CASE labelling' = [labelling EXCEPT ![r] = Refused] /\ UNCHANGED labels
  BY <1>3, EndLabelsKeeps DEF LabelInv, EveryUnitIdentified, Registered, Refused
<1> QED
  BY <1>2, <1>3 DEF WriteLabels

LEMMA AbortLabelsKeeps ==
  ASSUME LabelInv, NEW r \in LabelReq, AbortLabels(r)
  PROVE  LabelInv'
BY EndLabelsKeeps DEF AbortLabels, LabelInv, EveryUnitIdentified, Registered, Refused

LEMMA DepartKeeps ==
  ASSUME LabelInv, NEW u \in Unit, Depart(u)
  PROVE  LabelInv'
<1>1. labelling' = labelling
  BY DEF Depart
<1>2. labels[u] \in UnitLabel /\ labels[u].there /\ Identified(labels[u].data)
  BY DEF Depart, LabelInv, EveryUnitIdentified, Registered
<1>3. PICK row : /\ labels' = [labels EXCEPT ![u] = row]
                 /\ \/ row = [labels[u] EXCEPT !.status = "DAMAGED"]
                    \/ row = [labels[u] EXCEPT !.status = "SOLD", !.data["locationId"] = Null]
  BY DEF Depart
<1>4. row \in UnitLabel /\ Identified(row.data)
  <2>1. CASE row = [labels[u] EXCEPT !.status = "DAMAGED"]
    BY <1>2, <2>1 DEF UnitLabel, LabelStatus
  <2>2. CASE row = [labels[u] EXCEPT !.status = "SOLD", !.data["locationId"] = Null]
    <3> DEFINE data == [labels[u].data EXCEPT !["locationId"] = Null]
    <3>1. data \in [Field -> LabelValue]
      BY <1>2 DEF UnitLabel, LabelValue
    <3>2. row \in UnitLabel /\ row.data = data
      BY <1>2, <2>2, <3>1 DEF UnitLabel, LabelStatus
    <3>3. \A f \in Column : f \in Field /\ data[f] = labels[u].data[f]
      BY <1>2 DEF UnitLabel, Column, Field
    <3>4. Identified(data)
      BY <1>2, <3>1, <3>3 DEF Identified, Entries, UnitLabel
    <3> QED
      BY <3>2, <3>4
  <2> QED
    BY <1>3, <2>1, <2>2
<1>5. labels' \in [Unit -> UnitLabel] /\ \A x \in Unit : labels'[x] = IF x = u THEN row ELSE labels[x]
  BY <1>3, <1>4 DEF LabelInv
<1>6. EveryUnitIdentified'
  BY <1>4, <1>5 DEF LabelInv, EveryUnitIdentified, Registered
<1> QED
  BY <1>1, <1>5, <1>6 DEF LabelInv

-----------------------------------------------------------------------------
LEMMA LabelsBegin ==
  ASSUME InitLabels
  PROVE  LabelInv
<1>1. EveryUnitIdentified
  <2> SUFFICES ASSUME NEW u \in Registered
               PROVE  Identified(labels[u].data)
    BY DEF EveryUnitIdentified
  <2>1. u \in Unit /\ OpeningLabels[u].there /\ labels[u] = OpeningLabels[u]
    BY DEF InitLabels, Registered
  <2>2. PICK f \in Column : OpeningLabels[u].data[f] # Null
    BY <2>1, LabelAssumption
  <2>3. OpeningLabels[u].data \in [Field -> LabelValue]
    BY <2>1, LabelAssumption DEF UnitLabel
  <2>4. f \in DOMAIN labels[u].data /\ labels[u].data[f] # Null
    BY <2>1, <2>2, <2>3 DEF Field
  <2> QED
    BY <2>4 DEF Identified, Entries
<1> QED
  BY <1>1, LabelAssumption DEF InitLabels, LabelInv

LEMMA LabelsKept ==
  ASSUME LabelInv, [LabelNext]_labelVars
  PROVE  LabelInv'
<1>1. ASSUME NEW r \in LabelReq, ReadLabels(r) \/ WriteLabels(r) \/ AbortLabels(r)
      PROVE  LabelInv'
  BY <1>1, ReadLabelsKeeps, WriteLabelsKeeps, AbortLabelsKeeps
<1>2. CASE UNCHANGED labelVars
  BY <1>2 DEF labelVars, LabelInv, EveryUnitIdentified, Registered
<1> QED
  BY <1>1, <1>2, DepartKeeps DEF LabelNext

(* Whatever registrations, patches and tag writes overlap, however many    *)
(* there are, every registered unit has an identifier: product-unit.service*)
(* "must include assetTag, serialNumber, or rfidTag".                      *)
THEOREM AlwaysIdentified == LabelSpec => []EveryUnitIdentified
<1>1. LabelInv => EveryUnitIdentified
  BY DEF LabelInv
<1> QED
  BY <1>1, LabelsBegin, LabelsKept, PTL DEF LabelSpec

-----------------------------------------------------------------------------
(* What a handler's reads have shown of the rows it is about to give: their*)
(* identifiers are those of no other unit there is, nor of each other; and *)
(* a row that is new is given in all its columns.                          *)
Free(values) ==
  /\ DOMAIN values \subseteq Unit
  /\ \A u \in DOMAIN values : u \in Registered \/ Column \subseteq DOMAIN values[u]
  /\ \A u \in DOMAIN values : \A f \in Entries(values[u]), x \in Registered \ {u}, g \in Column :
        values[u][f] # labels[x].data[g]
  /\ \A u, x \in DOMAIN values : u # x =>
        \A f \in Entries(values[u]), g \in Entries(values[x]) : values[u][f] # values[x][g]

(* An identifier of a row as written is given, or was the unit's own.      *)
IsGiven(values, u, f, value) == u \in DOMAIN values /\ f \in Entries(values[u]) /\ value = values[u][f]
IsOwn(u, f, value) == u \in Registered /\ f \in Entries(labels[u].data) /\ value = labels[u].data[f]

LEMMA GivenOrOwn ==
  ASSUME labels \in [Unit -> UnitLabel], NEW values, Free(values), NEW u \in Unit,
         Relabelled(values)[u].there, NEW f \in Entries(Relabelled(values)[u].data)
  PROVE  \/ IsGiven(values, u, f, Relabelled(values)[u].data[f])
         \/ IsOwn(u, f, Relabelled(values)[u].data[f])
<1> DEFINE row == Relabelled(values)[u]
<1>1. labels[u] \in UnitLabel /\ DOMAIN labels[u].data = Field
  BY DEF UnitLabel
<1>2. CASE u \in DOMAIN values
  <2>1. row = [labels[u] EXCEPT !.there = TRUE, !.data = Over(values[u], labels[u].data)]
    BY <1>2 DEF Relabelled
  <2>2. row.data = Over(values[u], labels[u].data)
    BY <2>1, <1>1 DEF UnitLabel
  <2>3. f \in Column /\ f \in DOMAIN row.data /\ row.data[f] # Null
    BY DEF Entries
  <2>4. CASE f \in DOMAIN values[u]
    <3>1. row.data[f] = values[u][f]
      BY <2>2, <2>3, <2>4 DEF Over
    <3> QED
      BY <1>2, <2>3, <2>4, <3>1 DEF IsGiven, Entries
  <2>5. CASE f \notin DOMAIN values[u]
    <3>1. row.data[f] = labels[u].data[f] /\ f \in DOMAIN labels[u].data
      BY <2>2, <2>3, <2>5 DEF Over
    <3>2. u \in Registered
      BY <1>2, <2>3, <2>5 DEF Free
    <3> QED
      BY <2>3, <3>1, <3>2 DEF IsOwn, Entries
  <2> QED
    BY <2>4, <2>5
<1>3. CASE u \notin DOMAIN values
  <2>1. row = labels[u]
    BY <1>3 DEF Relabelled
  <2> QED
    BY <2>1 DEF IsOwn, Registered
<1> QED
  BY <1>2, <1>3

LEMMA FreeRowsFit ==
  ASSUME labels \in [Unit -> UnitLabel], ScansApart(labels), NEW values, Free(values)
  PROVE  ScansApart(Relabelled(values))
<1> DEFINE written == Relabelled(values)
<1> SUFFICES ASSUME NEW u \in Unit, NEW x \in Unit, u # x, written[u].there, written[x].there,
                    NEW f \in Entries(written[u].data), NEW g \in Entries(written[x].data)
             PROVE  written[u].data[f] # written[x].data[g]
  BY DEF ScansApart
<1>1. IsGiven(values, u, f, written[u].data[f]) \/ IsOwn(u, f, written[u].data[f])
  BY GivenOrOwn
<1>2. IsGiven(values, x, g, written[x].data[g]) \/ IsOwn(x, g, written[x].data[g])
  BY GivenOrOwn
<1>3. f \in Column /\ g \in Column
  BY DEF Entries
<1>4. ASSUME NEW left, NEW right,
             IsGiven(values, u, f, left) \/ IsOwn(u, f, left),
             IsGiven(values, x, g, right) \/ IsOwn(x, g, right)
      PROVE  left # right
  <2>1. CASE IsGiven(values, u, f, left) /\ IsGiven(values, x, g, right)
    BY <2>1 DEF IsGiven, Free
  <2>2. CASE IsGiven(values, u, f, left) /\ IsOwn(x, g, right)
    BY <1>3, <2>2 DEF IsGiven, IsOwn, Free
  <2>3. CASE IsOwn(u, f, left) /\ IsGiven(values, x, g, right)
    BY <1>3, <2>3 DEF IsGiven, IsOwn, Free
  <2>4. CASE IsOwn(u, f, left) /\ IsOwn(x, g, right)
    BY <2>4 DEF IsOwn, Registered, ScansApart
  <2> QED
    BY <1>4, <2>1, <2>2, <2>3, <2>4
<1> QED
  BY <1>1, <1>2, <1>4

-----------------------------------------------------------------------------
(* What each handler's checks show.                                        *)
LEMMA RegisterFree ==
  ASSUME NEW r \in LabelRegistrations, NEW inputs \in RegistrationInputs, NEW place \in Place,
         RegisterUnits(r, inputs, place) # Refused
  PROVE  Free(RegisterUnits(r, inputs, place).rows)
<1> DEFINE units == [i \in DOMAIN inputs |-> Normalized(inputs[i])]
           drawn == DrawnUnits[r]
           index(u) == CHOOSE i \in DOMAIN units : drawn[i] = u
           given(u) == Over(units[index(u)], [locationId |-> place])
           values == [u \in {drawn[i] : i \in DOMAIN units} |-> given(u)]
<1>1. /\ EnsurePayloadIdentifiersAreUnique(units)
      /\ EnsureIdentifiersAvailable(units, {})
      /\ RegisterUnits(r, inputs, place) = Relabel(values)
  BY DEF RegisterUnits
<1>2. RegisterUnits(r, inputs, place).rows = values
  BY <1>1 DEF Relabel
<1>3. \A i \in DOMAIN units : DOMAIN units[i] = Column
  BY DEF Normalized
<1>4. {drawn[i] : i \in DOMAIN units} \subseteq Unit
  BY LabelAssumption
<1>5. \A u \in {drawn[i] : i \in DOMAIN units} : index(u) \in DOMAIN units /\ drawn[index(u)] = u
  OBVIOUS
<1> HIDE DEF units, drawn, index
<1>6. ASSUME NEW u \in DOMAIN values
      PROVE  /\ Column \subseteq DOMAIN values[u]
             /\ \A f \in Entries(values[u]) : f \in Entries(units[index(u)]) /\ values[u][f] = units[index(u)][f]
  <2>1. values[u] = Over(units[index(u)], [locationId |-> place]) /\ index(u) \in DOMAIN units
    BY <1>5
  <2>2. \A f \in Column : f \in DOMAIN values[u] /\ values[u][f] = units[index(u)][f]
    BY <1>3, <2>1 DEF Over
  <2> HIDE DEF values
  <2> QED
    BY <1>3, <2>1, <2>2 DEF Entries
<1>7. \A u \in DOMAIN values : u \in Unit /\ index(u) \in DOMAIN units /\ drawn[index(u)] = u
  BY <1>4, <1>5
<1> HIDE DEF values
<1>8. ASSUME NEW u \in DOMAIN values, NEW f \in Entries(values[u]), NEW x \in Registered \ {u},
             NEW g \in Column
      PROVE  values[u][f] # labels[x].data[g]
  BY <1>1, <1>6, <1>7 DEF EnsureIdentifiersAvailable
<1>9. ASSUME NEW u \in DOMAIN values, NEW x \in DOMAIN values, u # x,
             NEW f \in Entries(values[u]), NEW g \in Entries(values[x])
      PROVE  values[u][f] # values[x][g]
  BY <1>1, <1>6, <1>7, <1>9 DEF EnsurePayloadIdentifiersAreUnique
<1>10. Free(values)
  BY <1>6, <1>7, <1>8, <1>9 DEF Free
<1> QED
  BY <1>2, <1>10

LEMMA OneRowFree ==
  ASSUME NEW u \in Registered, NEW data, NEW checked,
         Entries(checked) = Entries(data), \A f \in Entries(data) : checked[f] = data[f],
         EnsureIdentifiersAvailable(<<checked>>, {u})
  PROVE  Free([x \in {u} |-> data])
<1>1. \A f \in Entries(data), x \in Registered \ {u}, g \in Column : data[f] # labels[x].data[g]
  BY DEF EnsureIdentifiersAvailable
<1>2. u \in Unit
  BY DEF Registered
<1> QED
  BY <1>1, <1>2 DEF Free

LEMMA PatchFree ==
  ASSUME NEW u \in Registered, NEW body \in PatchBodies, UpdateProductUnit(u, body) # Refused
  PROVE  Free(UpdateProductUnit(u, body).rows)
<1> DEFINE data == BuildPatchData(body)
           toCheck == [f \in Entries(data) |-> data[f]]
           values == [x \in {u} |-> data]
<1>1. /\ EnsureIdentifiersAvailable(<<toCheck>>, {u})
      /\ UpdateProductUnit(u, body) = [Relabel(values) EXCEPT !.sent = DOMAIN body]
  BY DEF UpdateProductUnit
<1>2. UpdateProductUnit(u, body).rows = values
  BY <1>1 DEF Relabel
<1> HIDE DEF data
<1>3. Entries(toCheck) = Entries(data) /\ \A f \in Entries(data) : toCheck[f] = data[f]
  BY DEF Entries
<1> HIDE DEF toCheck
<1>4. Free(values)
  BY <1>1, <1>3, OneRowFree, ZenonT(30)
<1> QED
  BY <1>2, <1>4

LEMMA TagFree ==
  ASSUME NEW u \in Registered, NEW tag \in Tag, WriteProductUnitTag(u, tag) # Refused
  PROVE  Free(WriteProductUnitTag(u, tag).rows)
<1> DEFINE written == [rfidTag |-> tag]
<1>1. /\ EnsureIdentifiersAvailable(<<written>>, {u})
      /\ WriteProductUnitTag(u, tag) = Relabel([x \in {u} |-> written])
  BY DEF WriteProductUnitTag
<1>2. Free([x \in {u} |-> written])
  BY <1>1, OneRowFree
<1> QED
  BY <1>1, <1>2 DEF Relabel

LEMMA DecisionsFree ==
  ASSUME NEW r \in LabelReq, NEW decision \in LabelDecisions(r) \ {Refused}
  PROVE  Free(decision.rows)
<1>1. CASE r \in LabelRegistrations
  <2>1. PICK inputs \in RegistrationInputs, place \in Place :
           decision = RegisterUnits(r, inputs, place)
    BY <1>1 DEF LabelDecisions
  <2> QED
    BY <1>1, <2>1, RegisterFree
<1>2. CASE r \notin LabelRegistrations /\ r \in Patches
  <2>1. PICK u \in Registered, body \in PatchBodies : decision = UpdateProductUnit(u, body)
    BY <1>2 DEF LabelDecisions
  <2> QED
    BY <2>1, PatchFree
<1>3. CASE r \notin LabelRegistrations /\ r \notin Patches
  <2>1. PICK u \in Registered, tag \in Tag : decision = WriteProductUnitTag(u, tag)
    BY <1>3 DEF LabelDecisions, LabelReq
  <2> QED
    BY <2>1, TagFree
<1> QED
  BY <1>1, <1>2, <1>3

(* Whatever is registered, patched or tagged, a handler nobody overtakes   *)
(* keeps every identifier on one unit (product-unit.service,               *)
(* ensureIdentifiersAvailable), in whichever columns the two stand, for any*)
(* number of units and for every body its client may send.                 *)
THEOREM FreshLabelsAlwaysFit == LabelSpec => []FreshLabelsFit
<1>1. LabelInv => FreshLabelsFit
  <2> SUFFICES ASSUME LabelInv, ScansApart(labels), NEW r \in LabelReq,
                      NEW decision \in LabelDecisions(r) \ {Refused}
               PROVE  ScansApart(Relabelled(decision.rows))
    BY DEF FreshLabelsFit
  <2>1. Free(decision.rows)
    BY DecisionsFree
  <2> QED
    BY <2>1, FreeRowsFit DEF LabelInv
<1> QED
  BY <1>1, LabelsBegin, LabelsKept, PTL DEF LabelSpec

(* TypeOKLabels of every instance: a request that is about to write names  *)
(* units and gives their columns identifiers.                              *)
THEOREM LabelTypesCorrect == LabelSpec => []TypeOKLabels
<1>1. LabelInv => TypeOKLabels
  BY DEF LabelInv, TypeOKLabels, Carries
<1> QED
  BY <1>1, LabelsBegin, LabelsKept, PTL DEF LabelSpec

-----------------------------------------------------------------------------
(***************************************************************************)
(* A deletion takes nothing of another tenant: not its owner, not an       *)
(* account or a photo of it.  The invariant follows an account from the    *)
(* moment a deletion has sorted it as one of its own: until the commit it  *)
(* belongs to no other tenant but those it joined since, as a member, and  *)
(* the deletion knows these memberships as late.                           *)
(***************************************************************************)

Gone(o) == orgs[o].used /\ ~ orgs[o].there

(* A deletion that has sorted the accounts and has not committed.          *)
Sorted(r) == wipe[r].pc \in {"accounts", "tenant"}

TypesTenants ==
  /\ orgs \in [Org -> OrgRow] /\ users \subseteq User /\ members \subseteq Member
  /\ legacy \in [User -> Org \cup {NoOrg}] /\ rows \subseteq Business
  /\ session \in [User -> Org \cup {NoOrg, SignedOut}] /\ clock \in Nat
  /\ wipe \in [Wipes -> WipeRow]

(* What there is belongs to a tenant there is.                             *)
OrgsInOrder ==
  /\ \A o \in Org : orgs[o].there => orgs[o].used
  /\ \A m \in members : orgs[m.org].there /\ m.user \in users
  /\ \A x \in rows : orgs[OrgOf[x]].there

WipesInOrder ==
  \A r \in Wipes :
     /\ wipe[r].pc \in {"rows", "sort", "accounts", "tenant", "purge"} => orgs[WipedOrg[r]].used
     /\ wipe[r].pc = "purge" => ~ orgs[WipedOrg[r]].there
     /\ wipe[r].pc \in {"idle", "rows"} => wipe[r].at <= Len(DeletionOrder)
     /\ \A x \in wipe[r].gone : OrgOf[x] = WipedOrg[r]

VictimsExclusive ==
  \A r \in Wipes : Sorted(r) =>
     \A m \in members : m.user \in wipe[r].victims /\ m.org # WipedOrg[r] =>
        m.role = "member" /\ m \in wipe[r].late

TenantInv ==
  TypesTenants /\ OrgsInOrder /\ WipesInOrder /\ VictimsExclusive /\ EveryTenantOwned

(* Tenants end once, and take their rows along.                            *)
Lasting ==
  /\ \A o \in Org : Gone(o) => Gone(o)'
  /\ \A x \in rows : x \in rows' \/ Gone(OrgOf[x])'

-----------------------------------------------------------------------------
(* Steps that only move deletions on.                                      *)
LEMMA WipesMove ==
  ASSUME TenantInv, UNCHANGED <<orgs, users, legacy, members, rows, session>>, clock' \in Nat,
         wipe' \in [Wipes -> WipeRow], WipesInOrder',
         \A q \in Wipes : Sorted(q)' => /\ Sorted(q) /\ wipe'[q].victims = wipe[q].victims
                                        /\ wipe'[q].late = wipe[q].late
  PROVE  TenantInv' /\ Lasting
<1>1. TypesTenants' /\ OrgsInOrder' /\ EveryTenantOwned'
  BY DEF TenantInv, TypesTenants, OrgsInOrder, EveryTenantOwned, Living
<1>2. VictimsExclusive'
  BY DEF TenantInv, VictimsExclusive
<1>3. Lasting
  BY DEF Lasting, Gone
<1> QED
  BY <1>1, <1>2, <1>3 DEF TenantInv

LEMMA FailedMoves ==
  ASSUME TenantInv, NEW r \in Wipes, NEW blockers \in SUBSET Business,
         wipe' = Failed(r, blockers), WipeUnchanged
  PROVE  TenantInv' /\ Lasting
<1>1. wipe[r] \in WipeRow
  BY DEF TenantInv, TypesTenants
<1>2. \A q \in Wipes : wipe'[q] =
         IF q = r THEN [wipe[r] EXCEPT !.pc = "failed", !.gone = {}, !.blockers = blockers] ELSE wipe[q]
  BY DEF Failed, TenantInv, TypesTenants
<1>3. [wipe[r] EXCEPT !.pc = "failed", !.gone = {}, !.blockers = blockers] \in WipeRow
  BY <1>1 DEF WipeRow
<1>4. wipe' \in [Wipes -> WipeRow]
  BY <1>2, <1>3 DEF Failed, TenantInv, TypesTenants
<1>5. wipe'[r].pc = "failed" /\ wipe'[r].gone = {}
  BY <1>1, <1>2 DEF WipeRow
<1>6. WipesInOrder'
  BY <1>2, <1>5 DEF TenantInv, WipesInOrder, WipeUnchanged
<1>7. \A q \in Wipes : Sorted(q)' => /\ Sorted(q) /\ wipe'[q].victims = wipe[q].victims
                                     /\ wipe'[q].late = wipe[q].late
  BY <1>2, <1>5 DEF Sorted, WipeUnchanged
<1>8. clock' \in Nat
  BY DEF WipeUnchanged, TenantInv, TypesTenants
<1> QED
  BY <1>4, <1>6, <1>7, <1>8, WipesMove DEF WipeUnchanged

LEMMA RestrictingType ==
  ASSUME TenantInv, NEW S, NEW gone
  PROVE  Restricting(S, gone) \in SUBSET Business
BY DEF Restricting, TenantInv, TypesTenants

LEMMA DeletionOrderLength == Len(DeletionOrder) = 12
BY DEF DeletionOrder, DELETED_TABLES

LEMMA BeginWipeKeeps ==
  ASSUME TenantInv, NEW r \in Wipes, BeginWipe(r)
  PROVE  TenantInv' /\ Lasting
<1> DEFINE pc == IF orgs[WipedOrg[r]].there THEN "rows" ELSE "failed"
<1>1. wipe[r] \in WipeRow /\ WipedOrg[r] \in Org
  BY TenantAssumption DEF TenantInv, TypesTenants
<1>2. \A q \in Wipes : wipe'[q] = IF q = r THEN [wipe[r] EXCEPT !.pc = pc] ELSE wipe[q]
  BY DEF BeginWipe, TenantInv, TypesTenants
<1>3. /\ wipe'[r] \in WipeRow /\ wipe'[r].pc = pc
      /\ wipe'[r].gone = wipe[r].gone /\ wipe'[r].at = wipe[r].at
  BY <1>1, <1>2 DEF WipeRow
<1>4. wipe' \in [Wipes -> WipeRow]
  BY <1>2, <1>3 DEF BeginWipe, TenantInv, TypesTenants
<1>5. WipesInOrder'
  <2> SUFFICES ASSUME NEW q \in Wipes
               PROVE  /\ wipe'[q].pc \in {"rows", "sort", "accounts", "tenant", "purge"} =>
                            orgs[WipedOrg[q]].used
                      /\ wipe'[q].pc = "purge" => ~ orgs[WipedOrg[q]].there
                      /\ wipe'[q].pc \in {"idle", "rows"} => wipe'[q].at <= 12
                      /\ \A x \in wipe'[q].gone : OrgOf[x] = WipedOrg[q]
    BY DeletionOrderLength DEF WipesInOrder, BeginWipe, WipeUnchanged, DeletionOrder
  <2>1. CASE q = r
    <3>1. /\ wipe[r].pc = "idle" /\ wipe[r].at <= 12 /\ \A x \in wipe[r].gone : OrgOf[x] = WipedOrg[r]
      BY DeletionOrderLength DEF BeginWipe, TenantInv, WipesInOrder
    <3>2. pc = "rows" => orgs[WipedOrg[r]].used
      BY <1>1 DEF TenantInv, OrgsInOrder
    <3>3. pc \in {"rows", "failed"}
      OBVIOUS
    <3> HIDE DEF pc
    <3> QED
      BY <1>3, <2>1, <3>1, <3>2, <3>3
  <2>2. CASE q # r
    BY <1>2, <2>2, DeletionOrderLength DEF TenantInv, WipesInOrder
  <2> QED
    BY <2>1, <2>2
<1>6. \A q \in Wipes : Sorted(q)' => /\ Sorted(q) /\ wipe'[q].victims = wipe[q].victims
                                     /\ wipe'[q].late = wipe[q].late
  BY <1>2, <1>3 DEF Sorted, BeginWipe, WipeUnchanged
<1>7. clock' \in Nat
  BY DEF BeginWipe, WipeUnchanged, TenantInv, TypesTenants
<1> QED
  BY <1>4, <1>5, <1>6, <1>7, WipesMove DEF BeginWipe, WipeUnchanged

LEMMA EmptyTableKeeps ==
  ASSUME TenantInv, NEW r \in Wipes, EmptyTable(r)
  PROVE  TenantInv' /\ Lasting
<1> DEFINE i == wipe[r].at
           S == {x \in rows \ wipe[r].gone : OrgOf[x] = WipedOrg[r] /\ BusinessTable[x] = DeletionOrder[i]}
           gone == wipe[r].gone \cup WithChildren(S)
           pc == IF i = Len(DeletionOrder) THEN "sort" ELSE "rows"
<1>1. CASE wipe' = Failed(r, Restricting(S, gone))
  BY <1>1, RestrictingType, FailedMoves DEF EmptyTable
<1>2. CASE wipe' = [wipe EXCEPT ![r].gone = gone, ![r].at = i + 1, ![r].pc = pc]
  <2>1. wipe[r] \in WipeRow /\ wipe[r].pc = "rows" /\ WipedOrg[r] \in Org
    BY TenantAssumption DEF EmptyTable, TenantInv, TypesTenants
  <2>2. gone \in SUBSET Business /\ \A x \in gone : OrgOf[x] = WipedOrg[r]
    <3>1. S \subseteq Business /\ rows \subseteq Business
      BY DEF TenantInv, TypesTenants
    <3>2. \A x \in WithChildren(S) : x \in Business /\ OrgOf[x] = WipedOrg[r]
      BY <3>1, TenantAssumption DEF WithChildren
    <3> QED
      BY <2>1, <3>2 DEF TenantInv, WipesInOrder, WipeRow
  <2>3. pc \in {"rows", "sort"}
    OBVIOUS
  <2> HIDE DEF gone, pc
  <2>4. \A q \in Wipes : wipe'[q] =
           IF q = r THEN [wipe[r] EXCEPT !.gone = gone, !.at = i + 1, !.pc = pc] ELSE wipe[q]
    BY <1>2 DEF TenantInv, TypesTenants
  <2>5. i \in 1 .. 12 /\ (pc = "rows" => i + 1 <= 12)
    BY <2>1, DeletionOrderLength DEF TenantInv, WipesInOrder, WipeRow, pc
  <2>6. wipe'[r] \in WipeRow /\ wipe'[r].pc = pc /\ wipe'[r].at = i + 1 /\ wipe'[r].gone = gone
    <3>1. wipe'[r] = [wipe[r] EXCEPT !.gone = gone, !.at = i + 1, !.pc = pc]
      BY <2>4
    <3>2. i + 1 \in 1 .. Len(DeletionOrder) + 1
      BY <2>5, DeletionOrderLength
    <3> QED
      BY <2>1, <2>2, <2>3, <3>1, <3>2 DEF WipeRow
  <2>7. wipe' \in [Wipes -> WipeRow]
    BY <1>2, <2>4, <2>6 DEF TenantInv, TypesTenants
  <2>8. WipesInOrder'
    <3> SUFFICES ASSUME NEW q \in Wipes
                 PROVE  /\ wipe'[q].pc \in {"rows", "sort", "accounts", "tenant", "purge"} =>
                              orgs'[WipedOrg[q]].used
                        /\ wipe'[q].pc = "purge" => ~ orgs'[WipedOrg[q]].there
                        /\ wipe'[q].pc \in {"idle", "rows"} => wipe'[q].at <= 12
                        /\ \A x \in wipe'[q].gone : OrgOf[x] = WipedOrg[q]
      BY DeletionOrderLength DEF WipesInOrder, DeletionOrder
    <3>1. CASE q = r
      BY <2>1, <2>2, <2>3, <2>5, <2>6, <3>1 DEF EmptyTable, WipeUnchanged, TenantInv, WipesInOrder
    <3>2. CASE q # r
      <4>1. orgs' = orgs /\ wipe'[q] = wipe[q]
        BY <2>4, <3>2 DEF EmptyTable, WipeUnchanged
      <4> QED
        BY <4>1, DeletionOrderLength DEF TenantInv, WipesInOrder
    <3> QED
      BY <3>1, <3>2
  <2>9. \A q \in Wipes : Sorted(q)' => /\ Sorted(q) /\ wipe'[q].victims = wipe[q].victims
                                       /\ wipe'[q].late = wipe[q].late
    BY <2>3, <2>4, <2>6 DEF Sorted, EmptyTable, WipeUnchanged
  <2>10. clock' \in Nat
    BY DEF EmptyTable, WipeUnchanged, TenantInv, TypesTenants
  <2> QED
    BY <2>7, <2>8, <2>9, <2>10, WipesMove DEF EmptyTable, WipeUnchanged
<1> QED
  BY <1>1, <1>2 DEF EmptyTable

LEMMA SortAccountsKeeps ==
  ASSUME TenantInv, NEW r \in Wipes, SortAccounts(r)
  PROVE  TenantInv' /\ Lasting
<1> DEFINE o == WipedOrg[r]
           victims == Candidates(o) \ Shared(o)
<1>1. wipe[r] \in WipeRow /\ wipe[r].pc = "sort" /\ o \in Org /\ orgs[o].used
  BY TenantAssumption DEF SortAccounts, TenantInv, TypesTenants, WipesInOrder
<1>2. victims \in SUBSET User
  BY DEF Candidates, TenantInv, TypesTenants, Member
<1>3. /\ wipe' = [wipe EXCEPT ![r].victims = victims, ![r].pc = "accounts"]
      /\ UNCHANGED <<orgs, users, legacy, members, rows, session, clock>>
  BY DEF SortAccounts, WipeUnchanged
<1>4. \A m \in members : m.user \in victims => m.org = o
  BY DEF Shared
<1> HIDE DEF victims
<1>5. \A q \in Wipes : wipe'[q] =
         IF q = r THEN [wipe[r] EXCEPT !.victims = victims, !.pc = "accounts"] ELSE wipe[q]
  BY <1>3 DEF TenantInv, TypesTenants
<1>6. /\ wipe'[r] \in WipeRow /\ wipe'[r].pc = "accounts" /\ wipe'[r].victims = victims
      /\ wipe'[r].gone = wipe[r].gone
  <2>1. wipe'[r] = [wipe[r] EXCEPT !.victims = victims, !.pc = "accounts"]
    BY <1>5
  <2>2. [wipe[r] EXCEPT !.victims = victims, !.pc = "accounts"] \in WipeRow
    BY <1>1, <1>2 DEF WipeRow
  <2>3. /\ wipe'[r].pc = "accounts" /\ wipe'[r].victims = victims
        /\ wipe'[r].gone = wipe[r].gone
    BY <1>1, <2>1 DEF WipeRow
  <2> QED
    BY <2>1, <2>2, <2>3
<1>7. wipe' \in [Wipes -> WipeRow]
  BY <1>3, <1>5, <1>6 DEF TenantInv, TypesTenants
<1>8. TypesTenants' /\ OrgsInOrder' /\ EveryTenantOwned'
  BY <1>3, <1>7 DEF TenantInv, TypesTenants, OrgsInOrder, EveryTenantOwned, Living
<1>9. WipesInOrder'
  <2> SUFFICES ASSUME NEW q \in Wipes
               PROVE  /\ wipe'[q].pc \in {"rows", "sort", "accounts", "tenant", "purge"} =>
                            orgs[WipedOrg[q]].used
                      /\ wipe'[q].pc = "purge" => ~ orgs[WipedOrg[q]].there
                      /\ wipe'[q].pc \in {"idle", "rows"} => wipe'[q].at <= 12
                      /\ \A x \in wipe'[q].gone : OrgOf[x] = WipedOrg[q]
    BY <1>3, DeletionOrderLength DEF WipesInOrder, DeletionOrder
  <2>1. CASE q = r
    BY <1>1, <1>6, <2>1 DEF TenantInv, WipesInOrder
  <2>2. CASE q # r
    BY <1>5, <2>2, DeletionOrderLength DEF TenantInv, WipesInOrder
  <2> QED
    BY <2>1, <2>2
<1>10. \A q \in Wipes : q # r => /\ wipe'[q] = wipe[q]
                                 /\ Sorted(q)' <=> Sorted(q)
  BY <1>3, <1>5 DEF Sorted
<1>11. VictimsExclusive'
  BY <1>3, <1>4, <1>6, <1>10 DEF TenantInv, VictimsExclusive
<1>12. Lasting
  BY <1>3 DEF Lasting, Gone
<1> QED
  BY <1>8, <1>9, <1>11, <1>12 DEF TenantInv

LEMMA DeleteAccountsKeeps ==
  ASSUME TenantInv, NEW r \in Wipes, DeleteAccounts(r)
  PROVE  TenantInv' /\ Lasting
<1>1. CASE wipe' = Failed(r, Restricting(wipe[r].victims, wipe[r].gone))
  BY <1>1, RestrictingType, FailedMoves DEF DeleteAccounts
<1>2. CASE wipe' = [wipe EXCEPT ![r].pc = "tenant"]
  <2>1. wipe[r] \in WipeRow /\ wipe[r].pc = "accounts"
    BY DEF DeleteAccounts, TenantInv, TypesTenants
  <2>2. \A q \in Wipes : wipe'[q] = IF q = r THEN [wipe[r] EXCEPT !.pc = "tenant"] ELSE wipe[q]
    BY <1>2 DEF TenantInv, TypesTenants
  <2>3. /\ wipe'[r] \in WipeRow /\ wipe'[r].pc = "tenant"
        /\ wipe'[r].victims = wipe[r].victims /\ wipe'[r].late = wipe[r].late
        /\ wipe'[r].gone = wipe[r].gone
    BY <2>1, <2>2 DEF WipeRow
  <2>4. wipe' \in [Wipes -> WipeRow]
    BY <1>2, <2>2, <2>3 DEF TenantInv, TypesTenants
  <2>5. WipesInOrder'
    BY <2>1, <2>2, <2>3 DEF DeleteAccounts, WipeUnchanged, TenantInv, WipesInOrder
  <2>6. \A q \in Wipes : Sorted(q)' => /\ Sorted(q) /\ wipe'[q].victims = wipe[q].victims
                                       /\ wipe'[q].late = wipe[q].late
    BY <2>1, <2>2, <2>3 DEF Sorted, DeleteAccounts, WipeUnchanged
  <2>7. clock' \in Nat
    BY DEF DeleteAccounts, WipeUnchanged, TenantInv, TypesTenants
  <2> QED
    BY <2>4, <2>5, <2>6, <2>7, WipesMove DEF DeleteAccounts, WipeUnchanged
<1> QED
  BY <1>1, <1>2 DEF DeleteAccounts

LEMMA DestroyKeeps ==
  ASSUME TenantInv, NEW r \in Wipes, DestroyProductImages(r)
  PROVE  TenantInv' /\ Lasting
<1>1. wipe[r] \in WipeRow /\ wipe[r].pc = "purge" /\ wipe' = [wipe EXCEPT ![r].pc = "ok"]
  BY DEF DestroyProductImages, PurgeWhen, TenantInv, TypesTenants
<1>2. \A q \in Wipes : wipe'[q] = IF q = r THEN [wipe[r] EXCEPT !.pc = "ok"] ELSE wipe[q]
  BY <1>1 DEF TenantInv, TypesTenants
<1>3. wipe'[r] \in WipeRow /\ wipe'[r].pc = "ok" /\ wipe'[r].gone = wipe[r].gone
  BY <1>1, <1>2 DEF WipeRow
<1>4. wipe' \in [Wipes -> WipeRow]
  BY <1>1, <1>2, <1>3 DEF TenantInv, TypesTenants
<1>5. UNCHANGED <<orgs, users, legacy, members, rows, session, clock>>
  BY DEF DestroyProductImages
<1>6. WipesInOrder'
  BY <1>2, <1>3, <1>5 DEF TenantInv, WipesInOrder
<1>7. \A q \in Wipes : Sorted(q)' => /\ Sorted(q) /\ wipe'[q].victims = wipe[q].victims
                                     /\ wipe'[q].late = wipe[q].late
  BY <1>2, <1>3, <1>5 DEF Sorted
<1>8. clock' \in Nat
  BY <1>5 DEF TenantInv, TypesTenants
<1> QED
  BY <1>4, <1>5, <1>6, <1>7, <1>8, WipesMove

LEMMA DeleteTenantKeeps ==
  ASSUME TenantInv, NEW r \in Wipes, DeleteTenant(r)
  PROVE  TenantInv' /\ Lasting
<1> DEFINE o == WipedOrg[r]
           victims == wipe[r].victims
           left == {x \in rows \ wipe[r].gone : OrgOf[x] = o}
<1>1. CASE wipe' = Failed(r, left) /\ WipeUnchanged
  <2>1. left \in SUBSET Business
    BY DEF TenantInv, TypesTenants
  <2> QED
    BY <1>1, <2>1, FailedMoves
<1>2. CASE /\ orgs[o].there /\ left = {}
           /\ orgs' = [orgs EXCEPT ![o].there = FALSE]
           /\ users' = users \ victims
           /\ members' = {m \in members : m.org # o /\ m.user \notin victims}
           /\ legacy' = [u \in User |-> IF legacy[u] = o THEN NoOrg ELSE legacy[u]]
           /\ rows' = rows \ wipe[r].gone
           /\ session' = [u \in User |-> IF u \in victims THEN SignedOut ELSE session[u]]
           /\ wipe' = [wipe EXCEPT ![r].pc = "purge", ![r].gone = {}]
           /\ UNCHANGED <<clock, daysLeft>>
  <2>1. /\ wipe[r] \in WipeRow /\ wipe[r].pc = "tenant" /\ o \in Org /\ victims \subseteq User
        /\ Sorted(r)
    BY TenantAssumption DEF DeleteTenant, TenantInv, TypesTenants, WipeRow, Sorted
  <2>18. /\ \A x \in rows : OrgOf[x] = o => x \in wipe[r].gone
         /\ \A x \in rows : OrgOf[x] \in Org
    BY <1>2, TenantAssumption DEF TenantInv, TypesTenants
  <2>19. /\ users' = users \ victims
         /\ \A m : m \in members' <=> m \in members /\ m.org # o /\ m.user \notin victims
         /\ \A u \in User : legacy'[u] = IF legacy[u] = o THEN NoOrg ELSE legacy[u]
         /\ rows' = rows \ wipe[r].gone
         /\ \A u \in User : session'[u] = IF u \in victims THEN SignedOut ELSE session[u]
    BY <1>2
  <2>2. \A q \in Wipes : wipe'[q] =
           IF q = r THEN [wipe[r] EXCEPT !.pc = "purge", !.gone = {}] ELSE wipe[q]
    BY <1>2 DEF TenantInv, TypesTenants
  <2>3. wipe'[r] \in WipeRow /\ wipe'[r].pc = "purge" /\ wipe'[r].gone = {}
    <3>1. wipe'[r] = [wipe[r] EXCEPT !.pc = "purge", !.gone = {}]
      BY <2>2
    <3> QED
      BY <2>1, <3>1 DEF WipeRow
  <2>4. wipe' \in [Wipes -> WipeRow]
    BY <1>2, <2>2, <2>3 DEF TenantInv, TypesTenants
  <2>5. \A p \in Org : /\ orgs'[p] \in OrgRow
                       /\ orgs'[p].used = orgs[p].used
                       /\ orgs'[p].there <=> orgs[p].there /\ p # o
    <3> SUFFICES ASSUME NEW p \in Org
                 PROVE  /\ orgs'[p] \in OrgRow
                        /\ orgs'[p].used = orgs[p].used
                        /\ orgs'[p].there <=> orgs[p].there /\ p # o
      OBVIOUS
    <3>1. orgs[p] \in OrgRow
      BY DEF TenantInv, TypesTenants
    <3>2. orgs'[p] = IF p = o THEN [orgs[p] EXCEPT !.there = FALSE] ELSE orgs[p]
      BY <1>2 DEF TenantInv, TypesTenants
    <3>3. CASE p = o
      <4>1. /\ orgs'[p] \in OrgRow
            /\ orgs'[p].used = orgs[p].used
            /\ orgs'[p].there = FALSE
        BY <3>1, <3>2, <3>3 DEF OrgRow
      <4> QED
        BY <3>3, <4>1
    <3>4. CASE p # o
      BY <3>1, <3>2, <3>4
    <3> QED
      BY <3>3, <3>4
  <2>6. TypesTenants'
    <3>1. orgs' \in [Org -> OrgRow]
      BY <1>2, <2>5 DEF TenantInv, TypesTenants
    <3>2. legacy' \in [User -> Org \cup {NoOrg}] /\ session' \in [User -> Org \cup {NoOrg, SignedOut}]
      BY <1>2 DEF TenantInv, TypesTenants
    <3> QED
      BY <1>2, <2>4, <3>1, <3>2 DEF TenantInv, TypesTenants
  <2>7. \A m \in members : m.org \in Org /\ m.user \in User
    BY DEF TenantInv, TypesTenants, Member
  <2>8. \A x \in rows' : x \in rows /\ OrgOf[x] # o /\ OrgOf[x] \in Org
    BY <2>18, <2>19
  <2>21. \A p \in Org : orgs'[p].there <=> orgs[p].there /\ p # o
    BY <2>5
  <2>22. \A p \in Org : orgs'[p].used = orgs[p].used
    BY <2>5
  <2> HIDE DEF o, victims, left
  <2>9. OrgsInOrder'
    BY <2>7, <2>8, <2>19, <2>21, <2>22 DEF TenantInv, OrgsInOrder
  <2>11. WipesInOrder'
    <3> SUFFICES ASSUME NEW q \in Wipes
                 PROVE  /\ wipe'[q].pc \in {"rows", "sort", "accounts", "tenant", "purge"} =>
                              orgs'[WipedOrg[q]].used
                        /\ wipe'[q].pc = "purge" => ~ orgs'[WipedOrg[q]].there
                        /\ wipe'[q].pc \in {"idle", "rows"} => wipe'[q].at <= 12
                        /\ \A x \in wipe'[q].gone : OrgOf[x] = WipedOrg[q]
      BY DeletionOrderLength DEF WipesInOrder, DeletionOrder
    <3>1. WipedOrg[q] \in Org
      BY TenantAssumption
    <3>2. CASE q = r
      BY <2>1, <2>3, <2>21, <2>22, <3>1, <3>2 DEF o, TenantInv, WipesInOrder
    <3>3. CASE q # r
      BY <2>2, <2>21, <2>22, <3>1, <3>3, DeletionOrderLength DEF TenantInv, WipesInOrder
    <3> QED
      BY <3>2, <3>3
  <2>12. \A q \in Wipes : Sorted(q)' => Sorted(q) /\ wipe'[q] = wipe[q]
    BY <2>2, <2>3 DEF Sorted
  <2>13. VictimsExclusive'
    BY <2>12, <2>19 DEF TenantInv, VictimsExclusive
  <2>15. EveryTenantOwned'
    <3> SUFFICES ASSUME NEW p \in Org, orgs'[p].there
                 PROVE  \E m \in members' : m.org = p /\ m.role = "owner"
      BY DEF EveryTenantOwned, Living
    <3>1. orgs[p].there /\ p # o
      BY <2>21
    <3>2. PICK m \in members : m.org = p /\ m.role = "owner"
      BY <3>1 DEF TenantInv, EveryTenantOwned, Living
    <3>3. m.user \notin victims
      <4> SUFFICES ASSUME m.user \in victims
                   PROVE  FALSE
        OBVIOUS
      <4>1. m.role = "member"
        BY <2>1, <3>1, <3>2 DEF o, victims, TenantInv, VictimsExclusive
      <4> QED
        BY <3>2, <4>1
    <3> QED
      BY <2>19, <3>1, <3>2, <3>3
  <2>17. Lasting
    <3>1. \A p \in Org : Gone(p) => Gone(p)'
      BY <2>21, <2>22 DEF Gone
    <3>2. ASSUME NEW x \in rows, x \notin rows'
          PROVE  Gone(OrgOf[x])'
      <4>1. OrgOf[x] = o /\ orgs[o].used
        BY <2>1, <2>19, <3>2 DEF o, TenantInv, WipesInOrder
      <4> QED
        BY <2>1, <2>21, <2>22, <4>1 DEF Gone
    <3> QED
      BY <3>1, <3>2 DEF Lasting
  <2> QED
    BY <2>6, <2>9, <2>11, <2>13, <2>15, <2>17 DEF TenantInv
<1> QED
  BY <1>1, <1>2 DEF DeleteTenant

-----------------------------------------------------------------------------
(* Steps of the operator, the accounts and the tenants.                    *)
LEMMA TrialEndType ==
  ASSUME TenantInv, NEW days \in Nat
  PROVE  TrialEnd(days) \in Nat \cup {Never}
BY DEF TrialEnd, TenantInv, TypesTenants

LEMMA CreateOrganizationKeeps ==
  ASSUME TenantInv, NEW m \in Founded, NEW days \in Nat, NEW plan \in {"BASIC", "PRO"},
         CreateOrganization(m, days, plan)
  PROVE  TenantInv' /\ Lasting
<1> DEFINE row == [used |-> TRUE, there |-> TRUE, isActive |-> TRUE,
                   trialEndsAt |-> TrialEnd(days), plan |-> plan]
<1>1. /\ m \in Member /\ m.org \in Org /\ m.user \in User /\ m.role = "owner"
      /\ \A q \in Wipes : m.user \notin wipe[q].victims
      /\ ~ orgs[m.org].used
  BY TenantAssumption DEF CreateOrganization, NewUser, Member
<1>2. /\ orgs' = [orgs EXCEPT ![m.org] = row]
      /\ users' = users \cup {m.user} /\ members' = members \cup {m}
      /\ rows' = rows \cup DefaultTypes[m.org]
      /\ UNCHANGED <<legacy, session, clock, wipe>>
  BY DEF CreateOrganization
<1>3. users \subseteq users' /\ m.user \in users'
  BY <1>2
<1>4. row \in OrgRow /\ row.used /\ row.there
  BY TrialEndType DEF OrgRow
<1> HIDE DEF row
<1>5. \A o \in Org : orgs'[o] = IF o = m.org THEN row ELSE orgs[o]
  BY <1>2 DEF TenantInv, TypesTenants
<1>6. \A o \in Org : /\ orgs[o].there => orgs'[o].there /\ o # m.org
                     /\ orgs[o].used => orgs'[o] = orgs[o]
                     /\ orgs'[o].there => o = m.org \/ orgs[o].there
  BY <1>1, <1>4, <1>5 DEF TenantInv, OrgsInOrder
<1>7. DefaultTypes[m.org] \subseteq Business /\ \A x \in DefaultTypes[m.org] : OrgOf[x] = m.org
  BY <1>1, TenantAssumption
<1>8. TypesTenants'
  BY <1>1, <1>2, <1>4, <1>7 DEF TenantInv, TypesTenants
<1>9. OrgsInOrder'
  <2>1. \A o \in Org : orgs'[o].there => orgs'[o].used
    BY <1>4, <1>5 DEF TenantInv, OrgsInOrder
  <2>2. \A x \in members' : orgs'[x.org].there /\ x.user \in users'
    <3> SUFFICES ASSUME NEW x \in members'
                 PROVE  orgs'[x.org].there /\ x.user \in users'
      OBVIOUS
    <3>1. CASE x = m
      BY <1>1, <1>4, <1>5, <1>3, <3>1
    <3>2. CASE x \in members
      <4>1. x.org \in Org
        BY <3>2 DEF TenantInv, TypesTenants, Member
      <4> QED
        BY <1>6, <1>3, <3>2, <4>1 DEF TenantInv, OrgsInOrder
    <3>3. members' = members \cup {m}
      BY <1>2
    <3> QED
      BY <3>1, <3>2, <3>3
  <2>3. \A x \in rows' : orgs'[OrgOf[x]].there
    <3> SUFFICES ASSUME NEW x \in rows'
                 PROVE  orgs'[OrgOf[x]].there
      OBVIOUS
    <3>1. CASE x \in rows
      <4>1. OrgOf[x] \in Org
        BY <3>1, TenantAssumption DEF TenantInv, TypesTenants
      <4> QED
        BY <1>6, <3>1, <4>1 DEF TenantInv, OrgsInOrder
    <3>2. CASE x \in DefaultTypes[m.org]
      BY <1>1, <1>4, <1>5, <1>7, <3>2
    <3>3. rows' = rows \cup DefaultTypes[m.org]
      BY <1>2
    <3> QED
      BY <3>1, <3>2, <3>3
  <2> QED
    BY <2>1, <2>2, <2>3 DEF OrgsInOrder
<1>11. \A q \in Wipes : /\ WipedOrg[q] \in Org
                        /\ orgs[WipedOrg[q]].used => orgs'[WipedOrg[q]] = orgs[WipedOrg[q]]
  BY <1>6, TenantAssumption
<1>12. wipe' = wipe /\ session' = session /\ members' = members \cup {m} /\ legacy' = legacy
  BY <1>2
<1>13. WipesInOrder'
  BY <1>11, <1>12 DEF TenantInv, WipesInOrder, DeletionOrder
<1>14. \A q \in Wipes : Sorted(q)' => Sorted(q)
  BY <1>11, <1>12 DEF Sorted, TenantInv, WipesInOrder
<1>15. VictimsExclusive'
  BY <1>1, <1>12, <1>14 DEF TenantInv, VictimsExclusive
<1>16. EveryTenantOwned'
  BY <1>1, <1>6, <1>12 DEF TenantInv, EveryTenantOwned, Living
<1>17. Lasting
  BY <1>2, <1>6 DEF Lasting, Gone
<1> QED
  BY <1>8, <1>9, <1>13, <1>15, <1>16, <1>17 DEF TenantInv

LEMMA UpdateOrganizationKeeps ==
  ASSUME TenantInv, NEW o \in Org, NEW body \in OrgBodies, UpdateOrganization(o, body)
  PROVE  TenantInv' /\ Lasting
<1>1. orgs[o] \in OrgRow /\ OrgBody(body)
  BY TenantAssumption DEF TenantInv, TypesTenants
<1>2. /\ orgs' = [orgs EXCEPT ![o] = Updated(orgs[o], body)]
      /\ UNCHANGED <<users, legacy, members, rows, session, clock, wipe>>
  BY DEF UpdateOrganization
<1>3. /\ Updated(orgs[o], body) \in OrgRow
      /\ Updated(orgs[o], body).used = orgs[o].used
      /\ Updated(orgs[o], body).there = orgs[o].there
  <2>1. "trialDays" \in DOMAIN body => TrialEnd(body.trialDays) \in Nat \cup {Never}
    BY <1>1, TrialEndType DEF OrgBody
  <2> QED
    BY <1>1, <2>1 DEF Updated, OrgRow, OrgBody
<1>4. \A p \in Org : orgs'[p] = IF p = o THEN Updated(orgs[o], body) ELSE orgs[p]
  BY <1>2 DEF TenantInv, TypesTenants
<1>5. orgs' \in [Org -> OrgRow]
  BY <1>2, <1>3 DEF TenantInv, TypesTenants
<1>6. \A p \in Org : orgs'[p].used = orgs[p].used
  BY <1>3, <1>4
<1>7. \A p \in Org : orgs'[p].there = orgs[p].there
  BY <1>3, <1>4
<1>8. /\ \A m \in members : m.org \in Org /\ \A x \in rows : OrgOf[x] \in Org
      /\ \A r \in Wipes : WipedOrg[r] \in Org
  BY TenantAssumption DEF TenantInv, TypesTenants, Member
<1>9. TypesTenants'
  BY <1>2, <1>5 DEF TenantInv, TypesTenants
<1>10. OrgsInOrder'
  BY <1>2, <1>6, <1>7, <1>8 DEF TenantInv, OrgsInOrder
<1>11. WipesInOrder'
  BY <1>2, <1>6, <1>7, <1>8 DEF TenantInv, WipesInOrder, DeletionOrder
<1>12. \A q \in Wipes : Sorted(q)' <=> Sorted(q)
  BY <1>2, <1>7, <1>8 DEF Sorted
<1>13. VictimsExclusive'
  BY <1>2, <1>12 DEF TenantInv, VictimsExclusive
<1>14. EveryTenantOwned'
  BY <1>2, <1>7 DEF TenantInv, EveryTenantOwned, Living
<1>15. Lasting
  BY <1>2, <1>6, <1>7 DEF Lasting, Gone
<1> QED
  BY <1>9, <1>10, <1>11, <1>13, <1>14, <1>15 DEF TenantInv

(* Someone becomes a member: the deletions that have sorted get it as late.*)
LEMMA LateForType ==
  ASSUME TenantInv, NEW m \in Member, wipe' = LateFor(m)
  PROVE  /\ wipe' \in [Wipes -> WipeRow]
         /\ \A q \in Wipes : /\ wipe'[q].pc = wipe[q].pc /\ wipe'[q].at = wipe[q].at
                             /\ wipe'[q].gone = wipe[q].gone /\ wipe'[q].victims = wipe[q].victims
                             /\ wipe[q].late \subseteq wipe'[q].late
                             /\ wipe[q].pc \in {"accounts", "tenant"} => m \in wipe'[q].late
<1>1. ASSUME NEW q \in Wipes
      PROVE  /\ wipe'[q] \in WipeRow
             /\ wipe'[q].pc = wipe[q].pc /\ wipe'[q].at = wipe[q].at
             /\ wipe'[q].gone = wipe[q].gone /\ wipe'[q].victims = wipe[q].victims
             /\ wipe[q].late \subseteq wipe'[q].late
             /\ wipe[q].pc \in {"accounts", "tenant"} => m \in wipe'[q].late
  <2>1. wipe[q] \in WipeRow
    BY DEF TenantInv, TypesTenants
  <2>2. CASE wipe[q].pc \in {"accounts", "tenant"}
    <3>1. wipe'[q] = [wipe[q] EXCEPT !.late = wipe[q].late \cup {m}]
      BY <2>2 DEF LateFor
    <3>2. [wipe[q] EXCEPT !.late = wipe[q].late \cup {m}] \in WipeRow
      BY <2>1 DEF WipeRow
    <3> QED
      BY <2>1, <3>1, <3>2 DEF WipeRow
  <2>3. CASE wipe[q].pc \notin {"accounts", "tenant"}
    BY <2>1, <2>3 DEF LateFor
  <2> QED
    BY <2>2, <2>3
<1> QED
  BY <1>1 DEF LateFor

LEMMA MemberArrives ==
  ASSUME TenantInv, NEW m \in Member, m.role = "member", orgs[m.org].there,
         wipe' = LateFor(m), members' = members \cup {m},
         users' = users \cup {m.user},
         UNCHANGED <<orgs, legacy, rows, session, clock>>
  PROVE  TenantInv' /\ Lasting
<1>1. m.org \in Org /\ m.user \in User
  BY DEF Member
<1>2. TypesTenants'
  BY <1>1, LateForType DEF TenantInv, TypesTenants
<1>3. OrgsInOrder'
  BY DEF TenantInv, OrgsInOrder
<1>4. WipesInOrder'
  BY LateForType DEF TenantInv, WipesInOrder, DeletionOrder
<1>5. \A q \in Wipes : Sorted(q)' => /\ Sorted(q) /\ wipe'[q].victims = wipe[q].victims
                                     /\ wipe[q].late \cup {m} \subseteq wipe'[q].late
  BY LateForType DEF Sorted
<1>6. VictimsExclusive'
  BY <1>5 DEF TenantInv, VictimsExclusive
<1>7. EveryTenantOwned'
  BY DEF TenantInv, EveryTenantOwned, Living
<1>8. Lasting
  BY DEF Lasting, Gone
<1> QED
  BY <1>2, <1>3, <1>4, <1>6, <1>7, <1>8 DEF TenantInv

LEMMA ProvisionKeeps ==
  ASSUME TenantInv, NEW m \in Recruits, ProvisionOrganizationUser(m)
  PROVE  TenantInv' /\ Lasting
<1>1. m \in Member /\ m.role = "member"
  BY TenantAssumption
<1> QED
  BY <1>1, MemberArrives DEF ProvisionOrganizationUser

LEMMA JoinKeeps ==
  ASSUME TenantInv, NEW m \in Joins, Join(m)
  PROVE  TenantInv' /\ Lasting
<1>1. m \in Member /\ m.role = "member"
  BY TenantAssumption
<1>2. users = users \cup {m.user}
  BY DEF Join
<1> QED
  BY <1>1, <1>2, MemberArrives DEF Join

(* Someone stops being a member: an owner stays with the tenant.           *)
LEMMA MemberGoes ==
  ASSUME TenantInv, NEW m \in members, m.role = "owner" => OtherOwner(m),
         members' = members \ {m}, session' \in [User -> Org \cup {NoOrg, SignedOut}],
         UNCHANGED <<orgs, users, legacy, rows, clock, wipe>>
  PROVE  TenantInv' /\ Lasting
<1>1. TypesTenants' /\ OrgsInOrder'
  BY DEF TenantInv, TypesTenants, OrgsInOrder
<1>2. WipesInOrder' /\ VictimsExclusive'
  BY DEF TenantInv, WipesInOrder, VictimsExclusive, Sorted, DeletionOrder
<1>3. EveryTenantOwned'
  <2> SUFFICES ASSUME NEW o \in Org, orgs[o].there
               PROVE  \E x \in members' : x.org = o /\ x.role = "owner"
    BY DEF EveryTenantOwned, Living
  <2>1. PICK x \in members : x.org = o /\ x.role = "owner"
    BY DEF TenantInv, EveryTenantOwned, Living
  <2>2. CASE x # m
    BY <2>1, <2>2
  <2>3. CASE x = m
    BY <2>1, <2>3 DEF OtherOwner
  <2> QED
    BY <2>2, <2>3
<1>4. Lasting
  BY DEF Lasting, Gone
<1> QED
  BY <1>1, <1>2, <1>3, <1>4 DEF TenantInv

LEMMA RemoveMemberKeeps ==
  ASSUME TenantInv, NEW m \in members, RemoveMember(m)
  PROVE  TenantInv' /\ Lasting
<1>1. session' \in [User -> Org \cup {NoOrg, SignedOut}]
  BY DEF RemoveMember, TenantInv, TypesTenants
<1> QED
  BY <1>1, MemberGoes DEF RemoveMember

LEMMA LeaveKeeps ==
  ASSUME TenantInv, NEW m \in members, Leave(m)
  PROVE  TenantInv' /\ Lasting
<1>1. session' \in [User -> Org \cup {NoOrg, SignedOut}]
  BY DEF Leave, TenantInv, TypesTenants
<1> QED
  BY <1>1, MemberGoes DEF Leave

LEMMA SignInKeeps ==
  ASSUME TenantInv, NEW u \in User, NEW given \in Carried(u), SignIn(u, given)
  PROVE  TenantInv' /\ Lasting
<1>1. PICK o \in (IF given \in Org THEN {given} ELSE FirstMembership(u)) :
         session' = [session EXCEPT ![u] = o]
  BY DEF SignIn
<1>2. UNCHANGED <<orgs, users, legacy, members, rows, clock, wipe>>
  BY DEF SignIn
<1>3. o \in Org \cup {NoOrg}
  BY DEF FirstMembership, TenantInv, TypesTenants, Member
<1>4. TypesTenants'
  BY <1>1, <1>2, <1>3 DEF TenantInv, TypesTenants
<1>5. OrgsInOrder' /\ WipesInOrder' /\ VictimsExclusive' /\ EveryTenantOwned'
  BY <1>2 DEF TenantInv, OrgsInOrder, WipesInOrder, VictimsExclusive, Sorted, EveryTenantOwned,
     Living, DeletionOrder
<1>6. Lasting
  BY <1>2 DEF Lasting, Gone
<1> QED
  BY <1>4, <1>5, <1>6 DEF TenantInv

LEMMA InsertRowKeeps ==
  ASSUME TenantInv, NEW x \in Inserts, InsertRow(x)
  PROVE  TenantInv' /\ Lasting
<1>1. /\ x \in Business /\ orgs[OrgOf[x]].there /\ rows' = rows \cup {x}
      /\ UNCHANGED <<orgs, users, legacy, members, session, clock>>
  BY TenantAssumption DEF InsertRow
<1>2. ASSUME NEW q \in Wipes
      PROVE  /\ wipe'[q] \in WipeRow
             /\ wipe'[q].pc = wipe[q].pc /\ wipe'[q].at = wipe[q].at
             /\ wipe'[q].gone = wipe[q].gone /\ wipe'[q].victims = wipe[q].victims
             /\ wipe'[q].late = wipe[q].late
  <2>1. wipe[q] \in WipeRow
    BY DEF TenantInv, TypesTenants
  <2>2. CASE wipe[q].pc = "idle"
    BY <2>1, <2>2 DEF InsertRow
  <2>3. CASE wipe[q].pc # "idle"
    <3>1. wipe'[q] = [wipe[q] EXCEPT !.fresh = wipe[q].fresh \cup {x}]
      BY <2>3 DEF InsertRow
    <3>2. [wipe[q] EXCEPT !.fresh = wipe[q].fresh \cup {x}] \in WipeRow
      BY <1>1, <2>1 DEF WipeRow
    <3> QED
      BY <2>1, <3>1, <3>2 DEF WipeRow
  <2> QED
    BY <2>2, <2>3
<1>3. wipe' \in [Wipes -> WipeRow]
  BY <1>2 DEF InsertRow
<1>4. TypesTenants' /\ OrgsInOrder'
  BY <1>1, <1>3 DEF TenantInv, TypesTenants, OrgsInOrder
<1>5. WipesInOrder'
  BY <1>1, <1>2 DEF TenantInv, WipesInOrder, DeletionOrder
<1>6. \A q \in Wipes : Sorted(q)' <=> Sorted(q)
  BY <1>1, <1>2 DEF Sorted
<1>7. VictimsExclusive'
  BY <1>1, <1>2, <1>6 DEF TenantInv, VictimsExclusive
<1>8. EveryTenantOwned'
  BY <1>1 DEF TenantInv, EveryTenantOwned, Living
<1>9. Lasting
  BY <1>1 DEF Lasting, Gone
<1> QED
  BY <1>4, <1>5, <1>7, <1>8, <1>9 DEF TenantInv

LEMMA TickKeeps ==
  ASSUME TenantInv, Tick
  PROVE  TenantInv' /\ Lasting
<1>1. /\ UNCHANGED <<orgs, users, legacy, members, rows, session, wipe>>
      /\ clock' \in Nat
  BY DEF Tick, TenantInv, TypesTenants
<1>2. WipesInOrder' /\ wipe' \in [Wipes -> WipeRow]
  BY <1>1 DEF TenantInv, TypesTenants, WipesInOrder, DeletionOrder
<1>3. \A q \in Wipes : Sorted(q)' => /\ Sorted(q) /\ wipe'[q].victims = wipe[q].victims
                                     /\ wipe'[q].late = wipe[q].late
  BY <1>1 DEF Sorted
<1> QED
  BY <1>1, <1>2, <1>3, WipesMove

LEMMA AbortWipeKeeps ==
  ASSUME TenantInv, NEW r \in Wipes, AbortWipe(r)
  PROVE  TenantInv' /\ Lasting
BY FailedMoves DEF AbortWipe

LEMMA TenantStepKeeps ==
  ASSUME TenantInv, TenantNext
  PROVE  TenantInv' /\ Lasting
<1>1. CASE \E m \in Founded, days \in {0, 1}, plan \in {"BASIC", "PRO"} : CreateOrganization(m, days, plan)
  BY <1>1, CreateOrganizationKeeps
<1>2. CASE \E o \in Org, body \in OrgBodies : UpdateOrganization(o, body)
  BY <1>2, UpdateOrganizationKeeps
<1>3. CASE (\E m \in Recruits : ProvisionOrganizationUser(m)) \/ \E m \in Joins : Join(m)
  BY <1>3, ProvisionKeeps, JoinKeeps
<1>4. CASE \E m \in members : RemoveMember(m) \/ Leave(m)
  BY <1>4, RemoveMemberKeeps, LeaveKeeps
<1>5. CASE \/ \E u \in User : \E given \in Carried(u) : SignIn(u, given)
           \/ (\E x \in Inserts : InsertRow(x)) \/ Tick
  BY <1>5, SignInKeeps, InsertRowKeeps, TickKeeps
<1>6. CASE WipeNext
  BY <1>6, BeginWipeKeeps, EmptyTableKeeps, SortAccountsKeeps, DeleteAccountsKeeps,
     DeleteTenantKeeps, AbortWipeKeeps DEF WipeNext
<1> QED
  BY <1>1, <1>2, <1>3, <1>4, <1>5, <1>6 DEF TenantNext

LEMMA PurgeKeeps ==
  ASSUME TenantInv, NEW r \in Wipes, DestroyProductImages(r)
  PROVE  TenantInv' /\ Lasting
<1>1. UNCHANGED <<orgs, users, legacy, members, rows, session, clock>>
  BY DEF DestroyProductImages
<1>2. /\ wipe' \in [Wipes -> WipeRow] /\ WipesInOrder'
      /\ \A q \in Wipes : Sorted(q)' => /\ Sorted(q) /\ wipe'[q].victims = wipe[q].victims
                                        /\ wipe'[q].late = wipe[q].late
  <2>1. CASE wipe[r].pc = "purge"
    <3>1. wipe[r] \in WipeRow
      BY DEF TenantInv, TypesTenants
    <3>2. wipe' = [wipe EXCEPT ![r].pc = "ok"]
      BY <2>1 DEF DestroyProductImages
    <3>3. \A q \in Wipes : wipe'[q] = IF q = r THEN [wipe[r] EXCEPT !.pc = "ok"] ELSE wipe[q]
      BY <3>2 DEF TenantInv, TypesTenants
    <3>4. wipe'[r] \in WipeRow /\ wipe'[r].pc = "ok" /\ wipe'[r].gone = wipe[r].gone
      BY <3>1, <3>3 DEF WipeRow
    <3>5. wipe' \in [Wipes -> WipeRow]
      BY <3>2, <3>3, <3>4 DEF TenantInv, TypesTenants
    <3>6. WipesInOrder'
      BY <1>1, <3>3, <3>4 DEF TenantInv, WipesInOrder, DeletionOrder
    <3> QED
      BY <1>1, <3>3, <3>4, <3>5, <3>6 DEF Sorted
  <2>2. CASE wipe[r].pc # "purge"
    <3>1. wipe' = wipe
      BY <2>2 DEF DestroyProductImages
    <3>2. WipesInOrder'
      BY <1>1, <3>1 DEF TenantInv, WipesInOrder, DeletionOrder
    <3> QED
      BY <1>1, <3>1, <3>2 DEF TenantInv, TypesTenants, Sorted
  <2> QED
    BY <2>1, <2>2
<1>3. clock' \in Nat
  BY <1>1 DEF TenantInv, TypesTenants
<1> QED
  BY <1>1, <1>2, <1>3, WipesMove

LEMMA StutterKeeps ==
  ASSUME TenantInv, UNCHANGED tenantVars
  PROVE  TenantInv' /\ Lasting
<1>1. UNCHANGED <<orgs, users, legacy, members, rows, session, clock, wipe>>
  BY DEF tenantVars
<1>2. WipesInOrder' /\ wipe' \in [Wipes -> WipeRow] /\ clock' \in Nat
  BY <1>1 DEF TenantInv, TypesTenants, WipesInOrder, DeletionOrder
<1>3. \A q \in Wipes : Sorted(q)' => /\ Sorted(q) /\ wipe'[q].victims = wipe[q].victims
                                     /\ wipe'[q].late = wipe[q].late
  BY <1>1 DEF Sorted
<1> QED
  BY <1>1, <1>2, <1>3, WipesMove

LEMMA TenantInit ==
  ASSUME InitTenants
  PROVE  TenantInv
<1> DEFINE org(o) == [used |-> o \in OpeningOrgs, there |-> o \in OpeningOrgs, isActive |-> TRUE,
                      trialEndsAt |-> Never, plan |-> "BASIC"]
           idle == [pc |-> "idle", at |-> 1, gone |-> {}, victims |-> {},
                    fresh |-> {}, late |-> {}, blockers |-> {}]
<1>1. /\ orgs = [o \in Org |-> org(o)] /\ wipe = [r \in Wipes |-> idle]
      /\ users = OpeningUsers /\ legacy = OpeningLegacy /\ members = OpeningMembers
      /\ rows = OpeningRows /\ session = [u \in User |-> SignedOut] /\ clock = 0
  BY DEF InitTenants
<1>2. \A o \in Org : org(o) \in OrgRow /\ org(o).used = (o \in OpeningOrgs) /\ org(o).there = (o \in OpeningOrgs)
  BY DEF OrgRow
<1>3. idle \in WipeRow /\ idle.pc = "idle" /\ idle.at = 1 /\ idle.gone = {}
  BY DeletionOrderLength DEF WipeRow
<1> HIDE DEF org, idle
<1>4. \A o \in Org : orgs[o].used = (o \in OpeningOrgs) /\ orgs[o].there = (o \in OpeningOrgs)
  BY <1>1, <1>2
<1>5. \A q \in Wipes : wipe[q].pc = "idle" /\ wipe[q].at = 1 /\ wipe[q].gone = {}
  BY <1>1, <1>3
<1>6. TypesTenants
  <2>1. orgs \in [Org -> OrgRow] /\ wipe \in [Wipes -> WipeRow]
    BY <1>1, <1>2, <1>3
  <2>2. legacy \in [User -> Org \cup {NoOrg}] /\ session \in [User -> Org \cup {NoOrg, SignedOut}]
    BY <1>1, TenantAssumption
  <2>3. users \subseteq User /\ members \subseteq Member /\ rows \subseteq Business /\ clock \in Nat
    BY <1>1, TenantAssumption
  <2> QED
    BY <2>1, <2>2, <2>3 DEF TypesTenants
<1>7. OrgsInOrder
  <2>1. \A m \in members : m.org \in Org /\ m.org \in OpeningOrgs /\ m.user \in users
    BY <1>1, TenantAssumption DEF Member
  <2>2. \A x \in rows : OrgOf[x] \in Org /\ OrgOf[x] \in OpeningOrgs
    BY <1>1, TenantAssumption
  <2> QED
    BY <1>4, <2>1, <2>2 DEF OrgsInOrder
<1>8. WipesInOrder
  BY <1>5, DeletionOrderLength DEF WipesInOrder
<1>9. VictimsExclusive
  BY <1>5 DEF VictimsExclusive, Sorted
<1>10. EveryTenantOwned
  BY <1>1, <1>4, TenantAssumption DEF EveryTenantOwned, Living
<1> QED
  BY <1>6, <1>7, <1>8, <1>9, <1>10 DEF TenantInv


-----------------------------------------------------------------------------
(* The photos.                                                             *)
NoRemoval(p) == \A r \in Removals : ImageTarget[r] = p => photo[r] = "idle"

Request == Uploads \cup Removals
Label == {"idle", "upload", "store", "destroy", "clear", "ok", "failed"}

Expected(p) == p \in rows \/ Gone(OrgOf[p])

(* An upload that is about to write its row has put the photo at the host, *)
(* where it stays while no removal is asked for and the tenant is there.   *)
PhotosInOrder ==
  /\ photo \in [Request -> Label] /\ imageOf \subseteq Business
  /\ \A p \in imageOf : Expected(p)
  /\ \A r \in Request :
        /\ photo[r] = "destroy" => r \in Removals
        /\ photo[r] \in {"upload", "store"} => Expected(ImageTarget[r])
        /\ photo[r] = "store" /\ NoRemoval(ImageTarget[r]) =>
              ImageTarget[r] \in hosted \/ Gone(OrgOf[ImageTarget[r]])

ImageInv == PhotosInOrder /\ PhotosServed

LEMMA RequestTargets ==
  ASSUME NEW r \in Request
  PROVE  ImageTarget[r] \in Business
BY ImageAssumption DEF Request

LEMMA PresentNotGone ==
  ASSUME TenantInv, NEW x \in rows
  PROVE  ~ Gone(OrgOf[x])
BY DEF TenantInv, OrgsInOrder, Gone

LEMMA ExpectedLasts ==
  ASSUME Lasting, NEW p \in Business
  PROVE  /\ Gone(OrgOf[p]) => Gone(OrgOf[p])'
         /\ Expected(p) => Expected(p)'
<1>1. OrgOf[p] \in Org
  BY TenantAssumption
<1> QED
  BY <1>1 DEF Lasting, Expected

(* No handler of the tenants disturbs the photos: a product that is there  *)
(* and has one either was there, or its tenant had gone, which it has not. *)
LEMMA TenantsKeepPhotos ==
  ASSUME TenantInv, TenantInv', Lasting, ImageInv, UNCHANGED <<imageOf, photo>>,
         \A p \in hosted : p \in hosted' \/ Gone(OrgOf[p])'
  PROVE  ImageInv'
<1>1. imageOf' = imageOf /\ photo' = photo /\ imageOf \subseteq Business
  BY DEF ImageInv, PhotosInOrder
<1>2. \A p : NoRemoval(p)' = NoRemoval(p)
  BY <1>1 DEF NoRemoval
<1>3. \A p \in imageOf : Expected(p)'
  BY <1>1, ExpectedLasts DEF ImageInv, PhotosInOrder
<1>4. ASSUME NEW r \in Request
      PROVE  /\ photo[r] \in {"upload", "store"} => Expected(ImageTarget[r])'
             /\ photo[r] = "store" /\ NoRemoval(ImageTarget[r]) =>
                   ImageTarget[r] \in hosted' \/ Gone(OrgOf[ImageTarget[r]])'
  <2>1. ImageTarget[r] \in Business
    BY RequestTargets
  <2>2. photo[r] \in {"upload", "store"} => Expected(ImageTarget[r])'
    BY <2>1, ExpectedLasts DEF ImageInv, PhotosInOrder
  <2>3. photo[r] = "store" /\ NoRemoval(ImageTarget[r]) =>
          ImageTarget[r] \in hosted' \/ Gone(OrgOf[ImageTarget[r]])'
    BY <2>1, ExpectedLasts DEF ImageInv, PhotosInOrder
  <2> QED
    BY <2>2, <2>3
<1>5. PhotosInOrder'
  BY <1>1, <1>2, <1>3, <1>4 DEF ImageInv, PhotosInOrder
<1>6. PhotosServed'
  <2> SUFFICES ASSUME NEW p \in rows', p \in imageOf, NoRemoval(p)
               PROVE  p \in hosted'
    BY <1>1 DEF PhotosServed, NoRemoval
  <2>1. ~ Gone(OrgOf[p])'
    BY DEF TenantInv, OrgsInOrder, Gone
  <2>2. p \in rows
    BY <1>1, <2>1, ExpectedLasts DEF ImageInv, PhotosInOrder, Expected
  <2>3. p \in hosted
    BY <2>2 DEF ImageInv, PhotosServed, NoRemoval
  <2> QED
    BY <2>1, <2>3
<1> QED
  BY <1>5, <1>6 DEF ImageInv

(* A request moves on; it may put its photo at the host, and only a removal*)
(* may take one away.                                                      *)
Moved(r, pc) ==
  /\ pc \in Label \ {"idle"} /\ Goto(r, pc)
  /\ pc = "destroy" => r \in Removals
  /\ pc \in {"upload", "store"} => Expected(ImageTarget[r])
  /\ pc = "store" => ImageTarget[r] \in hosted'
  /\ \A p \in hosted : p \in hosted' \/ (p = ImageTarget[r] /\ r \in Removals)
  /\ imageOf' \subseteq Business
  /\ \A p \in imageOf' : \/ p \in imageOf
                         \/ p = ImageTarget[r] /\ p \in rows /\ photo[r] = "store"

LEMMA RequestMoves ==
  ASSUME TenantInv, ImageInv, NEW r \in Request, NEW pc, Moved(r, pc), UNCHANGED <<orgs, rows>>
  PROVE  ImageInv'
<1> USE DEF Moved
<1>1. photo \in [Request -> Label] /\ photo' = [photo EXCEPT ![r] = pc]
  BY DEF Goto, ImageInv, PhotosInOrder
<1>2. \A q \in Request : photo'[q] = IF q = r THEN pc ELSE photo[q]
  BY <1>1
<1>3. \A p : NoRemoval(p)' => NoRemoval(p) /\ ~ (p = ImageTarget[r] /\ r \in Removals)
  BY <1>2 DEF NoRemoval, Request
<1>4. \A p : /\ Expected(p)' = Expected(p)
             /\ Gone(OrgOf[p])' = Gone(OrgOf[p])
  BY DEF Expected, Gone
<1>5. \A p \in imageOf' : Expected(p)'
  BY <1>4 DEF ImageInv, PhotosInOrder, Expected
<1>6. ASSUME NEW q \in Request
      PROVE  /\ photo'[q] = "destroy" => q \in Removals
             /\ photo'[q] \in {"upload", "store"} => Expected(ImageTarget[q])'
             /\ photo'[q] = "store" /\ NoRemoval(ImageTarget[q])' =>
                   ImageTarget[q] \in hosted' \/ Gone(OrgOf[ImageTarget[q]])'
  <2>1. CASE q = r
    BY <1>2, <1>4, <2>1
  <2>2. CASE q # r
    <3>1. photo'[q] = photo[q]
      BY <1>2, <2>2
    <3> QED
      BY <1>3, <1>4, <3>1 DEF ImageInv, PhotosInOrder
  <2> QED
    BY <2>1, <2>2
<1>7. photo' \in [Request -> Label]
  BY <1>1
<1>8. PhotosInOrder'
  BY <1>5, <1>6, <1>7 DEF PhotosInOrder
<1>9. PhotosServed'
  <2> SUFFICES ASSUME NEW p \in rows, p \in imageOf', NoRemoval(p)'
               PROVE  p \in hosted'
    BY DEF PhotosServed, NoRemoval
  <2>1. NoRemoval(p) /\ ~ (p = ImageTarget[r] /\ r \in Removals)
    BY <1>3
  <2>2. p \in hosted
    <3>1. CASE p \in imageOf
      BY <2>1, <3>1 DEF ImageInv, PhotosServed, NoRemoval
    <3>2. CASE p = ImageTarget[r] /\ photo[r] = "store"
      BY <2>1, <3>2, PresentNotGone DEF ImageInv, PhotosInOrder
    <3> QED
      BY <3>1, <3>2
  <2> QED
    BY <2>1, <2>2
<1> QED
  BY <1>8, <1>9 DEF ImageInv

LEMMA RequestStepKeeps ==
  ASSUME TenantInv, ImageInv, ImageNext, UNCHANGED tenantVars
  PROVE  ImageInv'
<1>1. UNCHANGED <<orgs, rows>>
  BY DEF tenantVars
<1>2. PICK r \in Request :
         ReadForPhoto(r) \/ UploadProductImage(r) \/ DestroyImage(r) \/ StoreImage(r)
  BY DEF ImageNext, Request
<1>3. imageOf \subseteq Business /\ ImageTarget[r] \in Business
  BY RequestTargets DEF ImageInv, PhotosInOrder
<1>4. CASE ReadForPhoto(r)
  <2>1. PICK pc \in {"failed", "upload", "destroy", "clear"} :
           /\ Goto(r, pc)
           /\ pc = "destroy" => r \notin Uploads
           /\ pc = "upload" => ImageTarget[r] \in rows
    BY <1>4 DEF ReadForPhoto
  <2>2. pc = "destroy" => r \in Removals
    BY <2>1 DEF Request
  <2>3. imageOf' = imageOf /\ hosted' = hosted
    BY <1>4 DEF ReadForPhoto
  <2>4. Moved(r, pc)
    BY <1>3, <2>1, <2>2, <2>3 DEF Expected, Moved, Label
  <2> QED
    BY <1>1, <2>4, RequestMoves
<1>5. CASE UploadProductImage(r)
  <2>1. Expected(ImageTarget[r]) /\ imageOf' = imageOf
    BY <1>5 DEF UploadProductImage, ImageInv, PhotosInOrder
  <2>2. \/ hosted' = hosted \cup {ImageTarget[r]} /\ Goto(r, "store")
        \/ hosted' = hosted /\ Goto(r, "failed")
    BY <1>5 DEF UploadProductImage
  <2>3. Moved(r, "store") \/ Moved(r, "failed")
    BY <1>3, <2>1, <2>2 DEF Moved, Label
  <2> QED
    BY <1>1, <2>3, RequestMoves
<1>6. CASE DestroyImage(r)
  <2>1. r \in Removals /\ imageOf' = imageOf /\ Goto(r, "clear")
    BY <1>6 DEF DestroyImage, ImageInv, PhotosInOrder
  <2>2. hosted' \in {hosted, hosted \ {ImageTarget[r]}}
    BY <1>6 DEF DestroyImage
  <2>3. Moved(r, "clear")
    BY <1>3, <2>1, <2>2 DEF Moved, Label
  <2> QED
    BY <1>1, <2>3, RequestMoves
<1>7. CASE StoreImage(r)
  <2>1. \/ /\ ImageTarget[r] \in rows /\ Goto(r, "ok")
           /\ imageOf' = IF photo[r] = "store" THEN imageOf \cup {ImageTarget[r]}
                         ELSE imageOf \ {ImageTarget[r]}
        \/ imageOf' = imageOf /\ Goto(r, "failed")
    BY <1>7 DEF StoreImage
  <2>2. hosted' = hosted
    BY <1>7 DEF StoreImage
  <2>3. /\ imageOf' \subseteq Business
        /\ \A p \in imageOf' : \/ p \in imageOf
                               \/ p = ImageTarget[r] /\ p \in rows /\ photo[r] = "store"
    BY <1>3, <2>1
  <2>4. Moved(r, "ok") \/ Moved(r, "failed")
    BY <2>1, <2>2, <2>3 DEF Moved, Label
  <2> QED
    BY <1>1, <2>4, RequestMoves
<1> QED
  BY <1>2, <1>4, <1>5, <1>6, <1>7

LEMMA PurgeKeepsPhotos ==
  ASSUME TenantInv, ImageInv, NEW r \in Wipes, DestroyProductImages(r)
  PROVE  ImageInv'
<1>1. TenantInv' /\ Lasting
  BY PurgeKeeps
<1>2. UNCHANGED <<imageOf, photo>>
  BY DEF DestroyProductImages
<1>3. Gone(WipedOrg[r])'
  BY DEF DestroyProductImages, PurgeWhen, TenantInv, WipesInOrder, Gone
<1>4. \A p \in hosted : p \in hosted' \/ Gone(OrgOf[p])'
  BY <1>3 DEF DestroyProductImages
<1> QED
  BY <1>1, <1>2, <1>4, TenantsKeepPhotos

-----------------------------------------------------------------------------
LEMMA ImageInit ==
  ASSUME InitTenants, InitImages
  PROVE  ImageInv
<1>1. /\ imageOf = OpeningImages /\ hosted = OpeningImages /\ rows = OpeningRows
      /\ photo = [r \in Request |-> "idle"]
  BY DEF InitTenants, InitImages, Request
<1>2. imageOf \subseteq rows /\ rows \subseteq Business
  BY <1>1, ImageAssumption, TenantAssumption
<1>3. PhotosInOrder
  <2>1. photo \in [Request -> Label] /\ \A r \in Request : photo[r] = "idle"
    BY <1>1 DEF Label
  <2>2. imageOf \subseteq Business /\ \A p \in imageOf : Expected(p)
    BY <1>2 DEF Expected
  <2> QED
    BY <2>1, <2>2 DEF PhotosInOrder
<1>4. PhotosServed
  BY <1>1 DEF PhotosServed
<1> QED
  BY <1>3, <1>4 DEF ImageInv

LEMMA StepKeeps ==
  ASSUME TenantInv, ImageInv, [TenantsNext]_<<tenantVars, imageVars>>
  PROVE  TenantInv' /\ ImageInv'
<1>1. CASE TenantNext /\ UNCHANGED imageVars
  <2>1. TenantInv' /\ Lasting
    BY <1>1, TenantStepKeeps
  <2>2. hosted' = hosted /\ UNCHANGED <<imageOf, photo>>
    BY <1>1 DEF imageVars
  <2> QED
    BY <2>1, <2>2, TenantsKeepPhotos
<1>2. CASE ImageNext /\ UNCHANGED tenantVars
  BY <1>2, StutterKeeps, RequestStepKeeps
<1>3. CASE \E r \in Wipes : DestroyProductImages(r)
  BY <1>3, PurgeKeeps, PurgeKeepsPhotos
<1>4. CASE UNCHANGED <<tenantVars, imageVars>>
  <2>1. TenantInv' /\ Lasting
    BY <1>4, StutterKeeps
  <2>2. hosted' = hosted /\ UNCHANGED <<imageOf, photo>>
    BY <1>4 DEF imageVars
  <2> QED
    BY <2>1, <2>2, TenantsKeepPhotos
<1> QED
  BY <1>1, <1>2, <1>3, <1>4 DEF TenantsNext

LEMMA TenantsInvariant == TenantsSpec => [](TenantInv /\ ImageInv)
<1>1. InitTenants /\ InitImages => TenantInv /\ ImageInv
  BY TenantInit, ImageInit
<1>2. TenantInv /\ ImageInv /\ [TenantsNext]_<<tenantVars, imageVars>> => (TenantInv /\ ImageInv)'
  BY StepKeeps
<1> QED
  BY <1>1, <1>2, PTL DEF TenantsSpec

(* deleteOrganization: the owner of a tenant that stays is no victim of the*)
(* deletion of another one, in whatever order they and the accounts move.  *)
THEOREM TenantsStayOwned == TenantsSpec => []EveryTenantOwned
<1>1. TenantInv /\ ImageInv => EveryTenantOwned
  BY DEF TenantInv
<1> QED
  BY <1>1, TenantsInvariant, PTL

(* uploadImage, deleteImage and destroyProductImages: the photo a product's*)
(* row names is at the image host, unless its removal was asked for.       *)
THEOREM PhotosAlwaysServed == TenantsSpec => []PhotosServed
<1>1. TenantInv /\ ImageInv => PhotosServed
  BY DEF ImageInv
<1> QED
  BY <1>1, TenantsInvariant, PTL

(* deleteOrganization: it deletes no account that belongs to another tenant*)
(* but one that joined it after the accounts were sorted.                  *)
THEOREM DeletionsStayExclusive == TenantsSpec => OnlyExclusiveAccountsGo
<1>1. TenantInv /\ ImageInv /\ [TenantsNext]_<<tenantVars, imageVars>> =>
        [\A r \in Wipes : wipe[r].pc = "tenant" /\ wipe'[r].pc = "purge" =>
           \A m \in members : m.user \in wipe[r].victims /\ m.org # WipedOrg[r] =>
              m \in wipe[r].late]_tenantVars
  <2> SUFFICES ASSUME TenantInv, [TenantsNext]_<<tenantVars, imageVars>>, NEW r \in Wipes,
                      wipe[r].pc = "tenant", wipe'[r].pc = "purge",
                      NEW m \in members, m.user \in wipe[r].victims, m.org # WipedOrg[r]
               PROVE  m \in wipe[r].late
    OBVIOUS
  <2>1. Sorted(r)
    BY DEF Sorted
  <2> QED
    BY <2>1 DEF TenantInv, VictimsExclusive
<1> QED
  BY <1>1, TenantsInvariant, PTL DEF TenantsSpec, OnlyExclusiveAccountsGo

-----------------------------------------------------------------------------
(* What stops a deletion.  The invariant follows the tables as they are    *)
(* emptied: of those behind it, a deletion has every row of the tenant but *)
(* those that came after it began.                                         *)
Behind(x, n) == \E i \in 1 .. 12 : i < n /\ BusinessTable[x] = DeletionOrder[i]
IsImport(x) == BusinessTable[x] = "receiptImport"

(* w: a deletion of the organization o; R: the rows there are.             *)
Orderly(w, o, R) ==
  /\ w.pc = "idle" => w.at = 1
  /\ w.pc \in {"sort", "accounts", "tenant"} => w.at = 13
  /\ w.pc \in {"rows", "sort", "accounts", "tenant"} =>
        \A x \in R : OrgOf[x] = o /\ Behind(x, w.at) => x \in w.gone \/ x \in w.fresh

OrderInv == \A r \in Wipes : Orderly(wipe[r], WipedOrg[r], rows)

Explained(r, x) ==
  \/ x \in wipe[r].fresh
  \/ OrgOf[x] = WipedOrg[r] /\ IsImport(x)
  \/ /\ OrgOf[x] # WipedOrg[r]
     /\ \E u \in Needs[x] \cap wipe[r].victims :
           \A m \in members : m.user = u /\ m.org = OrgOf[x] => m \in wipe[r].late

-----------------------------------------------------------------------------
(* Children before parents.                                                *)
LEMMA DeletionOrderIs ==
  /\ DeletionOrder[1] = "inventoryAuditScan" /\ DeletionOrder[2] = "inventoryAudit"
  /\ DeletionOrder[3] = "stockMovement" /\ DeletionOrder[4] = "stockMovementType"
  /\ DeletionOrder[5] = "saleItem" /\ DeletionOrder[6] = "sale"
  /\ DeletionOrder[7] = "productUnit" /\ DeletionOrder[8] = "product"
  /\ DeletionOrder[9] = "supplierLink" /\ DeletionOrder[10] = "supplier"
  /\ DeletionOrder[11] = "location" /\ DeletionOrder[12] = "category"
BY DEF DeletionOrder, DELETED_TABLES

LEMMA TablesOnce ==
  ASSUME NEW i \in 1 .. 12, NEW j \in 1 .. 12, DeletionOrder[i] = DeletionOrder[j]
  PROVE  i = j
BY DeletionOrderIs

LEMMA ChildrenFirst ==
  ASSUME NEW child, NEW j \in 1 .. 12, <<child, DeletionOrder[j]>> \in ForeignKey
  PROVE  \E i \in 1 .. 12 : i < j /\ child = DeletionOrder[i]
<1> DEFINE parent == DeletionOrder[j]
<1>1. \/ child = "stockMovement" /\ parent \in {"product", "stockMovementType"}
      \/ child = "productUnit" /\ parent = "product"
      \/ child = "saleItem" /\ parent \in {"sale", "product"}
      \/ child = "supplierLink" /\ parent = "supplier"
      \/ child = "inventoryAuditScan" /\ parent = "inventoryAudit"
      \/ child = "product" /\ parent = "category"
      \/ child = "inventoryAudit" /\ parent = "location"
  BY DEF ForeignKey, CascadingKey
<1>2. /\ parent = "stockMovementType" => j = 4
      /\ parent = "inventoryAudit" => j = 2
      /\ parent = "sale" => j = 6
      /\ parent = "product" => j = 8
      /\ parent = "supplier" => j = 10
      /\ parent = "location" => j = 11
      /\ parent = "category" => j = 12
  BY DeletionOrderIs, TablesOnce
<1> HIDE DEF parent
<1>3. CASE child = "stockMovement"
  <2>1. 3 \in 1 .. 12 /\ 3 < j /\ child = DeletionOrder[3]
    BY <1>1, <1>2, <1>3, DeletionOrderIs
  <2> QED
    BY <2>1
<1>4. CASE child = "productUnit"
  <2>1. 7 \in 1 .. 12 /\ 7 < j /\ child = DeletionOrder[7]
    BY <1>1, <1>2, <1>4, DeletionOrderIs
  <2> QED
    BY <2>1
<1>5. CASE child = "saleItem"
  <2>1. 5 \in 1 .. 12 /\ 5 < j /\ child = DeletionOrder[5]
    BY <1>1, <1>2, <1>5, DeletionOrderIs
  <2> QED
    BY <2>1
<1>6. CASE child = "supplierLink"
  <2>1. 9 \in 1 .. 12 /\ 9 < j /\ child = DeletionOrder[9]
    BY <1>1, <1>2, <1>6, DeletionOrderIs
  <2> QED
    BY <2>1
<1>7. CASE child = "inventoryAuditScan"
  <2>1. 1 \in 1 .. 12 /\ 1 < j /\ child = DeletionOrder[1]
    BY <1>1, <1>2, <1>7, DeletionOrderIs
  <2> QED
    BY <2>1
<1>8. CASE child = "product"
  <2>1. 8 \in 1 .. 12 /\ 8 < j /\ child = DeletionOrder[8]
    BY <1>1, <1>2, <1>8, DeletionOrderIs
  <2> QED
    BY <2>1
<1>9. CASE child = "inventoryAudit"
  <2>1. 2 \in 1 .. 12 /\ 2 < j /\ child = DeletionOrder[2]
    BY <1>1, <1>2, <1>9, DeletionOrderIs
  <2> QED
    BY <2>1
<1> QED
  BY <1>1, <1>3, <1>4, <1>5, <1>6, <1>7, <1>8, <1>9

-----------------------------------------------------------------------------
(* A deletion that stays where it is: rows may go, and the ones that come  *)
(* are new to it, or not the tenant's.                                     *)
LEMMA OrderlyStays ==
  ASSUME NEW w, NEW v, NEW o, NEW R, NEW Q, Orderly(w, o, R),
         v.pc = w.pc, v.at = w.at, v.gone = w.gone, w.fresh \subseteq v.fresh,
         \A x \in Q \ R : w.pc # "idle" => x \in v.fresh \/ OrgOf[x] # o
  PROVE  Orderly(v, o, Q)
BY DEF Orderly

(* A deletion that is over.                                                *)
LEMMA OrderlyOver ==
  ASSUME NEW w, NEW o, NEW R, w.pc \in {"purge", "ok", "failed"}
  PROVE  Orderly(w, o, R)
BY DEF Orderly

(* A step of one deletion: the rows may go.                                *)
LEMMA OrderMoves ==
  ASSUME OrderInv, NEW r \in Wipes, rows' \subseteq rows,
         \A q \in Wipes \ {r} : wipe'[q] = wipe[q],
         Orderly(wipe'[r], WipedOrg[r], rows')
  PROVE  OrderInv'
<1>1. ASSUME NEW q \in Wipes \ {r}
      PROVE  Orderly(wipe'[q], WipedOrg[q], rows')
  <2>1. Orderly(wipe[q], WipedOrg[q], rows) /\ wipe'[q] = wipe[q] /\ rows' \ rows = {}
    BY DEF OrderInv
  <2> QED
    BY <2>1, OrderlyStays
<1> QED
  BY <1>1 DEF OrderInv

(* A deletion that is stopped, and what stops it.                          *)
LEMMA OrderFails ==
  ASSUME TenantInv, OrderInv, NEW r \in Wipes, NEW blockers,
         wipe' = Failed(r, blockers), WipeUnchanged
  PROVE  /\ OrderInv'
         /\ \A q \in Wipes \ {r} : wipe'[q].blockers \ wipe[q].blockers = {}
         /\ wipe'[r].blockers = blockers
<1>1. wipe[r] \in WipeRow /\ wipe \in [Wipes -> WipeRow]
  BY DEF TenantInv, TypesTenants
<1>2. \A q \in Wipes : wipe'[q] =
         IF q = r THEN [wipe[r] EXCEPT !.pc = "failed", !.gone = {}, !.blockers = blockers] ELSE wipe[q]
  BY <1>1 DEF Failed
<1>3. wipe'[r].pc = "failed" /\ wipe'[r].blockers = blockers
  <2>1. wipe'[r] = [wipe[r] EXCEPT !.pc = "failed", !.gone = {}, !.blockers = blockers]
    BY <1>2
  <2> QED
    BY <1>1, <2>1 DEF WipeRow
<1>4. Orderly(wipe'[r], WipedOrg[r], rows')
  BY <1>3, OrderlyOver
<1>5. rows' \subseteq rows
  BY DEF WipeUnchanged
<1> QED
  BY <1>2, <1>3, <1>4, <1>5, OrderMoves

(* The steps that leave every deletion, or every deletion but its new and  *)
(* late ones, as it is.                                                    *)
Quiet(q) ==
  /\ wipe'[q].pc = wipe[q].pc /\ wipe'[q].at = wipe[q].at /\ wipe'[q].gone = wipe[q].gone
  /\ wipe'[q].blockers = wipe[q].blockers /\ wipe[q].fresh \subseteq wipe'[q].fresh

NoneBlocked == \A q \in Wipes : wipe'[q].blockers \ wipe[q].blockers = {}

LEMMA QuietOrderly ==
  ASSUME OrderInv, \A q \in Wipes : Quiet(q),
         \A q \in Wipes : \A x \in rows' \ rows :
            wipe[q].pc \in {"rows", "sort", "accounts", "tenant"} =>
               x \in wipe'[q].fresh \/ OrgOf[x] # WipedOrg[q]
  PROVE  OrderInv' /\ NoneBlocked
<1>1. ASSUME NEW q \in Wipes
      PROVE  Orderly(wipe'[q], WipedOrg[q], rows')
  BY DEF OrderInv, Orderly, Quiet
<1> QED
  BY <1>1 DEF OrderInv, NoneBlocked, Quiet

LEMMA ArrivalOrderly ==
  ASSUME TenantInv, OrderInv, NEW m \in Member, wipe' = LateFor(m), UNCHANGED rows
  PROVE  OrderInv' /\ NoneBlocked
<1>1. ASSUME NEW q \in Wipes
      PROVE  Quiet(q)
  <2>1. wipe[q] \in WipeRow
    BY DEF TenantInv, TypesTenants
  <2>2. wipe'[q] = wipe[q] \/ wipe'[q] = [wipe[q] EXCEPT !.late = wipe[q].late \cup {m}]
    BY DEF LateFor
  <2> QED
    BY <2>1, <2>2 DEF WipeRow, Quiet
<1> QED
  BY <1>1, QuietOrderly

LEMMA CreateOrderly ==
  ASSUME TenantInv, OrderInv, NEW m \in Founded, NEW days, NEW plan, CreateOrganization(m, days, plan)
  PROVE  OrderInv' /\ NoneBlocked
<1>1. /\ m.org \in Org /\ ~ orgs[m.org].used
      /\ rows' = rows \cup DefaultTypes[m.org] /\ wipe' = wipe
  BY TenantAssumption DEF CreateOrganization, Member
<1>2. \A x \in rows' \ rows : OrgOf[x] = m.org
  BY <1>1, TenantAssumption
<1>3. \A q \in Wipes : wipe[q].pc \in {"rows", "sort", "accounts", "tenant"} => WipedOrg[q] # m.org
  BY <1>1 DEF TenantInv, WipesInOrder
<1> QED
  BY <1>1, <1>2, <1>3, QuietOrderly DEF Quiet

LEMMA InsertOrderly ==
  ASSUME TenantInv, OrderInv, NEW x \in Inserts, InsertRow(x)
  PROVE  OrderInv' /\ NoneBlocked
<1>1. ASSUME NEW q \in Wipes
      PROVE  Quiet(q) /\ (wipe[q].pc # "idle" => x \in wipe'[q].fresh)
  <2>1. wipe[q] \in WipeRow
    BY DEF TenantInv, TypesTenants
  <2>2. wipe'[q] = IF wipe[q].pc = "idle" THEN wipe[q]
                   ELSE [wipe[q] EXCEPT !.fresh = wipe[q].fresh \cup {x}]
    BY DEF InsertRow
  <2> QED
    BY <2>1, <2>2 DEF WipeRow, Quiet
<1>2. \A y \in rows' \ rows : y = x
  BY DEF InsertRow
<1> QED
  BY <1>1, <1>2, QuietOrderly

LEMMA OthersOrderly ==
  ASSUME OrderInv, UNCHANGED <<rows, wipe>>
  PROVE  OrderInv' /\ NoneBlocked
BY QuietOrderly DEF Quiet

-----------------------------------------------------------------------------
(* The steps of a deletion.                                                *)
LEMMA BeginOrderly ==
  ASSUME TenantInv, OrderInv, NEW r \in Wipes, BeginWipe(r)
  PROVE  OrderInv' /\ NoneBlocked
<1> DEFINE pc == IF orgs[WipedOrg[r]].there THEN "rows" ELSE "failed"
<1>1. wipe[r] \in WipeRow /\ wipe[r].pc = "idle" /\ Orderly(wipe[r], WipedOrg[r], rows)
  BY DEF BeginWipe, TenantInv, TypesTenants, OrderInv
<1>2. \A q \in Wipes : wipe'[q] = IF q = r THEN [wipe[r] EXCEPT !.pc = pc] ELSE wipe[q]
  BY DEF BeginWipe, TenantInv, TypesTenants
<1>3. pc \in {"rows", "failed"} /\ rows' = rows
  BY DEF BeginWipe, WipeUnchanged
<1> HIDE DEF pc
<1>4. wipe'[r].pc = pc /\ wipe'[r].at = wipe[r].at /\ wipe'[r].blockers = wipe[r].blockers
  BY <1>1, <1>2 DEF WipeRow
<1>5. Orderly(wipe'[r], WipedOrg[r], rows')
  BY <1>1, <1>3, <1>4 DEF Orderly, Behind
<1> QED
  BY <1>2, <1>3, <1>4, <1>5, OrderMoves DEF NoneBlocked

LEMMA EmptyTableOrderly ==
  ASSUME TenantInv, OrderInv, NEW r \in Wipes, EmptyTable(r)
  PROVE  OrderInv' /\ \A q \in Wipes : \A x \in wipe'[q].blockers \ wipe[q].blockers : Explained(q, x)
<1> DEFINE o == WipedOrg[r]
           i == wipe[r].at
           S == {x \in rows \ wipe[r].gone : OrgOf[x] = o /\ BusinessTable[x] = DeletionOrder[i]}
           gone == wipe[r].gone \cup WithChildren(S)
           pc == IF i = Len(DeletionOrder) THEN "sort" ELSE "rows"
<1>1. /\ wipe[r] \in WipeRow /\ wipe[r].pc = "rows" /\ rows \subseteq Business
      /\ Orderly(wipe[r], o, rows)
  BY DEF EmptyTable, TenantInv, TypesTenants, OrderInv
<1>2. i \in 1 .. 12
  BY <1>1, DeletionOrderLength DEF TenantInv, WipesInOrder, WipeRow
<1>3. \A x \in rows : OrgOf[x] = o /\ Behind(x, i) => x \in wipe[r].gone \/ x \in wipe[r].fresh
  BY <1>1 DEF Orderly
<1>4. S \subseteq gone /\ wipe[r].gone \subseteq gone
  BY DEF WithChildren
<1>5. CASE wipe' = Failed(r, Restricting(S, gone))
  <2>1. ASSUME NEW x \in Restricting(S, gone)
        PROVE  x \in wipe[r].fresh
    <3>1. x \in rows /\ x \notin gone /\ x \in Business
      BY <1>1 DEF Restricting
    <3>2. PICK y \in Needs[x] : y \in S
      BY DEF Restricting
    <3>3. y \in Business /\ OrgOf[y] = o /\ BusinessTable[y] = DeletionOrder[i]
      BY <1>1, <3>2
    <3>4. OrgOf[x] = o
      BY <3>1, <3>2, <3>3, TenantAssumption
    <3>5. <<BusinessTable[x], DeletionOrder[i]>> \in ForeignKey
      BY <3>1, <3>2, <3>3, SchemaAssumption
    <3>6. Behind(x, i)
      BY <1>2, <3>5, ChildrenFirst DEF Behind
    <3> QED
      BY <1>3, <1>4, <3>1, <3>4, <3>6
  <2>2. WipeUnchanged
    BY DEF EmptyTable
  <2> HIDE DEF S, gone
  <2>3. /\ OrderInv' /\ wipe'[r].blockers = Restricting(S, gone)
        /\ \A q \in Wipes \ {r} : wipe'[q].blockers \ wipe[q].blockers = {}
    BY <1>5, <2>2, OrderFails
  <2> QED
    BY <2>1, <2>3 DEF Explained
<1>6. CASE wipe' = [wipe EXCEPT ![r].gone = gone, ![r].at = i + 1, ![r].pc = pc]
  <2>1. pc \in {"rows", "sort"} /\ (pc = "sort" <=> i = 12)
    BY DeletionOrderLength
  <2>2. \A x \in rows : OrgOf[x] = o /\ Behind(x, i + 1) => x \in gone \/ x \in wipe[r].fresh
    <3> SUFFICES ASSUME NEW x \in rows, OrgOf[x] = o, NEW j \in 1 .. 12, j < i + 1,
                        BusinessTable[x] = DeletionOrder[j]
                 PROVE  x \in gone \/ x \in wipe[r].fresh
      BY DEF Behind
    <3>1. CASE j < i
      <4>1. Behind(x, i)
        BY <3>1 DEF Behind
      <4> QED
        BY <1>3, <1>4, <4>1
    <3>2. CASE j = i
      <4>1. x \in wipe[r].gone \/ x \in S
        BY <3>2
      <4> QED
        BY <1>4, <4>1
    <3> QED
      BY <1>2, <3>1, <3>2
  <2> HIDE DEF gone, pc, i, o
  <2>3. \A q \in Wipes : wipe'[q] =
           IF q = r THEN [wipe[r] EXCEPT !.gone = gone, !.at = i + 1, !.pc = pc] ELSE wipe[q]
    BY <1>6 DEF TenantInv, TypesTenants
  <2>4. /\ wipe'[r].pc = pc /\ wipe'[r].at = i + 1 /\ wipe'[r].gone = gone
        /\ wipe'[r].fresh = wipe[r].fresh /\ wipe'[r].blockers = wipe[r].blockers
    <3>1. wipe'[r] = [wipe[r] EXCEPT !.gone = gone, !.at = i + 1, !.pc = pc]
      BY <2>3
    <3> QED
      BY <1>1, <3>1 DEF WipeRow
  <2>5. rows' = rows
    BY DEF EmptyTable, WipeUnchanged
  <2>6. Orderly(wipe'[r], o, rows')
    BY <1>2, <2>1, <2>2, <2>4, <2>5 DEF Orderly
  <2> QED
    BY <2>3, <2>4, <2>5, <2>6, OrderMoves DEF o
<1> QED
  BY <1>5, <1>6 DEF EmptyTable

LEMMA SortOrderly ==
  ASSUME TenantInv, OrderInv, NEW r \in Wipes, SortAccounts(r)
  PROVE  OrderInv' /\ NoneBlocked
<1> DEFINE victims == Candidates(WipedOrg[r]) \ Shared(WipedOrg[r])
<1>1. wipe[r] \in WipeRow /\ wipe[r].pc = "sort" /\ Orderly(wipe[r], WipedOrg[r], rows)
  BY DEF SortAccounts, TenantInv, TypesTenants, OrderInv
<1>2. wipe' = [wipe EXCEPT ![r].victims = victims, ![r].pc = "accounts"] /\ rows' = rows
  BY DEF SortAccounts, WipeUnchanged
<1> HIDE DEF victims
<1>3. \A q \in Wipes : wipe'[q] =
         IF q = r THEN [wipe[r] EXCEPT !.victims = victims, !.pc = "accounts"] ELSE wipe[q]
  BY <1>2 DEF TenantInv, TypesTenants
<1>4. /\ wipe'[r].pc = "accounts" /\ wipe'[r].at = wipe[r].at /\ wipe'[r].gone = wipe[r].gone
      /\ wipe'[r].fresh = wipe[r].fresh /\ wipe'[r].blockers = wipe[r].blockers
  <2>1. wipe'[r] = [wipe[r] EXCEPT !.victims = victims, !.pc = "accounts"]
    BY <1>3
  <2> QED
    BY <1>1, <2>1 DEF WipeRow
<1>5. Orderly(wipe'[r], WipedOrg[r], rows')
  BY <1>1, <1>2, <1>4 DEF Orderly
<1> QED
  BY <1>2, <1>3, <1>4, <1>5, OrderMoves DEF NoneBlocked

(* A row of the tenant's own that is still there when all tables are empty.*)
LEMMA LeftOver ==
  ASSUME TenantInv, OrderInv, NEW r \in Wipes, wipe[r].pc \in {"accounts", "tenant"},
         NEW x \in rows \ wipe[r].gone, OrgOf[x] = WipedOrg[r]
  PROVE  x \in wipe[r].fresh \/ IsImport(x)
<1>1. wipe[r].at = 13 /\ (Behind(x, 13) => x \in wipe[r].fresh)
  BY DEF OrderInv, Orderly
<1>2. x \in Business
  BY DEF TenantInv, TypesTenants
<1>3. IsImport(x) \/ Behind(x, 13)
  BY <1>2, SchemaAssumption, DeletionOrderLength DEF IsImport, Behind
<1> QED
  BY <1>1, <1>3

LEMMA DeleteAccountsOrderly ==
  ASSUME TenantInv, OrderInv, NEW r \in Wipes, DeleteAccounts(r)
  PROVE  OrderInv' /\ \A q \in Wipes : \A x \in wipe'[q].blockers \ wipe[q].blockers : Explained(q, x)
<1> DEFINE found == Restricting(wipe[r].victims, wipe[r].gone)
<1>1. wipe[r] \in WipeRow /\ wipe[r].pc = "accounts" /\ Orderly(wipe[r], WipedOrg[r], rows)
  BY DEF DeleteAccounts, TenantInv, TypesTenants, OrderInv
<1>2. CASE wipe' = Failed(r, found)
  <2>1. ASSUME NEW x \in found
        PROVE  Explained(r, x)
    <3>1. x \in rows \ wipe[r].gone /\ Needs[x] \cap wipe[r].victims # {}
      BY DEF Restricting
    <3>2. CASE OrgOf[x] = WipedOrg[r]
      BY <1>1, <3>1, <3>2, LeftOver DEF Explained
    <3>3. CASE OrgOf[x] # WipedOrg[r]
      <4>1. PICK u \in Needs[x] : u \in wipe[r].victims
        BY <3>1
      <4>2. \A m \in members : m.user = u /\ m.org = OrgOf[x] => m \in wipe[r].late
        BY <1>1, <3>3, <4>1 DEF TenantInv, VictimsExclusive, Sorted
      <4> QED
        BY <3>3, <4>1, <4>2 DEF Explained
    <3> QED
      BY <3>2, <3>3
  <2> HIDE DEF found
  <2> QED
    BY <1>2, <2>1, OrderFails DEF DeleteAccounts
<1>3. CASE wipe' = [wipe EXCEPT ![r].pc = "tenant"]
  <2>1. \A q \in Wipes : wipe'[q] = IF q = r THEN [wipe[r] EXCEPT !.pc = "tenant"] ELSE wipe[q]
    BY <1>3 DEF TenantInv, TypesTenants
  <2>2. /\ wipe'[r].pc = "tenant" /\ wipe'[r].at = wipe[r].at /\ wipe'[r].gone = wipe[r].gone
        /\ wipe'[r].fresh = wipe[r].fresh /\ wipe'[r].blockers = wipe[r].blockers
    BY <1>1, <2>1 DEF WipeRow
  <2>3. rows' = rows
    BY DEF DeleteAccounts, WipeUnchanged
  <2>4. Orderly(wipe'[r], WipedOrg[r], rows')
    BY <1>1, <2>2, <2>3 DEF Orderly
  <2> QED
    BY <2>1, <2>2, <2>3, <2>4, OrderMoves
<1> QED
  BY <1>2, <1>3 DEF DeleteAccounts

LEMMA DeleteTenantOrderly ==
  ASSUME TenantInv, OrderInv, NEW r \in Wipes, DeleteTenant(r)
  PROVE  OrderInv' /\ \A q \in Wipes : \A x \in wipe'[q].blockers \ wipe[q].blockers : Explained(q, x)
<1> DEFINE left == {x \in rows \ wipe[r].gone : OrgOf[x] = WipedOrg[r]}
<1>1. wipe[r] \in WipeRow /\ wipe[r].pc = "tenant"
  BY DEF DeleteTenant, TenantInv, TypesTenants
<1>2. CASE wipe' = Failed(r, left) /\ WipeUnchanged
  <2>1. \A x \in left : Explained(r, x)
    BY <1>1, LeftOver DEF Explained
  <2> HIDE DEF left
  <2> QED
    BY <1>2, <2>1, OrderFails
<1>3. CASE /\ rows' = rows \ wipe[r].gone
           /\ wipe' = [wipe EXCEPT ![r].pc = "purge", ![r].gone = {}]
  <2>1. \A q \in Wipes : wipe'[q] =
           IF q = r THEN [wipe[r] EXCEPT !.pc = "purge", !.gone = {}] ELSE wipe[q]
    BY <1>3 DEF TenantInv, TypesTenants
  <2>2. wipe'[r].pc = "purge" /\ wipe'[r].blockers = wipe[r].blockers
    <3>1. wipe'[r] = [wipe[r] EXCEPT !.pc = "purge", !.gone = {}]
      BY <2>1
    <3> QED
      BY <1>1, <3>1 DEF WipeRow
  <2>3. Orderly(wipe'[r], WipedOrg[r], rows')
    BY <2>2, OrderlyOver
  <2> QED
    BY <1>3, <2>1, <2>2, <2>3, OrderMoves
<1> QED
  BY <1>2, <1>3 DEF DeleteTenant

LEMMA AbortOrderly ==
  ASSUME TenantInv, OrderInv, NEW r \in Wipes, AbortWipe(r)
  PROVE  OrderInv' /\ NoneBlocked
BY OrderFails DEF AbortWipe, NoneBlocked

LEMMA DestroyOrderly ==
  ASSUME TenantInv, OrderInv, NEW r \in Wipes, DestroyProductImages(r)
  PROVE  OrderInv' /\ NoneBlocked
<1>1. /\ wipe[r] \in WipeRow /\ wipe[r].pc = "purge" /\ wipe' = [wipe EXCEPT ![r].pc = "ok"]
      /\ rows' = rows
  BY DEF DestroyProductImages, PurgeWhen, TenantInv, TypesTenants
<1>2. \A q \in Wipes : wipe'[q] = IF q = r THEN [wipe[r] EXCEPT !.pc = "ok"] ELSE wipe[q]
  BY <1>1 DEF TenantInv, TypesTenants
<1>3. wipe'[r].pc = "ok" /\ wipe'[r].blockers = wipe[r].blockers
  BY <1>1, <1>2 DEF WipeRow
<1>4. Orderly(wipe'[r], WipedOrg[r], rows')
  BY <1>3, OrderlyOver
<1> QED
  BY <1>1, <1>2, <1>3, <1>4, OrderMoves DEF NoneBlocked

LEMMA OrderKept ==
  ASSUME TenantInv, OrderInv, [TenantsNext]_<<tenantVars, imageVars>>
  PROVE  OrderInv' /\ \A q \in Wipes : \A x \in wipe'[q].blockers \ wipe[q].blockers : Explained(q, x)
<1> SUFFICES \/ OrderInv' /\ NoneBlocked
             \/ OrderInv' /\ \A q \in Wipes : \A x \in wipe'[q].blockers \ wipe[q].blockers : Explained(q, x)
  BY DEF NoneBlocked
<1>1. CASE \E m \in Founded, days \in {0, 1}, plan \in {"BASIC", "PRO"} : CreateOrganization(m, days, plan)
  BY <1>1, CreateOrderly
<1>2. CASE \E o \in Org, body \in OrgBodies : UpdateOrganization(o, body)
  BY <1>2, OthersOrderly DEF UpdateOrganization
<1>3. CASE (\E m \in Recruits : ProvisionOrganizationUser(m)) \/ \E m \in Joins : Join(m)
  BY <1>3, ArrivalOrderly, TenantAssumption DEF ProvisionOrganizationUser, Join
<1>4. CASE \/ \E m \in members : RemoveMember(m) \/ Leave(m)
           \/ \E u \in User : \E given \in Carried(u) : SignIn(u, given)
           \/ Tick
  BY <1>4, OthersOrderly DEF RemoveMember, Leave, SignIn, Tick
<1>5. CASE \E x \in Inserts : InsertRow(x)
  BY <1>5, InsertOrderly
<1>6. CASE WipeNext
  BY <1>6, BeginOrderly, EmptyTableOrderly, SortOrderly, DeleteAccountsOrderly,
     DeleteTenantOrderly, AbortOrderly DEF WipeNext
<1>7. CASE \E r \in Wipes : DestroyProductImages(r)
  BY <1>7, DestroyOrderly
<1>8. CASE UNCHANGED tenantVars
  BY <1>8, OthersOrderly DEF tenantVars
<1> QED
  BY <1>1, <1>2, <1>3, <1>4, <1>5, <1>6, <1>7, <1>8 DEF TenantsNext, TenantNext

LEMMA OrderBegins ==
  ASSUME InitTenants
  PROVE  OrderInv
<1>1. \A r \in Wipes : wipe[r].pc = "idle" /\ wipe[r].at = 1
  BY DEF InitTenants
<1> QED
  BY <1>1 DEF OrderInv, Orderly

(* deleteOrganization, "children before parents so no RESTRICT foreign key *)
(* blocks the delete": whatever the tenants do and whoever comes and goes  *)
(* meanwhile, a deletion is stopped by a row that came after it began, by a*)
(* receipt import of the tenant, or by a row of another tenant that names  *)
(* an account no longer, or only lately, a member there.                   *)
THEOREM BlockersAlwaysExplained == TenantsSpec => BlockersExplained
<1>1. InitTenants => OrderInv
  BY OrderBegins
<1>2. TenantInv /\ OrderInv /\ [TenantsNext]_<<tenantVars, imageVars>> => OrderInv'
  BY OrderKept
<1>3. TenantInv /\ OrderInv /\ [TenantsNext]_<<tenantVars, imageVars>> =>
        [\A r \in Wipes : \A x \in wipe'[r].blockers \ wipe[r].blockers :
           \/ x \in wipe[r].fresh
           \/ OrgOf[x] = WipedOrg[r] /\ BusinessTable[x] = "receiptImport"
           \/ /\ OrgOf[x] # WipedOrg[r]
              /\ \E u \in Needs[x] \cap wipe[r].victims :
                    \A m \in members : m.user = u /\ m.org = OrgOf[x] => m \in wipe[r].late]_tenantVars
  BY OrderKept DEF Explained, IsImport
<1> QED
  BY <1>1, <1>2, <1>3, TenantsInvariant, PTL DEF TenantsSpec, BlockersExplained

-----------------------------------------------------------------------------
(* Trials.  The invariant ties the days that are counted one by one to the *)
(* end of the trial that is stored.                                        *)
TrialInv == daysLeft = [o \in Org |-> DaysTo(orgs[o].trialEndsAt)]

LEMMA DaysLeftType ==
  ASSUME TenantInv, TrialInv
  PROVE  daysLeft \in [Org -> Nat \cup {Never}]
<1>1. \A o \in Org : orgs[o].trialEndsAt \in Nat \cup {Never}
  BY DEF TenantInv, TypesTenants, OrgRow
<1>2. clock \in Nat
  BY DEF TenantInv, TypesTenants
<1>3. \A o \in Org : DaysTo(orgs[o].trialEndsAt) \in Nat \cup {Never}
  BY <1>1, <1>2 DEF DaysTo
<1> QED
  BY <1>3 DEF TrialInv

(* The end of a trial of so many days is so many days away.                *)
LEMMA TrialEndAway ==
  ASSUME TenantInv, NEW days \in Nat
  PROVE  DaysTo(TrialEnd(days)) = DaysOf(days)
<1>1. clock \in Nat /\ Never \notin Nat
  BY TenantAssumption DEF TenantInv, TypesTenants
<1>2. CASE days > 0
  <2>1. clock + days \in Nat /\ clock + days > clock /\ clock + days - clock = days
    BY <1>1, <1>2
  <2> DEFINE end == clock + days
  <2>2. TrialEnd(days) = end /\ DaysOf(days) = days
    BY <1>2 DEF TrialEnd, DaysOf
  <2>3. end # Never /\ end > clock /\ end - clock = days
    BY <1>1, <2>1
  <2> HIDE DEF end
  <2>4. DaysTo(end) = days
    BY <2>3 DEF DaysTo
  <2> QED
    BY <2>2, <2>4
<1>3. CASE ~ days > 0
  BY <1>3 DEF DaysTo, TrialEnd, DaysOf
<1> QED
  BY <1>2, <1>3

LEMMA CreateTrial ==
  ASSUME TenantInv, TrialInv, NEW m \in Founded, NEW days \in Nat, NEW plan,
         CreateOrganization(m, days, plan)
  PROVE  TrialInv'
<1> DEFINE row == [used |-> TRUE, there |-> TRUE, isActive |-> TRUE,
                   trialEndsAt |-> TrialEnd(days), plan |-> plan]
<1>1. /\ orgs' = [orgs EXCEPT ![m.org] = row] /\ clock' = clock
      /\ daysLeft' = [daysLeft EXCEPT ![m.org] = DaysOf(days)]
  BY DEF CreateOrganization
<1>2. row.trialEndsAt = TrialEnd(days)
  OBVIOUS
<1> HIDE DEF row
<1>3. \A o \in Org : orgs'[o] = IF o = m.org THEN row ELSE orgs[o]
  BY <1>1 DEF TenantInv, TypesTenants
<1>4. \A o \in Org : daysLeft'[o] = IF o = m.org THEN DaysOf(days) ELSE daysLeft[o]
  BY <1>1 DEF TrialInv
<1>5. \A end : DaysTo(end)' = DaysTo(end)
  BY <1>1 DEF DaysTo
<1>6. \A o \in Org : daysLeft'[o] = DaysTo(orgs'[o].trialEndsAt)
  BY <1>2, <1>3, <1>4, TrialEndAway DEF TrialInv
<1>7. daysLeft' = [o \in Org |-> daysLeft'[o]]
  BY <1>1 DEF TrialInv
<1> QED
  BY <1>1, <1>6, <1>7 DEF TrialInv, DaysTo

LEMMA UpdateTrial ==
  ASSUME TenantInv, TrialInv, NEW o \in Org, NEW body \in OrgBodies, UpdateOrganization(o, body)
  PROVE  TrialInv'
<1> DEFINE days == IF "trialEndsAt" \in DOMAIN body THEN DaysTo(body.trialEndsAt)
                   ELSE IF "trialDays" \in DOMAIN body THEN DaysOf(body.trialDays) ELSE daysLeft[o]
<1>1. orgs[o] \in OrgRow /\ OrgBody(body)
  BY TenantAssumption DEF TenantInv, TypesTenants
<1>2. /\ orgs' = [orgs EXCEPT ![o] = Updated(orgs[o], body)] /\ clock' = clock
      /\ daysLeft' = [daysLeft EXCEPT ![o] = days]
  BY DEF UpdateOrganization
<1>3. DaysTo(Updated(orgs[o], body).trialEndsAt) = days
  <2>1. Updated(orgs[o], body).trialEndsAt =
          IF "trialEndsAt" \in DOMAIN body THEN body.trialEndsAt
          ELSE IF "trialDays" \in DOMAIN body THEN TrialEnd(body.trialDays) ELSE orgs[o].trialEndsAt
    BY <1>1 DEF Updated, OrgRow
  <2>2. "trialDays" \in DOMAIN body => DaysTo(TrialEnd(body.trialDays)) = DaysOf(body.trialDays)
    BY <1>1, TrialEndAway DEF OrgBody
  <2>3. daysLeft[o] = DaysTo(orgs[o].trialEndsAt)
    BY DEF TrialInv
  <2> QED
    BY <2>1, <2>2, <2>3
<1> HIDE DEF days
<1>4. \A p \in Org : orgs'[p] = IF p = o THEN Updated(orgs[o], body) ELSE orgs[p]
  BY <1>2 DEF TenantInv, TypesTenants
<1>5. \A p \in Org : daysLeft'[p] = IF p = o THEN days ELSE daysLeft[p]
  BY <1>2 DEF TrialInv
<1>6. \A p \in Org : daysLeft'[p] = DaysTo(orgs'[p].trialEndsAt)
  BY <1>3, <1>4, <1>5 DEF TrialInv
<1>7. daysLeft' = [p \in Org |-> daysLeft'[p]]
  BY <1>2 DEF TrialInv
<1> QED
  BY <1>2, <1>6, <1>7 DEF TrialInv, DaysTo

LEMMA TickTrial ==
  ASSUME TenantInv, TrialInv, Tick
  PROVE  TrialInv'
<1>1. /\ orgs' = orgs /\ clock' = clock + 1 /\ clock \in Nat /\ Never \notin Nat
      /\ daysLeft' = [o \in Org |-> IF daysLeft[o] \in Nat \ {0} THEN daysLeft[o] - 1 ELSE daysLeft[o]]
  BY TenantAssumption DEF Tick, TenantInv, TypesTenants
<1>2. ASSUME NEW end \in Nat \cup {Never}
      PROVE  DaysTo(end)' = IF DaysTo(end) \in Nat \ {0} THEN DaysTo(end) - 1 ELSE DaysTo(end)
  <2>1. CASE end = Never
    BY <1>1, <2>1 DEF DaysTo
  <2>2. CASE end \in Nat /\ end # Never
    <3>1. DaysTo(end) = IF end > clock THEN end - clock ELSE 0
      BY <2>2 DEF DaysTo
    <3>2. DaysTo(end)' = IF end > clock + 1 THEN end - (clock + 1) ELSE 0
      BY <1>1, <2>2 DEF DaysTo
    <3> QED
      BY <1>1, <2>2, <3>1, <3>2
  <2> QED
    BY <2>1, <2>2
<1>3. \A o \in Org : orgs[o].trialEndsAt \in Nat \cup {Never} /\ daysLeft[o] = DaysTo(orgs[o].trialEndsAt)
  BY DEF TrialInv, TenantInv, TypesTenants, OrgRow
<1>4. \A o \in Org : daysLeft'[o] = DaysTo(orgs[o].trialEndsAt)'
  <2> SUFFICES ASSUME NEW o \in Org
               PROVE  daysLeft'[o] = DaysTo(orgs[o].trialEndsAt)'
    OBVIOUS
  <2>1. orgs'[o] = orgs[o]
    BY <1>1
  <2>2. daysLeft'[o] = IF daysLeft[o] \in Nat \ {0} THEN daysLeft[o] - 1 ELSE daysLeft[o]
    BY <1>1
  <2> QED
    BY <1>2, <1>3, <2>1, <2>2 DEF DaysTo
<1>5. daysLeft' = [o \in Org |-> daysLeft'[o]]
  BY <1>1
<1> QED
  BY <1>4, <1>5 DEF TrialInv

(* No other step changes a trial.                                          *)
LEMMA TrialStays ==
  ASSUME TrialInv, \A o \in Org : orgs'[o].trialEndsAt = orgs[o].trialEndsAt,
         UNCHANGED <<clock, daysLeft>>
  PROVE  TrialInv'
BY DEF TrialInv, DaysTo

LEMMA DeleteTenantTrial ==
  ASSUME TenantInv, TrialInv, NEW r \in Wipes, DeleteTenant(r)
  PROVE  TrialInv'
<1>1. orgs' = orgs \/ orgs' = [orgs EXCEPT ![WipedOrg[r]].there = FALSE]
  BY DEF DeleteTenant, WipeUnchanged
<1>2. ASSUME NEW o \in Org
      PROVE  orgs'[o].trialEndsAt = orgs[o].trialEndsAt
  <2>1. orgs[o] \in OrgRow
    BY DEF TenantInv, TypesTenants
  <2>2. orgs'[o] = orgs[o] \/ orgs'[o] = [orgs[o] EXCEPT !.there = FALSE]
    BY <1>1 DEF TenantInv, TypesTenants
  <2> QED
    BY <2>1, <2>2 DEF OrgRow
<1>3. UNCHANGED <<clock, daysLeft>>
  BY DEF DeleteTenant, WipeUnchanged
<1> QED
  BY <1>2, <1>3, TrialStays

LEMMA TrialKept ==
  ASSUME TenantInv, TrialInv, [TenantsNext]_<<tenantVars, imageVars>>
  PROVE  TrialInv'
<1>1. CASE \E m \in Founded, days \in {0, 1}, plan \in {"BASIC", "PRO"} : CreateOrganization(m, days, plan)
  BY <1>1, CreateTrial
<1>2. CASE \E o \in Org, body \in OrgBodies : UpdateOrganization(o, body)
  BY <1>2, UpdateTrial
<1>3. CASE Tick
  BY <1>3, TickTrial
<1>4. CASE \E r \in Wipes : DeleteTenant(r)
  BY <1>4, DeleteTenantTrial
<1>5. CASE UNCHANGED <<orgs, clock, daysLeft>>
  BY <1>5, TrialStays
<1>6. \/ <1>1!1 \/ <1>2!1 \/ <1>3!1 \/ <1>4!1 \/ <1>5!1
  BY DEF TenantsNext, TenantNext, WipeNext, ProvisionOrganizationUser, Join, RemoveMember, Leave,
     SignIn, InsertRow, BeginWipe, EmptyTable, SortAccounts, DeleteAccounts, AbortWipe,
     WipeUnchanged, DestroyProductImages, tenantVars
<1> QED
  BY <1>1, <1>2, <1>3, <1>4, <1>5, <1>6

LEMMA TrialInit ==
  ASSUME InitTenants
  PROVE  TrialInv
<1>1. \A o \in Org : orgs[o].trialEndsAt = Never
  BY DEF InitTenants
<1> QED
  BY <1>1 DEF InitTenants, TrialInv, DaysTo

LEMMA TrialsInvariant == TenantsSpec => []TrialInv
<1>1. InitTenants => TrialInv
  BY TrialInit
<1>2. TenantInv /\ TrialInv /\ [TenantsNext]_<<tenantVars, imageVars>> => TrialInv'
  BY TrialKept
<1> QED
  BY <1>1, <1>2, TenantsInvariant, PTL DEF TenantsSpec

(* EntitlementsService.resolve, createOrganization and updateOrganization: *)
(* a tenant is locked exactly while it is switched off or the days of its  *)
(* trial have run out, however its trial is set, reset or cleared.         *)
THEOREM TrialsAlwaysRunOut == TenantsSpec => []TrialsRunOut
<1>1. TenantInv /\ TrialInv => TrialsRunOut
  <2> SUFFICES ASSUME TenantInv, TrialInv, NEW o \in Living
               PROVE  Resolve(o).locked <=> ~ orgs[o].isActive \/ daysLeft[o] = 0
    BY DEF TrialsRunOut
  <2>1. /\ o \in Org /\ orgs[o].there /\ o # NoOrg /\ orgs[o] \in OrgRow
        /\ clock \in Nat /\ Never \notin Nat
    BY TenantAssumption DEF Living, TenantInv, TypesTenants
  <2>2. Resolve(o).locked = (TrialExpired(orgs[o]) \/ ~ orgs[o].isActive)
    BY <2>1 DEF Resolve
  <2>3. daysLeft[o] = DaysTo(orgs[o].trialEndsAt) /\ orgs[o].trialEndsAt \in Nat \cup {Never}
    BY <2>1 DEF TrialInv, OrgRow
  <2>4. TrialExpired(orgs[o]) <=> daysLeft[o] = 0
    BY <2>1, <2>3 DEF TrialExpired, DaysTo
  <2> QED
    BY <2>2, <2>4
<1> QED
  BY <1>1, TenantsInvariant, TrialsInvariant, PTL

(* What TenantInv and ImageInv leave out of the types.                     *)
Bounds == clock \in 0 .. Horizon /\ hosted \subseteq Business

LEMMA BoundsKept ==
  ASSUME TenantInv, ImageInv, Bounds, [TenantsNext]_<<tenantVars, imageVars>>
  PROVE  Bounds'
<1>1. \/ clock' = clock
      \/ clock < Horizon /\ clock' = clock + 1
  BY DEF TenantsNext, TenantNext, WipeNext, CreateOrganization, UpdateOrganization,
     ProvisionOrganizationUser, Join, RemoveMember, Leave, SignIn, InsertRow, Tick, BeginWipe,
     EmptyTable, SortAccounts, DeleteAccounts, DeleteTenant, AbortWipe, WipeUnchanged,
     DestroyProductImages, tenantVars
<1>2. clock' \in 0 .. Horizon
  BY <1>1, TenantAssumption DEF Bounds
<1>3. \A r \in Uploads \cup Removals : ImageTarget[r] \in Business
  BY ImageAssumption
<1>4. hosted' \subseteq hosted \/ \E r \in Uploads \cup Removals : hosted' = hosted \cup {ImageTarget[r]}
  BY DEF TenantsNext, ImageNext, ReadForPhoto, UploadProductImage, DestroyImage, StoreImage,
     DestroyProductImages, imageVars
<1>5. hosted' \subseteq Business
  BY <1>3, <1>4 DEF Bounds
<1> QED
  BY <1>2, <1>5 DEF Bounds

(* TypeOKTenants and TypeOKImages of every instance.                       *)
THEOREM TenantTypesCorrect == TenantsSpec => [](TypeOKTenants /\ TypeOKImages)
<1>1. InitTenants /\ InitImages => Bounds
  <2>1. InitTenants /\ InitImages => clock = 0 /\ hosted \subseteq OpeningRows
    BY ImageAssumption DEF InitTenants, InitImages
  <2> QED
    BY <2>1, TenantAssumption, ImageAssumption DEF Bounds
<1>2. TenantInv /\ ImageInv /\ Bounds /\ [TenantsNext]_<<tenantVars, imageVars>> => Bounds'
  BY BoundsKept
<1>3. TenantInv /\ ImageInv /\ TrialInv /\ Bounds => TypeOKTenants /\ TypeOKImages
  BY DaysLeftType DEF TenantInv, TypesTenants, ImageInv, PhotosInOrder, Bounds, TypeOKTenants,
     TypeOKImages, Request, Label
<1> QED
  BY <1>1, <1>2, <1>3, TenantsInvariant, TrialsInvariant, PTL DEF TenantsSpec

-----------------------------------------------------------------------------
(* The three beside each other, with the requests a behaviour does not see *)
(* refused from the start: each keeps its invariant, and leaves the others'*)
(* tables alone.                                                           *)
OfficeInv == RefInv /\ LabelInv /\ TenantInv /\ ImageInv /\ TrialInv /\ Bounds

LEMMA OfficeBegins ==
  ASSUME OfficeInit
  PROVE  OfficeInv
<1>1. RefInv
  <2>1. \A key \in SystemType : DEFAULT_STOCK_MOVEMENT_TYPES[key] \in Effect
    BY RefAssumption DEF SystemType, DEFAULT_STOCK_MOVEMENT_TYPES, Effect
  <2>2. \A e \in Entry : entries[e] \in EntryRow
    BY <2>1, RefAssumption DEF OfficeInit, InitEntries, EntryRow
  <2>3. entries \in [Entry -> EntryRow]
    BY <2>2 DEF OfficeInit, InitEntries
  <2>4. \A key \in SystemType : AsSeeded(key)
    BY <2>2, RefAssumption DEF OfficeInit, InitEntries, AsSeeded
  <2>5. \A r \in RefReq : clerk[r] = [pc |-> "idle"] \/ clerk[r] = Refuse
    BY DEF OfficeInit
  <2>6. \A r \in RefReq : Sound(clerk[r])
    BY <2>5, RefuseSound DEF Sound
  <2> QED
    BY <2>3, <2>4, <2>6 DEF RefInv, OfficeInit
<1>2. LabelInv
  <2>1. EveryUnitIdentified
    <3> SUFFICES ASSUME NEW u \in Registered
                 PROVE  Identified(labels[u].data)
      BY DEF EveryUnitIdentified
    <3>1. u \in Unit /\ OpeningLabels[u].there /\ labels[u] = OpeningLabels[u]
      BY DEF OfficeInit, Registered
    <3>2. PICK f \in Column : OpeningLabels[u].data[f] # Null
      BY <3>1, LabelAssumption
    <3>3. OpeningLabels[u].data \in [Field -> LabelValue]
      BY <3>1, LabelAssumption DEF UnitLabel
    <3>4. f \in DOMAIN labels[u].data /\ labels[u].data[f] # Null
      BY <3>1, <3>2, <3>3 DEF Field
    <3> QED
      BY <3>4 DEF Identified, Entries
  <2>2. \A r \in LabelReq : labelling[r] = [pc |-> "idle"] \/ labelling[r] = Refused
    BY DEF OfficeInit
  <2>3. \A r \in LabelReq : labelling[r].pc # "write"
    BY <2>2 DEF Refused
  <2> QED
    BY <2>1, <2>3, LabelAssumption DEF OfficeInit, LabelInv
<1>3. TenantInv /\ ImageInv /\ TrialInv
  BY TenantInit, ImageInit, TrialInit DEF OfficeInit
<1>4. Bounds
  <2>1. clock = 0 /\ hosted \subseteq OpeningRows
    BY ImageAssumption DEF OfficeInit, InitTenants, InitImages
  <2> QED
    BY <2>1, TenantAssumption, ImageAssumption DEF Bounds
<1> QED
  BY <1>1, <1>2, <1>3, <1>4 DEF OfficeInv

LEMMA OfficeKept ==
  ASSUME OfficeInv, [OfficeNext]_OfficeVars
  PROVE  OfficeInv'
<1>1. /\ [RefNext]_refVars /\ [LabelNext]_labelVars
      /\ [TenantsNext]_<<tenantVars, imageVars>>
  BY DEF OfficeNext, OfficeVars
<1>2. RefInv' /\ LabelInv'
  BY <1>1, RefKept, LabelsKept DEF OfficeInv
<1>3. (TenantInv /\ ImageInv)' /\ TrialInv' /\ Bounds'
  BY <1>1, StepKeeps, TrialKept, BoundsKept DEF OfficeInv
<1> QED
  BY <1>2, <1>3 DEF OfficeInv

(* The parts of the back office stay well typed beside each other.         *)
THEOREM OfficeTypesCorrect == OfficeSpec => []OfficeTypeOK
<1>1. OfficeInv => OfficeTypeOK
  <2>1. RefInv => TypeOKRef
    BY DEF RefInv, TypeOKRef, Sound, WellTyped, Uncreated
  <2>2. LabelInv => TypeOKLabels
    BY DEF LabelInv, TypeOKLabels, Carries
  <2>3. TenantInv /\ TrialInv /\ ImageInv /\ Bounds => TypeOKTenants /\ TypeOKImages
    BY DaysLeftType DEF TenantInv, TypesTenants, ImageInv, PhotosInOrder, Bounds, TypeOKTenants, TypeOKImages,
       Request, Label
  <2> QED
    BY <2>1, <2>2, <2>3 DEF OfficeInv, OfficeTypeOK
<1> QED
  BY <1>1, OfficeBegins, OfficeKept, PTL DEF OfficeSpec
=============================================================================
