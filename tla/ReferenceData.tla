---------------------------- MODULE ReferenceData ----------------------------
(***************************************************************************)
(* The small tables everything else refers to: categories, locations,      *)
(* suppliers, their links and stock movement types.  Their services follow *)
(* one protocol: the reads that find the row and look its name up, each in *)
(* a transaction of its own, and later one write, guarded by nothing but   *)
(* the table's unique constraint.  A supplier or row that is archived      *)
(* between the reads could as well be archived after them, so the reads of *)
(* one handler are one step.                                               *)
(***************************************************************************)
EXTENDS Overlay

CONSTANTS
  Entry,         \* the rows of the five tables, those not yet created included
  TableOf,       \* the table of each row
  Word,          \* names, codes and platforms
  Asked,         \* the ones clients ask for
  Fold,          \* a name as case-insensitive comparison sees it
  NoWord, Blank, \* a code that is not given, and one of no characters
  NoEntry,
  OpeningEntries,  \* the custom rows there are when the behaviour starts
  EntryCreations, EntryUpdates, EntryArchivals,    \* the requests, by handler
  DrawnEntry     \* the id the database draws for each creation

VARIABLES
  entries,    \* the committed rows
  clerk       \* what each request is about to do

refVars == <<entries, clerk>>

RefReq == EntryCreations \cup EntryUpdates \cup EntryArchivals
RefTable == {"category", "location", "supplier", "link", "type"}
Effect == {"INCREASE", "DECREASE", "ADJUSTMENT"}

(* The types every tenant starts with, named by their keys.                *)
DEFAULT_STOCK_MOVEMENT_TYPES ==
  [key \in {"INITIAL", "PURCHASE", "SALE", "ADJUSTMENT", "RETURN"} |->
     CASE key = "SALE" -> "DECREASE" [] key = "ADJUSTMENT" -> "ADJUSTMENT" [] OTHER -> "INCREASE"]

SystemType == DOMAIN DEFAULT_STOCK_MOVEMENT_TYPES

EntryRow ==
  [there: BOOLEAN, key: Word \cup {NoWord, Blank}, parent: Entry \cup {NoEntry},
   effect: Effect, isArchived: BOOLEAN]

(* A row that has not been created yet.                                    *)
Uncreated ==
  [there |-> FALSE, key |-> NoWord, parent |-> NoEntry, effect |-> "INCREASE",
   isArchived |-> FALSE]

ASSUME RefAssumption ==
  /\ SystemType \subseteq Entry /\ SystemType \subseteq Word
  /\ TableOf \in [Entry -> RefTable] /\ \A key \in SystemType : TableOf[key] = "type"
  /\ Asked \subseteq Word /\ NoWord \notin Word /\ Blank \notin Word /\ NoEntry \notin Entry
  /\ OpeningEntries \in [Entry \ SystemType -> EntryRow]
  /\ DrawnEntry \in [EntryCreations -> Entry \ SystemType]
  /\ EntryCreations \cap (EntryUpdates \cup EntryArchivals) = {}
  /\ EntryUpdates \cap EntryArchivals = {}

InitEntries ==
  [e \in Entry |->
     IF e \in SystemType
       THEN [there |-> TRUE, key |-> e, parent |-> NoEntry,
             effect |-> DEFAULT_STOCK_MOVEMENT_TYPES[e], isArchived |-> FALSE]
       ELSE OpeningEntries[e]]

InitRef ==
  /\ entries = InitEntries
  /\ clerk = [r \in RefReq |-> [pc |-> "idle"]]

RowsIn(table) == {e \in Entry : TableOf[e] = table /\ entries[e].there}
LiveIn(table) == {e \in RowsIn(table) : ~ entries[e].isArchived}

-----------------------------------------------------------------------------
(* What the reads of a handler decide: to refuse, or to give some columns  *)
(* of a row other values.                                                  *)
Refuse == [pc |-> "failed"]
Plan(e, data) == [pc |-> "write", entry |-> e, data |-> data]

(* Mutant: archived rows are not looked up.                                *)
LiveCategoryByName(name) == {e \in LiveIn("category") : Fold[entries[e].key] = Fold[name]}

(* "Case-insensitive lookup so Beverages and beverages are the same name". *)
FindCategoryByName(name) == {e \in RowsIn("category") : Fold[entries[e].key] = Fold[name]}

FindLocationByCode(code) == {e \in RowsIn("location") : entries[e].key = code}

FindLinkByPlatform(s, platform) ==
  {e \in RowsIn("link") : entries[e].parent = s /\ entries[e].key = platform}

FindStockMovementTypeByName(name) ==
  {e \in RowsIn("type") : Fold[entries[e].key] = Fold[name]}

(* A creation that found the row another one has, archived or not.         *)
NewOrReactivated(r, found, data) ==
  IF found = {} THEN {Plan(DrawnEntry[r], Over([there |-> TRUE], data))}
  ELSE {IF entries[e].isArchived THEN Plan(e, Over([isArchived |-> FALSE], data)) ELSE Refuse :
          e \in found}

(* An update of a live row whose new name is free, or its own.             *)
Renamed(e, found, data) ==
  IF found = {} THEN {Plan(e, data)} ELSE {IF x = e THEN Plan(e, data) ELSE Refuse : x \in found}

-----------------------------------------------------------------------------
CreateCategory(r) ==
  UNION {NewOrReactivated(r, FindCategoryByName(name), [key |-> name]) : name \in Asked}

UpdateCategory(e) ==
  UNION {Renamed(e, FindCategoryByName(name), [key |-> name]) : name \in Asked}

(* Only a code that is given and not empty is looked up.                   *)
CreateLocation(r) ==
  (UNION {NewOrReactivated(r, FindLocationByCode(code), [key |-> code]) : code \in Asked})
    \cup {Plan(DrawnEntry[r], [there |-> TRUE, key |-> code]) : code \in {NoWord, Blank}}

UpdateLocation(e) ==
  (UNION {Renamed(e, FindLocationByCode(code), [key |-> code]) : code \in Asked})
    \cup {Plan(e, [key |-> Blank])}

(* Nothing about a supplier is unique.                                     *)
CreateSupplier(r) == {Plan(DrawnEntry[r], [there |-> TRUE, key |-> name]) : name \in Asked}

UpdateSupplier(e) == {Plan(e, [key |-> name]) : name \in Asked}

CreateSupplierLink(r) ==
  {Refuse} \cup UNION {NewOrReactivated(r, FindLinkByPlatform(s, platform),
                                        [key |-> platform, parent |-> s]) :
                         s \in LiveIn("supplier"), platform \in Asked}

UpdateSupplierLink(e) ==
  UNION {Renamed(e, FindLinkByPlatform(entries[e].parent, platform), [key |-> platform]) :
           platform \in Asked}

CreateStockMovementType(r) ==
  UNION {NewOrReactivated(r, FindStockMovementTypeByName(name), [key |-> name, effect |-> effect]) :
           name \in Asked, effect \in Effect}

(* Mutant: the effect of a system type is not looked at.                   *)
AnyEffect(e) ==
  UNION {Renamed(e, FindStockMovementTypeByName(name), [key |-> name, effect |-> effect]) :
           name \in Asked, effect \in Effect}

(* "System stock movement type effect cannot be changed".                  *)
UpdateStockMovementType(e) ==
  LET allowed == IF e \in SystemType THEN {entries[e].effect} ELSE Effect
  IN  UNION {Renamed(e, FindStockMovementTypeByName(name), [key |-> name, effect |-> effect]) :
               name \in Asked, effect \in allowed}

(* archiveCategory, archiveLocation, archiveSupplier, archiveSupplierLink. *)
ArchiveEntry(e) == {Plan(e, [isArchived |-> TRUE])}

(* "System stock movement types cannot be archived".                       *)
ArchiveStockMovementType(e) == IF e \in SystemType THEN {Refuse} ELSE ArchiveEntry(e)

-----------------------------------------------------------------------------
Creation(r) ==
  LET table == TableOf[DrawnEntry[r]]
  IN  CASE table = "category" -> CreateCategory(r)
        [] table = "location" -> CreateLocation(r)
        [] table = "supplier" -> CreateSupplier(r)
        [] table = "link" -> CreateSupplierLink(r)
        [] table = "type" -> CreateStockMovementType(r)

Update(e) ==
  CASE TableOf[e] = "category" -> UpdateCategory(e)
    [] TableOf[e] = "location" -> UpdateLocation(e)
    [] TableOf[e] = "supplier" -> UpdateSupplier(e)
    [] TableOf[e] = "link" -> UpdateSupplierLink(e)
    [] TableOf[e] = "type" -> UpdateStockMovementType(e)

Archival(e) == IF TableOf[e] = "type" THEN ArchiveStockMovementType(e) ELSE ArchiveEntry(e)

(* The row of an update or archival is one that getCategory, getLocation,  *)
(* getSupplier, ... finds.                                                 *)
LiveEntries == UNION {LiveIn(table) : table \in RefTable}

Decisions(r) ==
  IF r \in EntryCreations THEN Creation(r)
  ELSE UNION {IF r \in EntryUpdates THEN Update(e) ELSE Archival(e) : e \in LiveEntries}

ReadEntries(r) ==
  /\ clerk[r].pc = "idle"
  /\ \E plan \in Decisions(r) \cup {Refuse} : clerk' = [clerk EXCEPT ![r] = plan]
  /\ UNCHANGED entries

Written(plan) == Over(plan.data, entries[plan.entry])

(* Two rows the database will not have in one table together.              *)
Clash(table, a, b) ==
  table # "supplier" /\ a.parent = b.parent /\ a.key = b.key /\ a.key # NoWord

Violates(plan) ==
  LET table == TableOf[plan.entry]
  IN  \E e \in RowsIn(table) \ {plan.entry} : Clash(table, entries[e], Written(plan))

WriteEntry(r) ==
  /\ clerk[r].pc = "write"
  /\ IF Violates(clerk[r])
       THEN clerk' = [clerk EXCEPT ![r] = Refuse] /\ UNCHANGED entries
       ELSE /\ entries' = [entries EXCEPT ![clerk[r].entry] = Written(clerk[r])]
            /\ clerk' = [clerk EXCEPT ![r] = [pc |-> "ok"]]

(* The write is lost, or the process ends before it.                       *)
AbortEntry(r) ==
  /\ clerk[r].pc = "write"
  /\ clerk' = [clerk EXCEPT ![r] = Refuse]
  /\ UNCHANGED entries

RefNext == \E r \in RefReq : ReadEntries(r) \/ WriteEntry(r) \/ AbortEntry(r)

RefSpec == InitRef /\ [][RefNext]_refVars

-----------------------------------------------------------------------------
TypeOKRef ==
  /\ entries \in [Entry -> EntryRow]
  /\ DOMAIN clerk = RefReq
  /\ \A r \in RefReq : clerk[r].pc = "write" =>
        clerk[r].entry \in Entry /\ DOMAIN clerk[r].data \subseteq DOMAIN Uncreated

(* What names two rows of a table may not share, also in another case.     *)
SameName(table, a, b) ==
  CASE table \in {"category", "type"} -> Fold[a.key] = Fold[b.key]
    [] table = "supplier" -> FALSE
    [] OTHER -> a.parent = b.parent /\ a.key = b.key /\ a.key # NoWord

NamesApart(table) ==
  \A a, b \in RowsIn(table) : a # b => ~ SameName(table, entries[a], entries[b])

(* A handler whose reads are still true when it writes keeps the names of a*)
(* table apart, archived rows and other cases included, and is not stopped *)
(* by the unique constraint: "the DB unique constraint also covers archived*)
(* rows, so a hard create would crash".  Only a location's empty code,     *)
(* which is not looked up, is stopped by it.                               *)
FreshPlansFit ==
  \A r \in {q \in RefReq : clerk[q].pc = "idle"} : \A plan \in Decisions(r) \ {Refuse} :
     LET table == TableOf[plan.entry]
     IN  NamesApart(table) /\ Written(plan).key # Blank =>
           \A e \in RowsIn(table) \ {plan.entry} :
              /\ ~ Clash(table, entries[e], Written(plan))
              /\ ~ SameName(table, entries[e], Written(plan))

(* getSystemStockMovementTypeId                                            *)
SystemStockMovementTypeId(key) == {e \in LiveIn("type") : e = key}

(* "Reserved for workflows that must resolve a stable type": whatever is   *)
(* renamed, created and archived at once, the sale, the return, the        *)
(* receipt and the audit find their type, with the effect it began with.   *)
SystemTypesResolve ==
  \A key \in SystemType :
     /\ SystemStockMovementTypeId(key) # {}
     /\ entries[key].effect = DEFAULT_STOCK_MOVEMENT_TYPES[key]
=============================================================================
