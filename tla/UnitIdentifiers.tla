--------------------------- MODULE UnitIdentifiers ---------------------------
(***************************************************************************)
(* The identifiers a product unit is scanned by: registration, patches and *)
(* tag writes.  Each handler reads (the unit, and whether the identifiers  *)
(* are in use in any of the three columns), decides, and later writes; the *)
(* database only keeps the values of each column apart.  ProductUnits has  *)
(* the stock side of the same handlers.                                    *)
(***************************************************************************)
EXTENDS Sequences, Overlay

CONSTANTS
  Unit,            \* product unit rows, those not yet registered included
  Tag,             \* identifiers
  Place,           \* locations
  Null, Spaces,    \* no value, and a text of blanks
  OpeningLabels,   \* the unit rows when the behaviour starts
  LabelRegistrations, Patches, TagWrites,     \* the requests, by handler
  RegistrationInputs,   \* what a client registers: sequences of labels
  PatchBodies,          \* what a client patches: some fields and their values
  DrawnUnits            \* the ids the database draws for each registration

VARIABLES
  labels,      \* the committed unit rows
  labelling    \* what each request is about to do

labelVars == <<labels, labelling>>

LabelReq == LabelRegistrations \cup Patches \cup TagWrites
Column == {"assetTag", "serialNumber", "rfidTag"}
Field == Column \cup {"locationId"}

(* A unit that counts as stock, one that does not, and one that is gone.   *)
LabelStatus == {"IN_STOCK", "DAMAGED", "SOLD"}
TAG_WRITE_BLOCKED_STATUSES == {"SOLD"}

LabelValue == Tag \cup Place \cup {Null}

UnitLabel == [there: BOOLEAN, status: LabelStatus, data: [Field -> LabelValue]]

(* Some fields of a unit, with values of them.                             *)
Gives(data, fields, values) ==
  DOMAIN data \subseteq fields /\ \A f \in DOMAIN data : data[f] \in values

ASSUME LabelAssumption ==
  /\ Null \notin Tag \cup Place /\ Spaces \notin LabelValue
  /\ LabelRegistrations \cap (Patches \cup TagWrites) = {} /\ Patches \cap TagWrites = {}
  /\ OpeningLabels \in [Unit -> UnitLabel]
  /\ \A u \in Unit : OpeningLabels[u].there =>
        \E f \in Column : OpeningLabels[u].data[f] # Null
  /\ \A body \in PatchBodies : Gives(body, Field, LabelValue \cup {Spaces})
  /\ \A inputs \in RegistrationInputs :
        /\ \A i \in DOMAIN inputs : Gives(inputs[i], Column, LabelValue \cup {Spaces})
        /\ \A r \in LabelRegistrations : DOMAIN inputs \subseteq DOMAIN DrawnUnits[r]
  /\ \A r \in LabelRegistrations : DrawnUnits[r] \in Seq(Unit)

InitLabels ==
  /\ labels = OpeningLabels
  /\ labelling = [r \in LabelReq |-> [pc |-> "idle"]]

Registered == {u \in Unit : labels[u].there}

-----------------------------------------------------------------------------
(* What a handler decides: to refuse, or to give fields of units values,   *)
(* of which its client sent some (a ghost).                                *)
Refused == [pc |-> "failed"]
Relabel(rows) == [pc |-> "write", rows |-> rows, sent |-> Field]

(* identifierEntries                                                       *)
Entries(data) == {f \in Column \cap DOMAIN data : data[f] # Null}
Identified(data) == Entries(data) # {}

(* Mutant: a unit may have no identifier.                                  *)
AllIdentified(units) == TRUE

EnsureUnitsHaveIdentifiers(units) == \A i \in DOMAIN units : Identified(units[i])

EnsurePayloadIdentifiersAreUnique(units) ==
  \A i, j \in DOMAIN units : \A f \in Entries(units[i]), g \in Entries(units[j]) :
     units[i][f] = units[j][g] => i = j /\ f = g

(* Mutant: a value is looked up in its own column alone.                   *)
ColumnByColumn(units, except) ==
  \A i \in DOMAIN units : \A f \in Entries(units[i]) :
     \A u \in Registered \ except : units[i][f] # labels[u].data[f]

EnsureIdentifiersAvailable(units, except) ==
  \A i \in DOMAIN units : \A f \in Entries(units[i]) :
     \A u \in Registered \ except, g \in Column : units[i][f] # labels[u].data[g]

(* Mutant: blanks are kept.                                                *)
AsTyped(value) == value

(* cleanOptional, cleanNullable, and the trim of the request bodies.       *)
Clean(value) == IF value = Spaces THEN Null ELSE value

(* normalizeUnitInput                                                      *)
Normalized(input) ==
  [f \in Column |-> IF f \in DOMAIN input THEN Clean(input[f]) ELSE Null]

RegisterUnits(r, inputs, place) ==
  LET units == [i \in DOMAIN inputs |-> Normalized(inputs[i])]
      drawn == DrawnUnits[r]
  IN  IF /\ EnsureUnitsHaveIdentifiers(units)
         /\ EnsurePayloadIdentifiersAreUnique(units)
         /\ EnsureIdentifiersAvailable(units, {})
      THEN Relabel([u \in {drawn[i] : i \in DOMAIN units} |->
                      Over(units[CHOOSE i \in DOMAIN units : drawn[i] = u],
                           [locationId |-> place])])
      ELSE Refused

(* The body as the validation pipe hands it on.  It is an instance of      *)
(* UpdateProductUnitDTO, compiled for ES2023, so each field of the class is*)
(* a property of its own, undefined when the client did not send it:       *)
(* hasOwnProperty finds all four.                                          *)
Received(body) == Over(body, [f \in Field |-> Null])

(* buildPatchData                                                          *)
BuildPatchData(body) ==
  LET dto == Received(body) IN [f \in DOMAIN dto |-> Clean(dto[f])]

UpdateProductUnit(u, body) ==
  LET data == BuildPatchData(body)
      merged == Over(data, labels[u].data)
      toCheck == [f \in Entries(data) |-> data[f]]
  IN  IF /\ DOMAIN data # {}
         /\ EnsureUnitsHaveIdentifiers(<<merged>>)
         /\ EnsurePayloadIdentifiersAreUnique(<<merged>>)
         /\ EnsureIdentifiersAvailable(<<toCheck>>, {u})
         /\ ~ ("locationId" \in DOMAIN data /\ data["locationId"] = Null
               /\ labels[u].status = "IN_STOCK")
      THEN [Relabel([x \in {u} |-> data]) EXCEPT !.sent = DOMAIN body]
      ELSE Refused

WriteProductUnitTag(u, tag) ==
  LET written == [rfidTag |-> tag]
  IN  IF /\ labels[u].status \notin TAG_WRITE_BLOCKED_STATUSES
         /\ EnsurePayloadIdentifiersAreUnique(<<Over(written, labels[u].data)>>)
         /\ EnsureIdentifiersAvailable(<<written>>, {u})
      THEN Relabel([x \in {u} |-> written])
      ELSE Refused

-----------------------------------------------------------------------------
(* A product or unit that is not found is refused at any time.             *)
LabelDecisions(r) ==
  {Refused} \cup
  IF r \in LabelRegistrations
    THEN {RegisterUnits(r, inputs, place) : inputs \in RegistrationInputs, place \in Place}
  ELSE IF r \in Patches
    THEN {UpdateProductUnit(u, body) : u \in Registered, body \in PatchBodies}
  ELSE {WriteProductUnitTag(u, tag) : u \in Registered, tag \in Tag}

ReadLabels(r) ==
  /\ labelling[r].pc = "idle"
  /\ \E decision \in LabelDecisions(r) : labelling' = [labelling EXCEPT ![r] = decision]
  /\ UNCHANGED labels

Relabelled(rows) ==
  [u \in Unit |->
     IF u \in DOMAIN rows
       THEN [labels[u] EXCEPT !.there = TRUE, !.data = Over(rows[u], labels[u].data)]
       ELSE labels[u]]

(* The unique constraints, one for each column.                            *)
ColumnsApart(rows) ==
  \A u, x \in Unit : u # x /\ rows[u].there /\ rows[x].there =>
     \A f \in Entries(rows[u].data) : rows[u].data[f] # rows[x].data[f]

(* The update, or the transaction that creates all the units or none.      *)
WriteLabels(r) ==
  /\ labelling[r].pc = "write"
  /\ LET written == Relabelled(labelling[r].rows)
     IN  IF ColumnsApart(written)
           THEN labels' = written /\ labelling' = [labelling EXCEPT ![r] = [pc |-> "ok"]]
           ELSE labelling' = [labelling EXCEPT ![r] = Refused] /\ UNCHANGED labels

AbortLabels(r) ==
  /\ labelling[r].pc = "write"
  /\ labelling' = [labelling EXCEPT ![r] = Refused]
  /\ UNCHANGED labels

(* Meanwhile a unit breaks or is sold: ProductUnits and Pos.               *)
Depart(u) ==
  /\ labels[u].there /\ labels[u].status = "IN_STOCK"
  /\ \/ labels' = [labels EXCEPT ![u].status = "DAMAGED"]
     \/ labels' = [labels EXCEPT ![u].status = "SOLD", ![u].data["locationId"] = Null]
  /\ UNCHANGED labelling

LabelNext ==
  \/ \E r \in LabelReq : ReadLabels(r) \/ WriteLabels(r) \/ AbortLabels(r)
  \/ \E u \in Unit : Depart(u)

LabelSpec == InitLabels /\ [][LabelNext]_labelVars

-----------------------------------------------------------------------------
TypeOKLabels ==
  /\ labels \in [Unit -> UnitLabel]
  /\ DOMAIN labelling = LabelReq
  /\ \A r \in LabelReq : labelling[r].pc = "write" =>
        /\ DOMAIN labelling[r].rows \subseteq Unit
        /\ \A u \in DOMAIN labelling[r].rows : Gives(labelling[r].rows[u], Field, LabelValue)

(* "must include assetTag, serialNumber, or rfidTag": whatever patches, tag*)
(* writes and registrations overlap, no unit loses the last identifier it  *)
(* can be scanned by.  A patch is safe from the ones that overlap it only  *)
(* because it writes all three columns.                                    *)
EveryUnitIdentified == \A u \in Registered : Identified(labels[u].data)

(* No scan can mean two units.                                             *)
ScansApart(rows) ==
  \A u, x \in Unit : u # x /\ rows[u].there /\ rows[x].there =>
     \A f \in Entries(rows[u].data), g \in Entries(rows[x].data) :
        rows[u].data[f] # rows[x].data[g]

(* A handler whose reads are still true when it writes keeps every         *)
(* identifier, in whatever column, on one unit ("Unit identifier already in*)
(* use"), and so is never stopped by a constraint.                         *)
FreshLabelsFit ==
  ScansApart(labels) =>
    \A r \in {q \in LabelReq : labelling[q].pc = "idle"} :
       \A decision \in LabelDecisions(r) \ {Refused} : ScansApart(Relabelled(decision.rows))

(* A patch leaves the fields its client did not send as they are: "No      *)
(* product unit changes supplied" is the answer to one that sends none, and*)
(* the identifiers to check are the sent ones over the unit's own.         *)
PatchSparesUnsent ==
  [][\A r \in Patches : labelling[r].pc = "write" /\ labelling'[r].pc = "ok" =>
       \A u \in DOMAIN labelling[r].rows : \A f \in Field \ labelling[r].sent :
          labels'[u].data[f] = labels[u].data[f]]_labelVars
=============================================================================
