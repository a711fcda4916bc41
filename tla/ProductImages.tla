---------------------------- MODULE ProductImages ----------------------------
(***************************************************************************)
(* The photos of products: a column of the product's row, and an asset that*)
(* the image host keeps under the product's id in the tenant's folder.  The*)
(* two are written one after the other, in no transaction.                 *)
(***************************************************************************)
EXTENDS Tenants

CONSTANTS
  Uploads, Removals,     \* the requests, by handler
  ImageTarget,           \* the product of each request
  OpeningImages          \* the products that have a photo

VARIABLES
  imageOf,     \* the product rows that name a photo
  hosted,      \* the assets of the image host
  photo        \* where each request is

imageVars == <<imageOf, hosted, photo>>

ASSUME ImageAssumption ==
  /\ Uploads \cap Removals = {} /\ ImageTarget \in [Uploads \cup Removals -> Business]
  /\ OpeningImages \subseteq OpeningRows

InitImages ==
  /\ imageOf = OpeningImages /\ hosted = OpeningImages
  /\ photo = [r \in Uploads \cup Removals |-> "idle"]

Goto(r, pc) == photo' = [photo EXCEPT ![r] = pc]

(* getProduct; a removal looks at the photo the product has then.          *)
ReadForPhoto(r) ==
  /\ photo[r] = "idle"
  /\ \/ Goto(r, "failed")
     \/ /\ ImageTarget[r] \in rows
        /\ Goto(r, IF r \in Uploads THEN "upload"
                   ELSE IF ImageTarget[r] \in imageOf THEN "destroy" ELSE "clear")
  /\ UNCHANGED <<imageOf, hosted>>

(* uploadProductImage: "a re-upload overwrites the previous one in place". *)
UploadProductImage(r) ==
  /\ photo[r] = "upload"
  /\ \/ hosted' = hosted \cup {ImageTarget[r]} /\ Goto(r, "store")
     \/ UNCHANGED hosted /\ Goto(r, "failed")
  /\ UNCHANGED imageOf

(* destroy: "a failed cleanup must never break the user-facing flow".      *)
DestroyImage(r) ==
  /\ photo[r] = "destroy"
  /\ hosted' \in {hosted, hosted \ {ImageTarget[r]}}
  /\ Goto(r, "clear")
  /\ UNCHANGED imageOf

(* The update of the row, which waits for a deletion of it.                *)
StoreImage(r) ==
  LET p == ImageTarget[r]
  IN  /\ photo[r] \in {"store", "clear"}
      /\ \/ /\ p \in rows \ Doomed
            /\ imageOf' = IF photo[r] = "store" THEN imageOf \cup {p} ELSE imageOf \ {p}
            /\ Goto(r, "ok")
         \/ UNCHANGED imageOf /\ Goto(r, "failed")
      /\ UNCHANGED hosted

(* Mutant: the assets are purged before the deletion commits.              *)
PurgeAtOnce == {"tenant", "purge"}

PurgeWhen == {"purge"}

(* destroyProductImages: batches of the tenant's folder, until one fails.  *)
DestroyProductImages(r) ==
  /\ wipe[r].pc \in PurgeWhen
  /\ \E S \in SUBSET {p \in hosted : OrgOf[p] = WipedOrg[r]} : hosted' = hosted \ S
  /\ wipe' = IF wipe[r].pc = "purge" THEN [wipe EXCEPT ![r].pc = "ok"] ELSE wipe
  /\ UNCHANGED <<orgs, users, legacy, members, rows, session, clock, daysLeft, imageOf, photo>>

ImageNext ==
  \E r \in Uploads \cup Removals :
     ReadForPhoto(r) \/ UploadProductImage(r) \/ DestroyImage(r) \/ StoreImage(r)

TenantsNext ==
  \/ TenantNext /\ UNCHANGED imageVars
  \/ ImageNext /\ UNCHANGED tenantVars
  \/ \E r \in Wipes : DestroyProductImages(r)

TenantsSpec == InitTenants /\ InitImages /\ [][TenantsNext]_<<tenantVars, imageVars>>

-----------------------------------------------------------------------------
TypeOKImages ==
  /\ imageOf \subseteq Business /\ hosted \subseteq Business
  /\ \A r \in Uploads \cup Removals :
        photo[r] \in {"idle", "upload", "store", "destroy", "clear", "ok", "failed"}

(* A product whose row names a photo has it at the host, unless a removal  *)
(* of that photo was asked for: no upload that fails between its two       *)
(* writes, and no deletion of a tenant that is refused, rolled back or     *)
(* meant for another tenant, costs a photo.                                *)
PhotosServed ==
  \A p \in rows \cap imageOf :
     (\A r \in Removals : ImageTarget[r] = p => photo[r] = "idle") => p \in hosted
=============================================================================
