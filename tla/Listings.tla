------------------------------- MODULE Listings -------------------------------
(***************************************************************************)
(* Listing drafts of inventory items (handlers/listing_drafts.go), the     *)
(* directories with photo exports made for them and the worker that        *)
(* removes expired ones (listing_photo_exports.go), next to the requests   *)
(* of Inventory, which delete items and images at any time.                *)
(***************************************************************************)
EXTENDS Inventory

CONSTANTS Drafts,   \* identities of sale_listing_drafts rows and export directories
          Cleaner   \* RunPhotoExportCleanupWorker

ASSUME ListingAssumption == Cleaner \notin Clients /\ None \notin Drafts

Active == {"draft", "ready"}
HasDraft == Active \cup {"listed", "archived"}

VARIABLES draft,    \* status of a draft
          ofItem,   \* its item
          selling,  \* the provider is enabled
          dir,      \* the export directory: none, fresh, or older than the TTL
          photos,   \* the copies in it
          lx,       \* what each request on drafts is doing
          sweep     \* the directory a clean-up has found expired and is about to remove

draftVars   == <<draft, ofItem, selling>>
listingVars == <<draftVars, dir, photos, lx, sweep>>
allVars     == <<vars, listingVars>>

NoListing == [at |-> "idle", item |-> None, draft |-> None, status |-> "none", sources |-> {}]

Request(p, request) == lx[p].at = "idle" /\ Ask(p, request)
Proceed(p, at)      == lx' = [lx EXCEPT ![p].at = at]
EndListing(p)       == lx' = [lx EXCEPT ![p] = NoListing]
Elsewhere           == UNCHANGED <<itemVars, imageVars, files, placeVars, tx>>

\* ON DELETE CASCADE: drafts go with their item.
InventoryStep ==
  /\ \E p \in Clients :
       \/ lx[p].at = "idle" /\ Arrive(p)
       \/ Check(p) \/ LockItem(p) \/ Commit(p) \/ Answer(p) \/ Abandon(p)
  /\ draft' = [d \in Drafts |-> IF draft[d] \in HasDraft /\ ofItem[d] \notin items'
                                THEN "gone" ELSE draft[d]]
  /\ UNCHANGED <<ofItem, selling, dir, photos, lx, sweep>>

NewInventory == (ApproveUploadGroup \/ Archive) /\ UNCHANGED listingVars

-----------------------------------------------------------------------------
(* ListingDraftStore                                                       *)

ActiveDrafts(i) == {d \in Drafts : draft[d] \in Active /\ ofItem[d] = i}

\* GetOrCreate: an enabled provider and no active draft, each read on its own.
AskDraft(p) ==
  \E i \in items :
    /\ Request(p, "draft")
    /\ lx' = [lx EXCEPT ![p] = [NoListing EXCEPT !.at = "find", !.item = i]]
    /\ Elsewhere /\ UNCHANGED <<draftVars, dir, photos, sweep>>

FindDraft(p) ==
  /\ lx[p].at = "find"
  /\ IF lx[p].item \in items /\ selling /\ ActiveDrafts(lx[p].item) = {}
     THEN Proceed(p, "insert") ELSE EndListing(p)
  /\ Elsewhere /\ Bounds /\ UNCHANGED <<draftVars, dir, photos, sweep>>

\* No index makes a second active draft a conflict; an item that is gone does.
InsertDraft(p) ==
  LET i == lx[p].item IN
  /\ lx[p].at = "insert" /\ EndListing(p)
  /\ IF i \in items
     THEN \E d \in Drafts :
            /\ draft[d] = "none"
            /\ draft' = [draft EXCEPT ![d] = "draft"] /\ ofItem' = [ofItem EXCEPT ![d] = i]
     ELSE UNCHANGED <<draft, ofItem>>
  /\ Elsewhere /\ Bounds /\ UNCHANGED <<selling, dir, photos, sweep>>

\* Patch reads the whole row and writes it back; a field left out keeps what was read.
AskEditDraft(p) ==
  \E d \in Drafts, s \in HasDraft :
    /\ draft[d] \in HasDraft /\ Request(p, "editdraft")
    /\ lx' = [lx EXCEPT ![p] = [NoListing EXCEPT !.at = "write", !.draft = d, !.status = s]]
    /\ Elsewhere /\ UNCHANGED <<draftVars, dir, photos, sweep>>

WriteDraft(p) ==
  LET d == lx[p].draft IN
  /\ lx[p].at = "write" /\ EndListing(p)
  /\ draft' = [draft EXCEPT ![d] = IF @ \in HasDraft THEN lx[p].status ELSE @]
  /\ Elsewhere /\ Bounds /\ UNCHANGED <<ofItem, selling, dir, photos, sweep>>

\* Delete is one statement and leaves the export directory.
DeleteDraft(p) ==
  \E d \in Drafts :
    /\ draft[d] \in HasDraft /\ Request(p, "deldraft")
    /\ draft' = [draft EXCEPT ![d] = "gone"]
    /\ Elsewhere /\ UNCHANGED <<ofItem, selling, dir, photos, lx, sweep>>

\* SellProviderStore.SetEnabled
SetEnabled(p) ==
  /\ Request(p, "sell") /\ selling' = ~selling
  /\ Elsewhere /\ UNCHANGED <<draft, ofItem, dir, photos, lx, sweep>>

-----------------------------------------------------------------------------
(* PreparePhotoExport and the clean-up.                                    *)

\* A mistake to catch: the clean-up looks for the directories of drafts.
ExpiredOfDrafts == {d \in Drafts : dir[d] = "old" /\ draft[d] \in HasDraft}

\* Directories of the export root, whoever they belong to.
Expired == {d \in Drafts : dir[d] = "old"}

\* cleanupExpiredPhotoExports, by the worker every hour and by each request first: one
\* directory after the other is looked at and then removed.
LookForExpired(w) ==
  /\ sweep[w] = {} /\ (w \in Clients => lx[w].at = "clean")
  /\ \E d \in Expired : sweep' = [sweep EXCEPT ![w] = {d}]
  /\ Elsewhere /\ Bounds /\ UNCHANGED <<draftVars, dir, photos, lx>>

RemoveExpired(w) ==
  \E d \in sweep[w] :
    /\ sweep' = [sweep EXCEPT ![w] = @ \ {d}]
    /\ dir' = [dir EXCEPT ![d] = "none"] /\ photos' = [photos EXCEPT ![d] = {}]
    /\ Elsewhere /\ Bounds /\ UNCHANGED <<draftVars, lx>>

AskExport(p) ==
  \E d \in Drafts :
    /\ draft[d] \in HasDraft /\ Request(p, "export")
    /\ lx' = [lx EXCEPT ![p] = [NoListing EXCEPT !.at = "clean", !.draft = d,
                                                 !.item = ofItem[d]]]
    /\ Elsewhere /\ UNCHANGED <<draftVars, dir, photos, sweep>>

\* RemoveAll and MkdirAll; a clean-up that failed has only been logged.
MakeDir(p) ==
  /\ lx[p].at = "clean" /\ sweep[p] = {} /\ Proceed(p, "load")
  /\ dir' = [dir EXCEPT ![lx[p].draft] = "fresh"]
  /\ photos' = [photos EXCEPT ![lx[p].draft] = {}]
  /\ Elsewhere /\ Bounds /\ UNCHANGED <<draftVars, sweep>>

LoadSources(p) ==
  /\ lx[p].at = "load"
  /\ lx' = [lx EXCEPT ![p].at = "copy", ![p].sources = ImagesOf(lx[p].item)]
  /\ Elsewhere /\ Bounds /\ UNCHANGED <<draftVars, dir, photos, sweep>>

\* Files that are gone are skipped with a warning; a directory that is gone, all.
CopyPhotos(p) ==
  LET d == lx[p].draft IN
  /\ lx[p].at = "copy" /\ EndListing(p)
  /\ photos' = [photos EXCEPT ![d] = IF dir[d] = "none" THEN @
                                     ELSE @ \cup (lx[p].sources \cap files)]
  /\ dir' = [dir EXCEPT ![d] = IF @ = "none" THEN @ ELSE "fresh"]
  /\ Elsewhere /\ Bounds /\ UNCHANGED <<draftVars, sweep>>

\* The TTL is hours, a request is over in seconds.
Age ==
  \E d \in Drafts :
    /\ dir[d] = "fresh" /\ \A p \in Clients : lx[p].draft # d
    /\ dir' = [dir EXCEPT ![d] = "old"]
    /\ Elsewhere /\ Bounds /\ UNCHANGED <<draftVars, photos, lx, sweep>>

-----------------------------------------------------------------------------
ListingInit ==
  /\ Init /\ draft = [d \in Drafts |-> "none"] /\ ofItem = [d \in Drafts |-> None]
  /\ selling = TRUE /\ dir = [d \in Drafts |-> "none"] /\ photos = [d \in Drafts |-> {}]
  /\ lx = [p \in Clients |-> NoListing]
  /\ sweep = [w \in Clients \cup {Cleaner} |-> {}]

DraftStep(p)  == AskDraft(p) \/ FindDraft(p) \/ InsertDraft(p) \/ AskEditDraft(p)
                   \/ WriteDraft(p) \/ DeleteDraft(p) \/ SetEnabled(p)
ExportStep(p) == AskExport(p) \/ LookForExpired(p) \/ RemoveExpired(p) \/ MakeDir(p)
                   \/ LoadSources(p) \/ CopyPhotos(p)
CleanerStep   == LookForExpired(Cleaner) \/ RemoveExpired(Cleaner)

ListingNext == \/ InventoryStep \/ NewInventory \/ Age \/ CleanerStep
               \/ \E p \in Clients : DraftStep(p) \/ ExportStep(p)

\* The worker's ticker fires for as long as the process lives; while the maintenance
\* gate is shut it skips a tick.
ListingSpec == ListingInit /\ [][ListingNext]_allVars /\ WF_allVars(CleanerStep)

-----------------------------------------------------------------------------
\* Every expired export directory goes, also when its draft or item was deleted.
ExportsExpire == \A d \in Drafts : dir[d] = "old" ~> dir[d] # "old"
=============================================================================
