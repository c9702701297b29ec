------------------------------ MODULE Inventory ------------------------------
(***************************************************************************)
(* Inventory items with their dispositions, images and files               *)
(* (handlers/items.go, item_images.go), the containers they are in         *)
(* (containers.go), and what containers and items refer to: locations,     *)
(* container types and inventory groups, all called places here            *)
(* (locations.go, container_types.go, inventory_groups.go).                *)
(*                                                                         *)
(* A request checks, locks its item, commits and then touches files, and   *)
(* other requests come between these steps.  The deletion of a container   *)
(* and of a place lock nothing while they look.                            *)
(***************************************************************************)
EXTENDS Naturals, Sequences, FiniteSets

CONSTANTS Clients,       \* requests in progress at the same time
          Items, Images, Containers, Places,
          KindOf,        \* location, type or group
          DefaultGroup,
          Dispositions, Current,  \* of these, isCurrentInventoryDisposition
          Stored,        \* the disposition of a new item
          MaxImages,     \* MaxImagesPerItem
          None, Keep,    \* null, and a field the request leaves out
          Scenarios      \* what clients ask for, how often, and whether alone

Requests == {"move", "dispose", "regroup", "append", "delimg", "delitem",
             "delcont", "assign", "delplace", "archive",
             "draft", "editdraft", "deldraft", "export", "sell"}  \* module Listings
Kinds    == {"location", "type", "group"}

ASSUME InventoryAssumption ==
  /\ Current \subseteq Dispositions /\ Stored \in Current /\ MaxImages \in Nat \ {0}
  /\ KindOf \in [Places -> Kinds] /\ DefaultGroup \in Places
  /\ KindOf[DefaultGroup] = "group"
  /\ None \notin Items \cup Images \cup Containers \cup Places \cup Dispositions
  /\ Keep \notin Containers \cup Places \cup Dispositions \cup {None}
  /\ Scenarios \subseteq [requests : SUBSET Requests, asks : Nat,
                          alone : {"none", "deletions", "all"}, readback : BOOLEAN]

VARIABLES items,    \* rows of items
          disp, current, inside, group,   \* their disposition, current_inventory,
                                          \* container and inventory group
          history,  \* item_disposition_history, in order
          rows,     \* rows of image_assets
          owner,    \* their item_id
          origin,   \* the container of their upload group
          files,    \* the images whose files exist
          shelf,    \* containers: none, active, archived or gone
          refs,     \* the location and the type of a container
          place,    \* places: active, archived or gone
          tx,       \* what each request is doing
          asked, scenario

itemVars  == <<items, disp, current, inside, group, history>>
imageVars == <<rows, owner, origin>>
placeVars == <<shelf, refs, place>>
vars      == <<itemVars, imageVars, files, placeVars, tx, asked, scenario>>

ImagesOf(i) == {g \in rows : owner[g] = i}
Groups      == {l \in Places : KindOf[l] = "group"}
Users(l)    == IF l \in Groups THEN {i \in items : group[i] = l}
               ELSE {c \in Containers : l \in refs[c]}
There(c)    == shelf[c] \in {"active", "archived"}

Idle == [op |-> "idle", at |-> "idle", item |-> None, to |-> Keep, disp |-> Keep,
         group |-> Keep, image |-> None, place |-> None, prev |-> None,
         ids |-> {}, doomed |-> {}]

\* What a request for items, or one for containers and places, remembers.
ItemRequest(op, i, g) ==
  [op |-> op, at |-> "checked", item |-> i, to |-> Keep, disp |-> Keep, group |-> Keep,
   image |-> g, place |-> None, prev |-> None, ids |-> {}, doomed |-> {}]
PlaceRequest(op, c, l) ==
  [op |-> op, at |-> "begin", item |-> None, to |-> c, disp |-> Keep, group |-> Keep,
   image |-> None, place |-> l, prev |-> None, ids |-> {}, doomed |-> {}]
PatchRequest(i, c, d, g) ==
  [op |-> "patch", at |-> "begin", item |-> i, to |-> c, disp |-> d, group |-> g,
   image |-> None, place |-> None, prev |-> None, ids |-> {}, doomed |-> {}]

\* A request arrives.
Ask(p, request) ==
  /\ tx[p].op = "idle" /\ request \in scenario.requests /\ asked < scenario.asks
  /\ scenario.alone = "all" => \A q \in Clients : tx[q].op = "idle"
  /\ scenario.alone = "deletions" /\ request = "delcont" =>
       \A q \in Clients : tx[q].op # "delcont"
  /\ asked' = asked + 1 /\ UNCHANGED scenario

Start(p, request) == tx' = [tx EXCEPT ![p] = request]
Move(p, at)       == tx' = [tx EXCEPT ![p].at = at]
At(p, op, at)     == tx[p].op = op /\ tx[p].at = at
Ended(p)          == tx' = [tx EXCEPT ![p] = Idle]
Bounds            == UNCHANGED <<asked, scenario>>

\* FOR UPDATE of the item, held to the end of the transaction.
HoldsItem(q, i) == tx[q].at = "locked" /\ tx[q].item = i

\* A mistake to catch: the item is read without FOR UPDATE.
FreeAlways(p, i) == TRUE

Free(p, i) == \A q \in Clients \ {p} : ~HoldsItem(q, i)

\* The rows of an approval: the new item, and all the images of its upload group.
Approve(i, uploaded, c, l) ==
  /\ i \notin items /\ disp[i] = None
  /\ uploaded # {} /\ IsFiniteSet(uploaded) /\ uploaded \cap (rows \cup files) = {}
  /\ \A p \in Clients : tx[p].image \notin uploaded /\ uploaded \cap tx[p].doomed = {}
  /\ items' = items \cup {i} /\ disp' = [disp EXCEPT ![i] = Stored]
  /\ current' = [current EXCEPT ![i] = TRUE] /\ inside' = [inside EXCEPT ![i] = c]
  /\ group' = [group EXCEPT ![i] = l]
  /\ rows' = rows \cup uploaded /\ files' = files \cup uploaded
  /\ owner' = [g \in Images |-> IF g \in uploaded THEN i ELSE owner[g]]
  /\ origin' = [g \in Images |-> IF g \in uploaded THEN c ELSE origin[g]]
  /\ UNCHANGED <<history, placeVars, tx>> /\ Bounds

\* An approval of the review workflow.  Neither the upload of a group nor its approval limits
\* the images; the inventory group is that of the request, of the upload group or the default.
ApproveUploadGroup ==
  \E i \in Items, uploaded \in SUBSET Images, c \in {k \in Containers : There(k)} \cup {None},
     l \in {m \in Groups : place[m] = "active"} : Approve(i, uploaded, c, l)

-----------------------------------------------------------------------------
(* ItemStore.Patch                                                         *)

AskPatch(p) ==
  \E i \in items, request \in {"move", "dispose", "regroup"} :
    \E to \in Containers \cup {None, Keep}, d \in Dispositions \cup {Keep},
       g \in Groups \cup {Keep} :
      /\ Ask(p, request)
      /\ (to # Keep) = ("move" = request)
      /\ d # Keep => "dispose" \in scenario.requests
      /\ request = "dispose" => d # Keep
      /\ (g # Keep) = ("regroup" = request)
      /\ Start(p, PatchRequest(i, to, d, g))
      /\ UNCHANGED <<itemVars, imageVars, files, placeVars>>

\* The checks before the transaction; the container the item is in may be archived.
CheckPatch(p) ==
  LET t == tx[p] IN
  /\ At(p, "patch", "begin")
  /\ IF /\ t.to \in Containers =>
              t.item \in items /\ (inside[t.item] = t.to \/ shelf[t.to] = "active")
        /\ t.group # Keep => place[t.group] = "active"
     THEN Move(p, "checked") ELSE Ended(p)
  /\ UNCHANGED <<itemVars, imageVars, files, placeVars>> /\ Bounds

\* A mistake to catch: a request that sets no disposition makes the item current.
NextDispositionForgets(p) == IF tx[p].disp # Keep THEN tx[p].disp ELSE Stored

NextDisposition(p) == IF tx[p].disp # Keep THEN tx[p].disp ELSE tx[p].prev

\* UPDATE, history row and COMMIT; a container or group that is gone breaks a foreign key.
CommitPatch(p) ==
  LET t    == tx[p]
      next == NextDisposition(p)
      to   == IF next \notin Current THEN None ELSE t.to
  IN /\ At(p, "patch", "locked") /\ Ended(p)
     /\ \/ /\ to \in Containers => There(to)
           /\ t.group # Keep => place[t.group] # "gone"
           /\ disp' = [disp EXCEPT ![t.item] = IF t.disp # Keep THEN t.disp ELSE @]
           /\ current' = [current EXCEPT ![t.item] = next \in Current]
           /\ inside' = [inside EXCEPT ![t.item] = IF to = Keep THEN @ ELSE to]
           /\ group' = [group EXCEPT ![t.item] = IF t.group = Keep THEN @ ELSE t.group]
           /\ history' = IF t.disp # Keep /\ t.prev # next
                         THEN [history EXCEPT ![t.item] =
                                 Append(@, [from |-> t.prev, to |-> next])]
                         ELSE history
           /\ UNCHANGED items
        \/ /\ \/ to \in Containers /\ ~There(to)
              \/ t.group # Keep /\ place[t.group] = "gone"
           /\ UNCHANGED itemVars
     /\ UNCHANGED <<imageVars, files, placeVars>> /\ Bounds

-----------------------------------------------------------------------------
(* Images of an item, and its deletion.                                    *)

\* saveItemImageUpload: the file comes first.
AskAppend(p) ==
  \E i \in items, g \in Images :
    /\ g \notin rows \cup files /\ \A q \in Clients : tx[q].image # g /\ g \notin tx[q].doomed
    /\ Ask(p, "append") /\ files' = files \cup {g}
    /\ Start(p, ItemRequest("append", i, g))
    /\ UNCHANGED <<itemVars, imageVars, placeVars>>

AskDeleteItem(p) ==
  \E i \in items :
    /\ Ask(p, "delitem")
    /\ Start(p, ItemRequest("delitem", i, None))
    /\ UNCHANGED <<itemVars, imageVars, files, placeVars>>

AskDeleteImage(p) ==
  \E i \in items : \E g \in ImagesOf(i) :
    /\ Ask(p, "delimg")
    /\ Start(p, ItemRequest("delimg", i, g))
    /\ UNCHANGED <<itemVars, imageVars, files, placeVars>>

HasRoom(i) == Cardinality(ImagesOf(i)) + 1 <= MaxImages

\* The images that go with the request.
Doomed(t) == CASE t.op = "delimg"  -> {t.image}
               [] t.op = "delitem" -> ImagesOf(t.item)
               [] OTHER            -> {}

\* The item is locked and read.  Without it, without room for the upload or without
\* the image the request ends, and UploadImages removes the file it wrote.
LockItem(p) ==
  LET t == tx[p] IN
  /\ t.at = "checked" /\ t.op \in {"patch", "append", "delimg", "delitem"}
  /\ Free(p, t.item)
  /\ IF /\ t.item \in items
        /\ t.op = "append" => HasRoom(t.item)
        /\ t.op = "delimg" => t.image \in ImagesOf(t.item)
     THEN /\ tx' = [tx EXCEPT ![p] = [@ EXCEPT !.at = "locked", !.prev = disp[t.item],
                                                !.doomed = Doomed(t)]]
          /\ UNCHANGED files
     ELSE Ended(p) /\ files' = IF t.op = "append" THEN files \ {t.image} ELSE files
  /\ UNCHANGED <<itemVars, imageVars, placeVars>> /\ Bounds

\* AppendImages
CommitAppend(p) ==
  /\ At(p, "append", "locked") /\ Move(p, "done")
  /\ rows' = rows \cup {tx[p].image}
  /\ owner' = [owner EXCEPT ![tx[p].image] = tx[p].item]
  /\ UNCHANGED <<itemVars, origin, files, placeVars>> /\ Bounds

\* A variant cannot be made or a statement fails: rollback, and the file goes.
FailAppend(p) ==
  /\ At(p, "append", "locked") /\ Ended(p) /\ files' = files \ {tx[p].image}
  /\ UNCHANGED <<itemVars, imageVars, placeVars>> /\ Bounds

\* DeleteImage
CommitDeleteImage(p) ==
  /\ At(p, "delimg", "locked") /\ Move(p, "done")
  /\ rows' = rows \ tx[p].doomed
  /\ owner' = [owner EXCEPT ![tx[p].image] = None]
  /\ origin' = [origin EXCEPT ![tx[p].image] = None]
  /\ UNCHANGED <<itemVars, files, placeVars>> /\ Bounds

\* Rows of items and images go, perhaps with a container; what refers to them is set to
\* null, or goes too.
Drop(ids, images, c) ==
  /\ items' = items \ ids
  /\ current' = [i \in Items |-> IF i \in ids THEN FALSE ELSE current[i]]
  /\ history' = [i \in Items |-> IF i \in ids THEN << >> ELSE history[i]]
  /\ rows' = rows \ images
  /\ owner' = [g \in Images |-> IF g \in images \/ owner[g] \in ids THEN None ELSE owner[g]]
  /\ origin' = [g \in Images |-> IF g \in images \/ origin[g] = c THEN None ELSE origin[g]]
  /\ UNCHANGED disp

\* ItemStore.Delete
CommitDeleteItem(p) ==
  LET i == tx[p].item IN
  /\ At(p, "delitem", "locked") /\ Move(p, "done")
  /\ Drop({i}, ImagesOf(i), None)
  /\ inside' = [inside EXCEPT ![i] = None] /\ group' = [group EXCEPT ![i] = None]
  /\ UNCHANGED <<files, placeVars>> /\ Bounds

\* What follows a commit: a read of the item that may fail, and the removal of files.
ReadsBack(p) == {tx[p].item \in items} \cup (IF scenario.readback THEN {FALSE} ELSE {})

Done(p, ops, remove) ==
  /\ tx[p].op \in ops /\ tx[p].at = "done" /\ Ended(p) /\ files' = files \ remove
  /\ UNCHANGED <<itemVars, imageVars, placeVars>> /\ Bounds

\* UploadImages takes a commit it cannot read back for a failure.
AnswerUpload(p) ==
  \E read \in ReadsBack(p) : Done(p, {"append"}, IF read THEN {} ELSE {tx[p].image})

\* DeleteImage returns before it removes the files.
AnswerDeleteImage(p) ==
  \E read \in ReadsBack(p) : Done(p, {"delimg"}, IF read THEN tx[p].doomed ELSE {})

DeleteFiles(p) == Done(p, {"delitem", "delcont"}, tx[p].doomed)

Answer(p) == AnswerUpload(p) \/ AnswerDeleteImage(p) \/ DeleteFiles(p)

-----------------------------------------------------------------------------
(* ContainerStore.Delete: the paths and the rows come from two statements, *)
(* each with its own snapshot, and neither locks what it selects.          *)

InContainer(c) == {i \in items : inside[i] = c}
ImagesIn(c)    == {g \in rows : owner[g] \in InContainer(c) \/ origin[g] = c}

AskDeleteContainer(p) ==
  \E c \in Containers :
    /\ There(c) /\ Ask(p, "delcont")
    /\ Start(p, PlaceRequest("delcont", c, None))
    /\ UNCHANGED <<itemVars, imageVars, files, placeVars>>

ReadPaths(p) ==
  LET t == tx[p] IN
  /\ At(p, "delcont", "begin")
  /\ IF There(t.to)
     THEN tx' = [tx EXCEPT ![p] = [@ EXCEPT !.at = "paths", !.doomed = ImagesIn(t.to)]]
     ELSE Ended(p)
  /\ UNCHANGED <<itemVars, imageVars, files, placeVars>> /\ Bounds

\* A mistake to catch: the second copy of the query leaves out the upload groups.
RowsOfItems(c) == {g \in rows : owner[g] \in InContainer(c)}

RowsOf(c) == ImagesIn(c)

\* The snapshot of the deleting statement: the items and image rows it will delete.
SelectRows(p) ==
  /\ At(p, "delcont", "paths")
  /\ LET c == tx[p].to IN
     tx' = [tx EXCEPT ![p] = [@ EXCEPT !.at = "rows", !.ids = InContainer(c) \cup RowsOf(c)]]
  /\ UNCHANGED <<itemVars, imageVars, files, placeVars>> /\ Bounds

\* It waits for locked items and deletes what it selected, wherever that is by now.
DeleteContainerRows(p) ==
  LET c   == tx[p].to
      ids == tx[p].ids \cap Items
  IN /\ At(p, "delcont", "rows")
     /\ \A i \in ids \cup {owner[g] : g \in tx[p].ids \cap Images} : Free(p, i)
     /\ Drop(ids, tx[p].ids \cap Images, c)
     /\ inside' = [i \in Items |-> IF i \in ids \/ inside[i] = c THEN None ELSE inside[i]]
     /\ group' = [i \in Items |-> IF i \in ids THEN None ELSE group[i]]
     /\ shelf' = [shelf EXCEPT ![c] = "gone"] /\ refs' = [refs EXCEPT ![c] = {}]
     /\ Move(p, "done") /\ UNCHANGED <<files, place>> /\ Bounds

-----------------------------------------------------------------------------
(* Containers and places.                                                  *)

\* ContainerStore.Create and Update, with one of the references or with none.
Assigns(p, c) ==
  \E l \in (Places \ Groups) \cup {None} :
    /\ Ask(p, "assign")
    /\ Start(p, PlaceRequest("assign", c, l))
    /\ UNCHANGED <<itemVars, imageVars, files, placeVars>>

AskCreate(p) ==
  \E c \in Containers :
    shelf[c] = "none" /\ (\A q \in Clients : tx[q].to # c) /\ Assigns(p, c)
AskUpdate(p) == \E c \in Containers : There(c) /\ Assigns(p, c)

\* validateLocation, validateContainerType
CheckAssign(p) ==
  /\ At(p, "assign", "begin")
  /\ IF tx[p].place # None => place[tx[p].place] = "active" THEN Move(p, "checked") ELSE Ended(p)
  /\ UNCHANGED <<itemVars, imageVars, files, placeVars>> /\ Bounds

\* A foreign key is broken when the location or type is gone by now.
Holds(l) == l # None => place[l] # "gone"

Referring(c, l) == [refs EXCEPT ![c] = IF l = None THEN @
                      ELSE {m \in @ : KindOf[m] # KindOf[l]} \cup {l}]

CommitCreate(p) ==
  LET c == tx[p].to IN
  /\ At(p, "assign", "checked") /\ shelf[c] = "none" /\ Ended(p)
  /\ IF Holds(tx[p].place)
     THEN shelf' = [shelf EXCEPT ![c] = "active"] /\ refs' = Referring(c, tx[p].place)
     ELSE UNCHANGED <<shelf, refs>>
  /\ UNCHANGED <<itemVars, imageVars, files, place>> /\ Bounds

CommitUpdate(p) ==
  LET c == tx[p].to IN
  /\ At(p, "assign", "checked") /\ shelf[c] # "none" /\ Ended(p)
  /\ refs' = IF There(c) /\ Holds(tx[p].place) THEN Referring(c, tx[p].place) ELSE refs
  /\ UNCHANGED <<itemVars, imageVars, files, shelf, place>> /\ Bounds

AskDeletePlace(p) ==
  \E l \in Places :
    /\ place[l] # "gone" /\ Ask(p, "delplace")
    /\ Start(p, PlaceRequest("delplace", Keep, l))
    /\ UNCHANGED <<itemVars, imageVars, files, placeVars>>

\* The statement that counts the users, then the one that deletes.  The count for a group has
\* the upload groups too, which are not kept here: it may refuse for one of them.
CheckUnused(p, kind) ==
  /\ At(p, "delplace", "begin") /\ KindOf[tx[p].place] = kind
  /\ \/ Users(tx[p].place) = {} /\ tx[p].place # DefaultGroup /\ Move(p, "checked")
     \/ (Users(tx[p].place) # {} \/ kind = "group") /\ Ended(p)
  /\ UNCHANGED <<itemVars, imageVars, files, placeVars>> /\ Bounds

CheckLocation(p)       == CheckUnused(p, "location")
CheckContainerType(p)  == CheckUnused(p, "type")
CheckInventoryGroup(p) == CheckUnused(p, "group")

\* ON DELETE SET NULL
DeletePlace(p, kind) ==
  LET l == tx[p].place IN
  /\ At(p, "delplace", "checked") /\ KindOf[l] = kind /\ Ended(p)
  /\ place' = [place EXCEPT ![l] = "gone"]
  /\ refs' = [c \in Containers |-> refs[c] \ {l}]
  /\ group' = [i \in Items |-> IF group[i] = l THEN None ELSE group[i]]
  /\ UNCHANGED <<items, disp, current, inside, history, imageVars, files, shelf>> /\ Bounds

DeleteLocation(p)       == DeletePlace(p, "location")
DeleteContainerType(p)  == DeletePlace(p, "type")
DeleteInventoryGroup(p) == DeletePlace(p, "group")

\* Archiving and unarchiving are one UPDATE each.
Toggled(s) == IF s = "active" THEN "archived" ELSE "active"

ArchiveContainer ==
  \E c \in Containers : There(c) /\ shelf' = [shelf EXCEPT ![c] = Toggled(@)] /\ UNCHANGED place

ArchivePlace(kind) ==
  \E l \in Places : /\ KindOf[l] = kind /\ place[l] # "gone" /\ l # DefaultGroup
                    /\ place' = [place EXCEPT ![l] = Toggled(@)] /\ UNCHANGED shelf

ArchiveLocation       == ArchivePlace("location")
ArchiveContainerType  == ArchivePlace("type")
ArchiveInventoryGroup == ArchivePlace("group")

Archive ==
  /\ "archive" \in scenario.requests /\ asked < scenario.asks /\ asked' = asked + 1
  /\ \/ ArchiveContainer \/ ArchiveLocation \/ ArchiveContainerType \/ ArchiveInventoryGroup
  /\ UNCHANGED <<itemVars, imageVars, files, refs, tx, scenario>>

-----------------------------------------------------------------------------
\* An empty inventory, with containers unless the scenario creates them.
Init ==
  /\ items = {} /\ disp = [i \in Items |-> None] /\ current = [i \in Items |-> FALSE]
  /\ inside = [i \in Items |-> None] /\ group = [i \in Items |-> None]
  /\ history = [i \in Items |-> << >>]
  /\ rows = {} /\ owner = [g \in Images |-> None] /\ origin = [g \in Images |-> None]
  /\ files = {} /\ refs = [c \in Containers |-> {}] /\ place = [l \in Places |-> "active"]
  /\ tx = [p \in Clients |-> Idle] /\ asked = 0 /\ scenario \in Scenarios
  /\ shelf = [c \in Containers |->
                IF "assign" \in scenario.requests THEN "none" ELSE "active"]

Arrive(p) == AskPatch(p) \/ AskAppend(p) \/ AskDeleteItem(p) \/ AskDeleteImage(p)
               \/ AskDeleteContainer(p) \/ AskCreate(p) \/ AskUpdate(p) \/ AskDeletePlace(p)
Check(p)  == CheckPatch(p) \/ ReadPaths(p) \/ SelectRows(p) \/ CheckAssign(p)
               \/ CheckLocation(p) \/ CheckContainerType(p) \/ CheckInventoryGroup(p)
Commit(p) == CommitPatch(p) \/ CommitAppend(p) \/ FailAppend(p) \/ CommitDeleteImage(p)
               \/ CommitDeleteItem(p) \/ DeleteContainerRows(p) \/ CommitCreate(p)
               \/ CommitUpdate(p) \/ DeleteLocation(p) \/ DeleteContainerType(p)
               \/ DeleteInventoryGroup(p)

\* A client disconnects before the commit, or its request times out.
Abandon(p) ==
  /\ tx[p].op # "idle" /\ tx[p].at # "done" /\ Ended(p)
  /\ files' = IF tx[p].op = "append" THEN files \ {tx[p].image} ELSE files
  /\ UNCHANGED <<itemVars, imageVars, placeVars>> /\ Bounds

Next ==
  \/ ApproveUploadGroup \/ Archive
  \/ \E p \in Clients : Arrive(p) \/ Check(p) \/ LockItem(p) \/ Commit(p) \/ Answer(p)
                          \/ Abandon(p)

Spec == Init /\ [][Next]_vars

-----------------------------------------------------------------------------
(* Properties.                                                             *)

Changes == [from : Dispositions, to : Dispositions]

Transactions ==
  [op : {"idle", "patch", "append", "delimg", "delitem", "delcont", "assign", "delplace"},
   at : {"idle", "begin", "checked", "locked", "paths", "rows", "done"},
   item : Items \cup {None}, to : Containers \cup {None, Keep},
   disp : Dispositions \cup {Keep}, group : Groups \cup {Keep},
   image : Images \cup {None}, place : Places \cup {None},
   prev : Dispositions \cup {None},
   ids : SUBSET (Items \cup Images), doomed : SUBSET Images]

TypeOK ==
  /\ items \subseteq Items /\ disp \in [Items -> Dispositions \cup {None}]
  /\ current \in [Items -> BOOLEAN] /\ inside \in [Items -> Containers \cup {None}]
  /\ group \in [Items -> Groups \cup {None}]
  /\ history \in [Items -> Seq(Changes)]
  /\ rows \subseteq Images /\ owner \in [Images -> Items \cup {None}]
  /\ origin \in [Images -> Containers \cup {None}] /\ files \subseteq Images
  /\ shelf \in [Containers -> {"none", "active", "archived", "gone"}]
  /\ refs \in [Containers -> SUBSET Places]
  /\ place \in [Places -> {"active", "archived", "gone"}]
  /\ tx \in [Clients -> Transactions]
  /\ asked \in Nat /\ scenario \in Scenarios

\* h leads from the first disposition of an item to d without a gap.
LeadsTo(h, d) ==
  /\ d = IF h = << >> THEN Stored ELSE h[Len(h)].to
  /\ \A k \in 1 .. Len(h) : h[k].from = IF k = 1 THEN Stored ELSE h[k - 1].to

\* So does the history of an item, whatever requests change it at the same time.
HistoryIsAChain == \A i \in items : LeadsTo(history[i], disp[i])

\* An item that has left the inventory (sold, donated, disposed) is in no container,
\* also when another request moves it at that moment.
GoneItemsAreNowhere ==
  \A i \in items : /\ current[i] = (disp[i] \in Current)
                   /\ ~current[i] => inside[i] = None

ItemsAreSound == TypeOK /\ HistoryIsAChain /\ GoneItemsAreNowhere

\* Whatever uploads overlap, no image added to an item takes it over the limit, nor further
\* over it when its approval brought more than that.
AdditionsWithinLimit ==
  [][\A i \in items : \/ ImagesOf(i)' \subseteq ImagesOf(i)
                      \/ Cardinality(ImagesOf(i)') <= MaxImages]_vars

\* No request removes the file of an image that an item has.  Three known departures are left
\* out: a failing read after a commit, an item that leaves a container under deletion, and two
\* deletions of one container at the same time.
ItemsKeepFiles ==
  /\ ~scenario.readback
  /\ \/ "delcont" \notin scenario.requests \/ scenario.alone = "all"
     \/ scenario.alone = "deletions" /\ scenario.requests \cap {"move", "dispose"} = {}
  => \A i \in items : ImagesOf(i) \subseteq files

\* A location or type that a container refers to, or a group that has items, is not deleted.
UsedPlaceStays ==
  [][\A l \in Places : place[l] # "gone" /\ place'[l] = "gone" => Users(l) = {}]_vars
=============================================================================
