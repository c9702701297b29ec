--------------------------- MODULE InventoryProofs ---------------------------
(***************************************************************************)
(* For any items, containers, places, clients and requests: dispositions,  *)
(* histories and containers of items agree, whatever requests interleave,  *)
(* no image added to an item takes it over MaxImagesPerItem, and no        *)
(* request removes the file of an image that an item has.  Locations and   *)
(* types that a container refers to stay as long as requests come one      *)
(* after the other.                                                        *)
(***************************************************************************)
EXTENDS Listings, FiniteSetTheorems, TLAPS

(* An item is locked by one request, which knows its disposition.          *)
LocksExclude ==
  \A p, q \in Clients :
    tx[p].at = "locked" /\ tx[q].at = "locked" /\ tx[p].item = tx[q].item => p = q

LockedIsCurrent ==
  \A p \in Clients : tx[p].at = "locked" =>
    tx[p].item \in items /\ tx[p].prev = disp[tx[p].item]

(* Requests that name an image or a container have one.                    *)
Addressed(t) == /\ t.op = "append" => t.image \in Images
                /\ t.op \in {"delcont", "assign"} => t.to \in Containers
                /\ t.op = "delplace" => t.place \in Places

(* An item that is not there, not yet or no more, has no history.          *)
NothingBefore == \A i \in Items \ items : history[i] = << >>

ItemInv == /\ ItemsAreSound /\ NothingBefore /\ LocksExclude /\ LockedIsCurrent
           /\ \A p \in Clients : Addressed(tx[p])

(* One more change keeps a history a chain.                                *)
LEMMA ChainGrows ==
  ASSUME NEW h \in Seq(Changes), NEW d \in Dispositions, NEW e \in Dispositions, LeadsTo(h, d)
  PROVE  /\ Append(h, [from |-> d, to |-> e]) \in Seq(Changes)
         /\ LeadsTo(Append(h, [from |-> d, to |-> e]), e)
<1> DEFINE r == [from |-> d, to |-> e]
           n == Append(h, r)
<1>1. r \in Changes /\ n \in Seq(Changes)
  BY DEF Changes
<1>2. Len(n) = Len(h) + 1 /\ Len(h) \in Nat /\ n # << >>
  BY <1>1
<1>3. n[Len(n)] = r
  BY <1>1, <1>2
<1>4. \A k \in 1 .. Len(h) : n[k] = h[k]
  BY <1>1
<1>5. ASSUME NEW k \in 1 .. Len(n) PROVE n[k].from = IF k = 1 THEN Stored ELSE n[k - 1].to
  <2>1. CASE k = Len(n)
    <3>1. CASE h = << >>
      BY <2>1, <3>1, <1>2, <1>3 DEF LeadsTo
    <3>2. CASE h # << >>
      <4>1. Len(h) > 0 /\ k # 1 /\ k - 1 = Len(h)
        BY <3>2, <2>1, <1>2
      <4>2. n[k - 1] = h[Len(h)] /\ d = h[Len(h)].to
        BY <4>1, <1>4, <3>2 DEF LeadsTo
      <4> QED BY <4>1, <4>2, <2>1, <1>3
    <3> QED BY <3>1, <3>2
  <2>2. CASE k # Len(n)
    <3>1. k \in 1 .. Len(h) /\ (k # 1 => k - 1 \in 1 .. Len(h))
      BY <2>2, <1>2
    <3>2. h[k].from = IF k = 1 THEN Stored ELSE h[k - 1].to
      BY <3>1 DEF LeadsTo
    <3> QED BY <3>1, <3>2, <1>4
  <2> QED BY <2>1, <2>2
<1> QED BY <1>1, <1>2, <1>3, <1>5 DEF LeadsTo

LEMMA InitItems == Init => ItemInv
<1> SUFFICES ASSUME Init PROVE ItemInv
  OBVIOUS
<1> USE InventoryAssumption DEF Init
<1>1. \A p \in Clients : tx[p] = Idle
  OBVIOUS
<1>2. Idle \in Transactions
  BY DEF Idle, Transactions
<1>3. TypeOK
  <2>1. << >> \in Seq(Changes)
    OBVIOUS
  <2> QED BY <1>2, <2>1 DEF TypeOK
<1>4. HistoryIsAChain /\ GoneItemsAreNowhere /\ NothingBefore
  BY DEF HistoryIsAChain, GoneItemsAreNowhere, NothingBefore
<1>5. LocksExclude /\ LockedIsCurrent /\ \A p \in Clients : Addressed(tx[p])
  BY <1>1 DEF LocksExclude, LockedIsCurrent, Addressed, Idle
<1> QED BY <1>3, <1>4, <1>5 DEF ItemInv, ItemsAreSound

-----------------------------------------------------------------------------
(* A request goes on without the lock of an item, and no row changes.      *)
LEMMA StepWithoutLock ==
  ASSUME ItemInv, NEW p \in Clients, NEW t \in Transactions,
         tx' = [tx EXCEPT ![p] = t], t.at # "locked", Addressed(t),
         UNCHANGED <<itemVars, imageVars, placeVars>>,
         files' \subseteq Images, asked' \in Nat, scenario' \in Scenarios
  PROVE  ItemInv'
<1> USE DEF itemVars, imageVars, placeVars
<1>1. TypeOK'
  BY DEF ItemInv, ItemsAreSound, TypeOK
<1>2. HistoryIsAChain' /\ GoneItemsAreNowhere' /\ NothingBefore'
  BY DEF ItemInv, ItemsAreSound, HistoryIsAChain, GoneItemsAreNowhere, LeadsTo, NothingBefore
<1>3. tx \in [Clients -> Transactions]
  BY DEF ItemInv, ItemsAreSound, TypeOK
<1>4. \A q \in Clients : tx'[q] = IF q = p THEN t ELSE tx[q]
  BY <1>3
<1>5. LocksExclude' /\ LockedIsCurrent'
  BY <1>4 DEF ItemInv, LocksExclude, LockedIsCurrent
<1>6. \A q \in Clients : Addressed(tx'[q])
  BY <1>4 DEF ItemInv
<1> QED BY <1>1, <1>2, <1>5, <1>6 DEF ItemInv, ItemsAreSound, Addressed

LEMMA IdleIsTransaction ==
  Idle \in Transactions /\ Idle.at # "locked" /\ Addressed(Idle)
BY DEF Idle, Transactions, Addressed

(* What a request remembers, at first and later.                           *)
Waits(t) == t \in Transactions /\ t.at # "locked" /\ Addressed(t)

LEMMA ItemRequestWaits ==
  ASSUME NEW i \in Items, NEW g \in Images \cup {None},
         NEW op \in {"append", "delimg", "delitem"}, op = "append" => g \in Images
  PROVE  Waits(ItemRequest(op, i, g))
BY DEF Waits, ItemRequest, Transactions, Addressed

LEMMA PlaceRequestWaits ==
  ASSUME NEW c \in Containers \cup {Keep}, NEW l \in Places \cup {None},
         NEW op \in {"delcont", "assign", "delplace"},
         op # "delplace" => c \in Containers, op = "delplace" => l \in Places
  PROVE  Waits(PlaceRequest(op, c, l))
BY DEF Waits, PlaceRequest, Transactions, Addressed

LEMMA PatchRequestWaits ==
  ASSUME NEW i \in Items, NEW c \in Containers \cup {None, Keep},
         NEW d \in Dispositions \cup {Keep}, NEW g \in Groups \cup {Keep}
  PROVE  Waits(PatchRequest(i, c, d, g))
BY DEF Waits, PatchRequest, Transactions, Addressed

LEMMA LaterWaits ==
  ASSUME NEW t \in Transactions, Addressed(t), NEW at \in {"checked", "paths", "rows", "done"},
         NEW ids \in SUBSET (Items \cup Images), NEW doomed \in SUBSET Images
  PROVE  /\ Waits([t EXCEPT !.at = at])
         /\ Waits([t EXCEPT !.at = at, !.doomed = doomed])
         /\ Waits([t EXCEPT !.at = at, !.ids = ids])
<1>1. \A r \in Transactions : [r EXCEPT !.at = at] \in Transactions
  BY DEF Transactions
<1>2. \A r \in Transactions : [r EXCEPT !.doomed = doomed] \in Transactions
  BY DEF Transactions
<1>3. \A r \in Transactions : [r EXCEPT !.ids = ids] \in Transactions
  BY DEF Transactions
<1>4. [t EXCEPT !.at = at].at # "locked" /\ Addressed([t EXCEPT !.at = at])
  BY DEF Transactions, Addressed
<1>5. /\ [t EXCEPT !.at = at, !.doomed = doomed].at # "locked"
      /\ Addressed([t EXCEPT !.at = at, !.doomed = doomed])
  BY DEF Transactions, Addressed
<1>6. /\ [t EXCEPT !.at = at, !.ids = ids].at # "locked"
      /\ Addressed([t EXCEPT !.at = at, !.ids = ids])
  BY DEF Transactions, Addressed
<1> QED BY <1>1, <1>2, <1>3, <1>4, <1>5, <1>6 DEF Waits

(* Requests that arrive.                                                   *)
LEMMA ArriveChanges ==
  ASSUME ItemInv, NEW p \in Clients, Arrive(p)
  PROVE  /\ UNCHANGED <<itemVars, imageVars, placeVars>>
         /\ files' \subseteq Images /\ asked' \in Nat /\ scenario' \in Scenarios
         /\ \E t : tx' = [tx EXCEPT ![p] = t] /\ Waits(t)
<1>0. /\ asked \in Nat /\ scenario \in Scenarios /\ files \subseteq Images
      /\ items \subseteq Items /\ rows \subseteq Images
  BY DEF ItemInv, ItemsAreSound, TypeOK
<1>1. /\ UNCHANGED <<itemVars, imageVars, placeVars>>
      /\ files' \subseteq Images /\ asked' \in Nat /\ scenario' \in Scenarios
  <2>1. CASE AskPatch(p)
    BY <1>0, <2>1 DEF AskPatch, Ask
  <2>2. CASE AskAppend(p)
    BY <1>0, <2>2 DEF AskAppend, Ask
  <2>3. CASE AskDeleteItem(p) \/ AskDeleteImage(p)
    BY <1>0, <2>3 DEF AskDeleteItem, AskDeleteImage, Ask
  <2>4. CASE AskDeleteContainer(p) \/ AskDeletePlace(p)
    BY <1>0, <2>4 DEF AskDeleteContainer, AskDeletePlace, Ask
  <2>5. CASE AskCreate(p) \/ AskUpdate(p)
    BY <1>0, <2>5 DEF AskCreate, AskUpdate, Assigns, Ask
  <2> QED BY <2>1, <2>2, <2>3, <2>4, <2>5, Arrive(p) DEF Arrive
<1>2. \E t : tx' = [tx EXCEPT ![p] = t] /\ Waits(t)
  <2>1. CASE AskPatch(p)
    <3>1. PICK i \in Items, c \in Containers \cup {None, Keep}, d \in Dispositions \cup {Keep},
               g \in Groups \cup {Keep} : Start(p, PatchRequest(i, c, d, g))
      BY <1>0, <2>1 DEF AskPatch
    <3> QED BY <3>1, PatchRequestWaits DEF Start
  <2>2. CASE AskAppend(p)
    <3>1. PICK i \in Items, g \in Images : Start(p, ItemRequest("append", i, g))
      BY <1>0, <2>2 DEF AskAppend
    <3> QED BY <3>1, ItemRequestWaits DEF Start
  <2>3. CASE AskDeleteItem(p)
    <3>1. PICK i \in Items : Start(p, ItemRequest("delitem", i, None))
      BY <1>0, <2>3 DEF AskDeleteItem
    <3> QED BY <3>1, ItemRequestWaits DEF Start
  <2>4. CASE AskDeleteImage(p)
    <3>1. PICK i \in Items, g \in Images : Start(p, ItemRequest("delimg", i, g))
      BY <1>0, <2>4 DEF AskDeleteImage, ImagesOf
    <3> QED BY <3>1, ItemRequestWaits DEF Start
  <2>5. CASE AskDeleteContainer(p)
    <3>1. PICK c \in Containers : Start(p, PlaceRequest("delcont", c, None))
      BY <2>5 DEF AskDeleteContainer
    <3> QED BY <3>1, PlaceRequestWaits DEF Start
  <2>6. CASE AskDeletePlace(p)
    <3>1. PICK l \in Places : Start(p, PlaceRequest("delplace", Keep, l))
      BY <2>6 DEF AskDeletePlace
    <3> QED BY <3>1, PlaceRequestWaits DEF Start
  <2>7. CASE AskCreate(p) \/ AskUpdate(p)
    <3>1. PICK c \in Containers, l \in Places \cup {None} :
            Start(p, PlaceRequest("assign", c, l))
      BY <2>7 DEF AskCreate, AskUpdate, Assigns
    <3> QED BY <3>1, PlaceRequestWaits DEF Start
  <2> QED BY <2>1, <2>2, <2>3, <2>4, <2>5, <2>6, <2>7, Arrive(p) DEF Arrive
<1> QED BY <1>1, <1>2

LEMMA ArriveStep ==
  ASSUME ItemInv, NEW p \in Clients, Arrive(p) PROVE ItemInv'
BY ArriveChanges, StepWithoutLock DEF Waits

(* Requests that only look.                                                *)
LEMMA CheckChanges ==
  ASSUME ItemInv, NEW p \in Clients, Check(p)
  PROVE  /\ UNCHANGED <<itemVars, imageVars, placeVars>>
         /\ files' \subseteq Images /\ asked' \in Nat /\ scenario' \in Scenarios
         /\ \E t : tx' = [tx EXCEPT ![p] = t] /\ Waits(t)
<1>0. tx[p] \in Transactions /\ Addressed(tx[p]) /\ tx \in [Clients -> Transactions]
      /\ items \subseteq Items /\ rows \subseteq Images
  BY DEF ItemInv, ItemsAreSound, TypeOK
<1>1. /\ UNCHANGED <<itemVars, imageVars, placeVars>>
      /\ files' \subseteq Images /\ asked' \in Nat /\ scenario' \in Scenarios
  BY DEF Check, CheckPatch, ReadPaths, SelectRows, CheckAssign, CheckLocation,
         CheckContainerType, CheckInventoryGroup, CheckUnused, Bounds,
         ItemInv, ItemsAreSound, TypeOK
<1>2. \E t : tx' = [tx EXCEPT ![p] = t] /\ Waits(t)
  <2>1. CASE Ended(p)
    BY <2>1, IdleIsTransaction DEF Ended, Waits
  <2>2. CASE Move(p, "checked")
    <3>1. tx' = [tx EXCEPT ![p] = [tx[p] EXCEPT !.at = "checked"]]
      BY <2>2 DEF Move
    <3> QED BY <3>1, <1>0, LaterWaits
  <2>3. CASE ReadPaths(p) /\ ~Ended(p)
    <3>1. tx' = [tx EXCEPT ![p] = [tx[p] EXCEPT !.at = "paths",
                                                !.doomed = ImagesIn(tx[p].to)]]
      BY <2>3 DEF ReadPaths
    <3>2. ImagesIn(tx[p].to) \in SUBSET Images
      BY <1>0 DEF ImagesIn
    <3> QED BY <3>1, <3>2, <1>0, LaterWaits
  <2>4. CASE SelectRows(p)
    <3> DEFINE S == InContainer(tx[p].to) \cup RowsOf(tx[p].to)
    <3>1. tx' = [tx EXCEPT ![p] = [tx[p] EXCEPT !.at = "rows", !.ids = S]]
      BY <2>4 DEF SelectRows
    <3>2. S \in SUBSET (Items \cup Images)
      BY <1>0 DEF InContainer, RowsOf, ImagesIn
    <3> HIDE DEF S
    <3> QED BY <3>1, <3>2, <1>0, LaterWaits
  <2> QED BY <2>1, <2>2, <2>3, <2>4, Check(p) DEF Check, CheckPatch, CheckAssign, CheckLocation,
             CheckContainerType, CheckInventoryGroup, CheckUnused
<1> QED BY <1>1, <1>2

LEMMA CheckStep ==
  ASSUME ItemInv, NEW p \in Clients, Check(p) PROVE ItemInv'
BY CheckChanges, StepWithoutLock DEF Waits

(* Requests that end.                                                      *)
LEMMA EndStep ==
  ASSUME ItemInv, NEW p \in Clients, Answer(p) \/ Abandon(p) PROVE ItemInv'
<1>1. /\ UNCHANGED <<itemVars, imageVars, placeVars>>
      /\ files' \subseteq Images /\ asked' \in Nat /\ scenario' \in Scenarios
      /\ tx' = [tx EXCEPT ![p] = Idle]
  BY DEF Answer, AnswerUpload, AnswerDeleteImage, DeleteFiles, Done, Abandon, Ended, Bounds,
         ItemInv, ItemsAreSound, TypeOK
<1> QED BY <1>1, IdleIsTransaction, StepWithoutLock

-----------------------------------------------------------------------------
(* A request gets the lock of its item.                                    *)
Granted(t, d, doomed) == [t EXCEPT !.at = "locked", !.prev = d, !.doomed = doomed]

LEMMA NowLocked ==
  ASSUME NEW t \in Transactions, Addressed(t), NEW d \in Dispositions \cup {None},
         NEW doomed \in SUBSET Images
  PROVE  /\ Granted(t, d, doomed) \in Transactions /\ Addressed(Granted(t, d, doomed))
         /\ Granted(t, d, doomed).at = "locked" /\ Granted(t, d, doomed).item = t.item
         /\ Granted(t, d, doomed).prev = d
<1>1. \A r \in Transactions : [r EXCEPT !.doomed = doomed] \in Transactions
  BY DEF Transactions
<1>2. \A r \in Transactions : [r EXCEPT !.prev = d] \in Transactions
  BY DEF Transactions
<1>3. \A r \in Transactions : [r EXCEPT !.at = "locked"] \in Transactions
  BY DEF Transactions
<1>4. Granted(t, d, doomed) \in Transactions
  BY <1>1, <1>2, <1>3 DEF Granted
<1>5. Granted(t, d, doomed).at = "locked" /\ Granted(t, d, doomed).item = t.item
        /\ Granted(t, d, doomed).prev = d
  BY DEF Granted, Transactions
<1>6. Addressed(Granted(t, d, doomed))
  BY DEF Granted, Transactions, Addressed
<1> QED BY <1>4, <1>5, <1>6

LEMMA LockStep ==
  ASSUME ItemInv, NEW p \in Clients, LockItem(p) PROVE ItemInv'
<1>0. /\ tx[p] \in Transactions /\ Addressed(tx[p]) /\ tx \in [Clients -> Transactions]
      /\ items \subseteq Items /\ rows \subseteq Images /\ files \subseteq Images
      /\ disp \in [Items -> Dispositions \cup {None}]
  BY DEF ItemInv, ItemsAreSound, TypeOK
<1>1. /\ UNCHANGED <<itemVars, imageVars, placeVars>>
      /\ files' \subseteq Images /\ asked' \in Nat /\ scenario' \in Scenarios
  BY DEF LockItem, Bounds, ItemInv, ItemsAreSound, TypeOK
<1>2. CASE Ended(p)
  BY <1>1, <1>2, IdleIsTransaction, StepWithoutLock DEF Ended
<1>3. CASE ~Ended(p)
  <2> DEFINE t == tx[p]
             u == Granted(t, disp[t.item], Doomed(t))
  <2>1. t.item \in items /\ Free(p, t.item) /\ tx' = [tx EXCEPT ![p] = u]
        /\ t.op \in {"patch", "append", "delimg", "delitem"}
        /\ (t.op = "delimg" => t.image \in ImagesOf(t.item))
    BY <1>3 DEF LockItem, Granted
  <2>2. Doomed(t) \in SUBSET Images /\ disp[t.item] \in Dispositions \cup {None}
    BY <2>1, <1>0 DEF Doomed, ImagesOf
  <2>3. /\ u \in Transactions /\ Addressed(u)
        /\ u.at = "locked" /\ u.item = t.item /\ u.prev = disp[t.item]
    BY <2>2, <1>0, NowLocked
  <2> HIDE DEF u
  <2>4. \A q \in Clients : tx'[q] = IF q = p THEN u ELSE tx[q]
    BY <2>1, <1>0
  <2>5. TypeOK'
    BY <1>1, <2>1, <2>3, <1>0 DEF ItemInv, ItemsAreSound, TypeOK, itemVars, imageVars, placeVars
  <2>6. HistoryIsAChain' /\ GoneItemsAreNowhere' /\ NothingBefore'
    BY <1>1 DEF ItemInv, ItemsAreSound, HistoryIsAChain, GoneItemsAreNowhere, LeadsTo,
                NothingBefore, itemVars
  <2>7. LocksExclude' /\ LockedIsCurrent'
    BY <1>1, <2>1, <2>3, <2>4
    DEF ItemInv, LocksExclude, LockedIsCurrent, Free, HoldsItem, itemVars
  <2>8. \A q \in Clients : Addressed(tx'[q])
    BY <2>3, <2>4 DEF ItemInv
  <2> QED BY <2>5, <2>6, <2>7, <2>8 DEF ItemInv, ItemsAreSound, Addressed
<1> QED BY <1>2, <1>3

(* A request goes on without a lock, and the items that others lock are as *)
(* they were.                                                              *)
LEMMA OtherLocks ==
  ASSUME ItemInv, NEW p \in Clients, NEW t, Waits(t), tx' = [tx EXCEPT ![p] = t],
         \A q \in Clients \ {p} : tx[q].at = "locked" =>
           tx[q].item \in items' /\ disp'[tx[q].item] = disp[tx[q].item]
  PROVE  /\ tx' \in [Clients -> Transactions] /\ LocksExclude' /\ LockedIsCurrent'
         /\ \A q \in Clients : Addressed(tx[q])'
<1>1. tx \in [Clients -> Transactions]
  BY DEF ItemInv, ItemsAreSound, TypeOK
<1>2. \A q \in Clients : tx'[q] = IF q = p THEN t ELSE tx[q]
  BY <1>1
<1>3. tx' \in [Clients -> Transactions]
  BY <1>1 DEF Waits
<1>4. LocksExclude' /\ LockedIsCurrent'
  BY <1>2 DEF ItemInv, LocksExclude, LockedIsCurrent, Waits
<1>5. \A q \in Clients : Addressed(tx'[q])
  BY <1>2 DEF ItemInv, Waits
<1> QED BY <1>3, <1>4, <1>5 DEF Addressed

LEMMA DispositionIsKnown ==
  ASSUME TypeOK, HistoryIsAChain, NEW i \in items PROVE disp[i] \in Dispositions
<1>1. history[i] \in Seq(Changes) /\ LeadsTo(history[i], disp[i])
  BY DEF TypeOK, HistoryIsAChain
<1>2. CASE history[i] = << >>
  BY <1>1, <1>2, InventoryAssumption DEF LeadsTo
<1>3. CASE history[i] # << >>
  <2>1. history[i][Len(history[i])] \in Changes
    BY <1>1, <1>3
  <2> QED BY <2>1, <1>1, <1>3 DEF LeadsTo, Changes
<1> QED BY <1>2, <1>3

LEMMA CommitPatchStep ==
  ASSUME ItemInv, NEW p \in Clients, CommitPatch(p) PROVE ItemInv'
<1> DEFINE t    == tx[p]
           i    == t.item
           next == NextDisposition(p)
           to   == IF next \notin Current THEN None ELSE t.to
<1>0. /\ t \in Transactions /\ TypeOK /\ HistoryIsAChain /\ GoneItemsAreNowhere
      /\ LocksExclude /\ LockedIsCurrent /\ tx' = [tx EXCEPT ![p] = Idle]
      /\ t.at = "locked" /\ i \in items /\ t.prev = disp[i]
  BY DEF ItemInv, ItemsAreSound, TypeOK, CommitPatch, At, LockedIsCurrent, Ended
<1>1. CASE UNCHANGED itemVars
  BY <1>1, <1>0, IdleIsTransaction, StepWithoutLock
  DEF CommitPatch, Bounds, ItemInv, ItemsAreSound, TypeOK
<1>2. CASE ~UNCHANGED itemVars
  <2>1. /\ disp' = [disp EXCEPT ![i] = IF t.disp # Keep THEN t.disp ELSE @]
        /\ current' = [current EXCEPT ![i] = next \in Current]
        /\ inside' = [inside EXCEPT ![i] = IF to = Keep THEN @ ELSE to]
        /\ group' = [group EXCEPT ![i] = IF t.group = Keep THEN @ ELSE t.group]
        /\ history' = IF t.disp # Keep /\ t.prev # next
                      THEN [history EXCEPT ![i] = Append(@, [from |-> t.prev, to |-> next])]
                      ELSE history
        /\ items' = items /\ UNCHANGED <<imageVars, files, placeVars, asked, scenario>>
    BY <1>2 DEF CommitPatch, Bounds
  <2>2. i \in Items /\ disp[i] \in Dispositions /\ history[i] \in Seq(Changes)
    BY <1>0, DispositionIsKnown DEF TypeOK
  <2>3. next \in Dispositions /\ disp'[i] = next /\ (t.disp = Keep => next = disp[i])
        /\ (t.disp # Keep => t.disp = next)
    BY <2>1, <2>2, <1>0, InventoryAssumption DEF NextDisposition, TypeOK, Transactions
  <2>4. to \in Containers \cup {None, Keep} /\ t.group \in Groups \cup {Keep}
    BY <1>0 DEF Transactions
  <2>5. \A j \in Items \ {i} : disp'[j] = disp[j] /\ current'[j] = current[j]
          /\ inside'[j] = inside[j] /\ history'[j] = history[j]
    BY <2>1, <2>2, <1>0 DEF TypeOK
  <2>6. current'[i] = (next \in Current) /\ (next \notin Current => inside'[i] = None)
    BY <2>1, <2>2, <1>0, InventoryAssumption DEF TypeOK
  <2> HIDE DEF next, to
  <2>7. history' \in [Items -> Seq(Changes)] /\ LeadsTo(history'[i], disp'[i])
    <3>1. LeadsTo(history[i], disp[i])
      BY <1>0 DEF HistoryIsAChain
    <3>2. CASE t.disp # Keep /\ t.prev # next
      <4> DEFINE h == Append(history[i], [from |-> disp[i], to |-> next])
      <4>1. h \in Seq(Changes) /\ LeadsTo(h, next)
        BY <2>2, <2>3, <3>1, ChainGrows
      <4>2. history' = [history EXCEPT ![i] = h]
        BY <2>1, <3>2, <1>0
      <4> HIDE DEF h
      <4> QED BY <4>1, <4>2, <2>2, <2>3, <1>0 DEF TypeOK
    <3>3. CASE ~(t.disp # Keep /\ t.prev # next)
      BY <2>1, <2>3, <3>1, <3>3, <1>0 DEF TypeOK
    <3> QED BY <3>2, <3>3
  <2>8. /\ tx' \in [Clients -> Transactions] /\ LocksExclude' /\ LockedIsCurrent'
        /\ \A q \in Clients : Addressed(tx[q])'
    <3>1. \A q \in Clients \ {p} : tx[q].at = "locked" =>
            tx[q].item \in items' /\ disp'[tx[q].item] = disp[tx[q].item]
      BY <1>0, <2>1, <2>5 DEF LocksExclude, LockedIsCurrent, TypeOK
    <3> QED BY <3>1, <1>0, IdleIsTransaction, OtherLocks DEF Waits
  <2>9. TypeOK'
    <3>1. disp' \in [Items -> Dispositions \cup {None}] /\ current' \in [Items -> BOOLEAN]
      BY <2>1, <2>2, <2>3, <1>0 DEF TypeOK
    <3>2. inside' \in [Items -> Containers \cup {None}] /\ group' \in [Items -> Groups \cup {None}]
      BY <2>1, <2>2, <2>4, <1>0 DEF TypeOK
    <3> QED BY <3>1, <3>2, <2>1, <2>7, <2>8, <1>0 DEF TypeOK, imageVars, placeVars
  <2>10. HistoryIsAChain'
    <3>1. ASSUME NEW j \in items PROVE LeadsTo(history'[j], disp'[j])
      BY <3>1, <2>5, <2>7, <1>0 DEF HistoryIsAChain, TypeOK
    <3> QED BY <3>1, <2>1 DEF HistoryIsAChain, LeadsTo
  <2>11. GoneItemsAreNowhere'
    BY <2>1, <2>3, <2>5, <2>6, <1>0 DEF GoneItemsAreNowhere, TypeOK
  <2>12. NothingBefore'
    BY <2>1, <2>2, <2>5, <1>0 DEF NothingBefore, ItemInv
  <2> QED BY <2>8, <2>9, <2>10, <2>11, <2>12 DEF ItemInv, ItemsAreSound, Addressed
<1> QED BY <1>1, <1>2

-----------------------------------------------------------------------------
(* What the state is apart from items and requests.                        *)
RestOK == /\ rows \subseteq Images /\ owner \in [Images -> Items \cup {None}]
          /\ origin \in [Images -> Containers \cup {None}] /\ files \subseteq Images
          /\ shelf \in [Containers -> {"none", "active", "archived", "gone"}]
          /\ refs \in [Containers -> SUBSET Places]
          /\ place \in [Places -> {"active", "archived", "gone"}]
          /\ asked \in Nat /\ scenario \in Scenarios

LEMMA ImagesAndPlacesChange ==
  ASSUME ItemInv, NEW p \in Clients, NEW t, Waits(t), tx' = [tx EXCEPT ![p] = t],
         UNCHANGED <<items, disp, current, inside, history>>,
         group' \in [Items -> Groups \cup {None}], RestOK'
  PROVE  ItemInv'
<1>1. \A q \in Clients \ {p} : tx[q].at = "locked" =>
        tx[q].item \in items' /\ disp'[tx[q].item] = disp[tx[q].item]
  BY DEF ItemInv, LockedIsCurrent
<1>2. /\ tx' \in [Clients -> Transactions] /\ LocksExclude' /\ LockedIsCurrent'
      /\ \A q \in Clients : Addressed(tx[q])'
  BY <1>1, OtherLocks
<1>3. TypeOK'
  BY <1>2 DEF ItemInv, ItemsAreSound, TypeOK, RestOK
<1>4. HistoryIsAChain' /\ GoneItemsAreNowhere' /\ NothingBefore'
  BY DEF ItemInv, ItemsAreSound, HistoryIsAChain, GoneItemsAreNowhere, LeadsTo, NothingBefore
<1> QED BY <1>2, <1>3, <1>4 DEF ItemInv, ItemsAreSound

LEMMA MovesOn ==
  ASSUME ItemInv, NEW p \in Clients, Move(p, "done") \/ Ended(p)
  PROVE  \E t : tx' = [tx EXCEPT ![p] = t] /\ Waits(t)
<1>1. CASE Ended(p)
  BY <1>1, IdleIsTransaction DEF Ended, Waits
<1>2. CASE Move(p, "done")
  <2>1. tx[p] \in Transactions /\ Addressed(tx[p])
    BY DEF ItemInv, ItemsAreSound, TypeOK
  <2>2. tx' = [tx EXCEPT ![p] = [tx[p] EXCEPT !.at = "done"]]
    BY <1>2 DEF Move
  <2> QED BY <2>1, <2>2, LaterWaits
<1> QED BY <1>1, <1>2

(* The images of an item come and go.                                      *)
LEMMA ImageStep ==
  ASSUME ItemInv, NEW p \in Clients,
         CommitAppend(p) \/ FailAppend(p) \/ CommitDeleteImage(p)
  PROVE  ItemInv'
<1>1. /\ tx[p] \in Transactions /\ Addressed(tx[p]) /\ TypeOK
      /\ tx[p].item \in Items \cup {None} /\ tx[p].doomed \subseteq Images
  BY DEF ItemInv, ItemsAreSound, TypeOK, Transactions
<1>2. PICK t : tx' = [tx EXCEPT ![p] = t] /\ Waits(t)
  BY MovesOn DEF CommitAppend, FailAppend, CommitDeleteImage
<1>3. itemVars' = itemVars
  BY DEF CommitAppend, FailAppend, CommitDeleteImage
<1>4. RestOK'
  <2>1. CASE CommitAppend(p)
    BY <2>1, <1>1 DEF CommitAppend, At, Addressed, TypeOK, RestOK, Bounds, placeVars
  <2>2. CASE FailAppend(p)
    BY <2>2, <1>1 DEF FailAppend, TypeOK, RestOK, Bounds, imageVars, placeVars
  <2>3. CASE CommitDeleteImage(p)
    BY <2>3, <1>1 DEF CommitDeleteImage, TypeOK, RestOK, Bounds, placeVars
  <2> QED BY <2>1, <2>2, <2>3
<1> QED BY <1>1, <1>2, <1>3, <1>4, ImagesAndPlacesChange DEF TypeOK, itemVars

(* Containers are created, changed and archived, and places deleted.       *)
LEMMA PlaceStep ==
  ASSUME ItemInv, NEW p \in Clients,
         CommitCreate(p) \/ CommitUpdate(p)
           \/ DeleteLocation(p) \/ DeleteContainerType(p) \/ DeleteInventoryGroup(p)
  PROVE  ItemInv'
<1>1. /\ tx[p] \in Transactions /\ Addressed(tx[p]) /\ TypeOK
      /\ tx[p].place \in Places \cup {None}
  BY DEF ItemInv, ItemsAreSound, TypeOK, Transactions
<1>2. PICK t : tx' = [tx EXCEPT ![p] = t] /\ Waits(t)
  BY MovesOn DEF CommitCreate, CommitUpdate, DeleteLocation, DeleteContainerType,
                 DeleteInventoryGroup, DeletePlace
<1>3. CASE CommitCreate(p) \/ CommitUpdate(p)
  <2>1. tx[p].to \in Containers
    BY <1>1, <1>3 DEF CommitCreate, CommitUpdate, At, Addressed
  <2>2. Referring(tx[p].to, tx[p].place) \in [Containers -> SUBSET Places]
    BY <1>1, <2>1 DEF Referring, TypeOK
  <2>3. RestOK' /\ itemVars' = itemVars
    <3>1. CASE CommitCreate(p)
      BY <1>1, <2>1, <2>2, <3>1 DEF CommitCreate, TypeOK, RestOK, Bounds, imageVars
    <3>2. CASE CommitUpdate(p)
      BY <1>1, <2>1, <2>2, <3>2 DEF CommitUpdate, TypeOK, RestOK, Bounds, imageVars
    <3> QED BY <1>3, <3>1, <3>2
  <2> QED BY <1>1, <1>2, <2>3, ImagesAndPlacesChange DEF TypeOK, itemVars
<1>4. CASE DeleteLocation(p) \/ DeleteContainerType(p) \/ DeleteInventoryGroup(p)
  <2>1. /\ group' \in [Items -> Groups \cup {None}] /\ RestOK'
        /\ UNCHANGED <<items, disp, current, inside, history>>
    <3>1. PICK k \in Kinds : DeletePlace(p, k)
      BY <1>4 DEF DeleteLocation, DeleteContainerType, DeleteInventoryGroup, Kinds
    <3>2. group' \in [Items -> Groups \cup {None}] /\ refs' \in [Containers -> SUBSET Places]
          /\ place' \in [Places -> {"active", "archived", "gone"}]
      BY <1>1, <3>1 DEF DeletePlace, TypeOK
    <3> QED BY <1>1, <3>1, <3>2 DEF DeletePlace, TypeOK, RestOK, Bounds, imageVars
  <2> QED BY <1>2, <2>1, ImagesAndPlacesChange
<1> QED BY <1>3, <1>4

(* Items go with their images: rows of items that no other request locks.  *)
LEMMA DropStep ==
  ASSUME ItemInv, NEW p \in Clients, NEW t, Waits(t), tx' = [tx EXCEPT ![p] = t],
         NEW ids \in SUBSET Items, NEW images \in SUBSET Images, NEW c,
         Drop(ids, images, c),
         \A q \in Clients \ {p}, i \in ids : ~HoldsItem(q, i),
         inside' \in [Items -> Containers \cup {None}], group' \in [Items -> Groups \cup {None}],
         \A i \in items \ ids : inside'[i] \in {inside[i], None},
         files' = files, shelf' \in [Containers -> {"none", "active", "archived", "gone"}],
         refs' \in [Containers -> SUBSET Places], place' = place, Bounds
  PROVE  ItemInv'
<1> USE DEF Drop
<1>1. TypeOK
  BY DEF ItemInv, ItemsAreSound
<1>2. \A q \in Clients \ {p} : tx[q].at = "locked" =>
        tx[q].item \in items' /\ disp'[tx[q].item] = disp[tx[q].item]
  BY <1>1 DEF ItemInv, LockedIsCurrent, HoldsItem, TypeOK
<1>3. /\ tx' \in [Clients -> Transactions] /\ LocksExclude' /\ LockedIsCurrent'
      /\ \A q \in Clients : Addressed(tx[q])'
  BY <1>2, OtherLocks
<1>4. \A i \in items' : i \in items /\ disp'[i] = disp[i] /\ current'[i] = current[i]
        /\ history'[i] = history[i] /\ inside'[i] \in {inside[i], None}
  BY <1>1 DEF TypeOK
<1>5. TypeOK'
  <2>1. items' \subseteq Items /\ disp' = disp /\ current' \in [Items -> BOOLEAN]
    BY <1>1 DEF TypeOK
  <2>2. history' \in [Items -> Seq(Changes)]
    BY <1>1 DEF TypeOK
  <2>3. /\ rows' \subseteq Images /\ owner' \in [Images -> Items \cup {None}]
        /\ origin' \in [Images -> Containers \cup {None}]
    BY <1>1 DEF TypeOK
  <2> QED BY <1>1, <1>3, <2>1, <2>2, <2>3 DEF TypeOK, Bounds
<1>6. HistoryIsAChain'
  <2>1. ASSUME NEW i \in items' PROVE LeadsTo(history'[i], disp'[i])
    BY <1>4 DEF ItemInv, ItemsAreSound, HistoryIsAChain
  <2> QED BY <2>1 DEF HistoryIsAChain, LeadsTo
<1>7. GoneItemsAreNowhere' /\ NothingBefore'
  BY <1>4 DEF ItemInv, ItemsAreSound, GoneItemsAreNowhere, NothingBefore
<1> QED BY <1>3, <1>5, <1>6, <1>7 DEF ItemInv, ItemsAreSound

LEMMA DeleteStep ==
  ASSUME ItemInv, NEW p \in Clients, CommitDeleteItem(p) \/ DeleteContainerRows(p)
  PROVE  ItemInv'
<1>1. /\ tx[p] \in Transactions /\ Addressed(tx[p]) /\ TypeOK
      /\ tx[p].ids \subseteq Items \cup Images
  BY DEF ItemInv, ItemsAreSound, TypeOK, Transactions
<1>2. PICK t : tx' = [tx EXCEPT ![p] = t] /\ Waits(t)
  BY MovesOn DEF CommitDeleteItem, DeleteContainerRows
<1>3. CASE CommitDeleteItem(p)
  <2> DEFINE i == tx[p].item
  <2>1. /\ tx[p].at = "locked" /\ i \in items /\ i \in Items /\ ImagesOf(i) \in SUBSET Images
    BY <1>1, <1>3 DEF CommitDeleteItem, At, ItemInv, LockedIsCurrent, ImagesOf, TypeOK
  <2>2. \A q \in Clients \ {p} : ~HoldsItem(q, i)
    BY <2>1 DEF HoldsItem, ItemInv, LocksExclude
  <2>3. /\ Drop({i}, ImagesOf(i), None) /\ Bounds /\ UNCHANGED <<files, placeVars>>
        /\ inside' = [inside EXCEPT ![i] = None] /\ group' = [group EXCEPT ![i] = None]
    BY <1>3 DEF CommitDeleteItem
  <2>4. /\ inside' \in [Items -> Containers \cup {None}]
        /\ group' \in [Items -> Groups \cup {None}]
        /\ \A j \in items \ {i} : inside'[j] \in {inside[j], None}
    BY <1>1, <2>1, <2>3 DEF TypeOK
  <2>5. \A q \in Clients \ {p}, j \in {i} : ~HoldsItem(q, j)
    BY <2>2
  <2>6. {i} \in SUBSET Items
    BY <2>1
  <2> HIDE DEF i
  <2> QED BY <1>1, <1>2, <2>1, <2>3, <2>4, <2>5, <2>6, DropStep DEF TypeOK, placeVars
<1>4. CASE DeleteContainerRows(p)
  <2> DEFINE c      == tx[p].to
             ids    == tx[p].ids \cap Items
             images == tx[p].ids \cap Images
  <2>1. /\ Drop(ids, images, c) /\ Bounds /\ UNCHANGED <<files, place>> /\ c \in Containers
        /\ \A i \in ids : Free(p, i)
        /\ inside' = [i \in Items |-> IF i \in ids \/ inside[i] = c THEN None ELSE inside[i]]
        /\ group' = [i \in Items |-> IF i \in ids THEN None ELSE group[i]]
        /\ shelf' = [shelf EXCEPT ![c] = "gone"] /\ refs' = [refs EXCEPT ![c] = {}]
    BY <1>1, <1>4 DEF DeleteContainerRows, At, Addressed
  <2>2. \A q \in Clients \ {p}, i \in ids : ~HoldsItem(q, i)
    BY <2>1 DEF Free
  <2>3. ids \in SUBSET Items /\ images \in SUBSET Images
    OBVIOUS
  <2> HIDE DEF ids, images, c
  <2>4. /\ inside' \in [Items -> Containers \cup {None}]
        /\ group' \in [Items -> Groups \cup {None}]
        /\ \A i \in items \ ids : inside'[i] \in {inside[i], None}
    BY <1>1, <2>1 DEF TypeOK
  <2>5. /\ shelf' \in [Containers -> {"none", "active", "archived", "gone"}]
        /\ refs' \in [Containers -> SUBSET Places]
    BY <1>1, <2>1 DEF TypeOK
  <2> QED BY <1>2, <2>1, <2>2, <2>3, <2>4, <2>5, DropStep
<1> QED BY <1>3, <1>4

(* A new item, and containers and places that are archived.                *)
LEMMA ApproveStep ==
  ASSUME ItemInv, ApproveUploadGroup PROVE ItemInv'
<1>1. TypeOK /\ LocksExclude /\ LockedIsCurrent /\ HistoryIsAChain /\ GoneItemsAreNowhere
      /\ \A p \in Clients : Addressed(tx[p])
  BY DEF ItemInv, ItemsAreSound
<1>2. PICK i \in Items, S \in SUBSET Images, c \in Containers \cup {None}, l \in Groups :
        Approve(i, S, c, l)
  BY DEF ApproveUploadGroup
<1>3. /\ i \notin items /\ items' = items \cup {i} /\ disp' = [disp EXCEPT ![i] = Stored]
      /\ current' = [current EXCEPT ![i] = TRUE] /\ inside' = [inside EXCEPT ![i] = c]
      /\ group' = [group EXCEPT ![i] = l]
      /\ rows' = rows \cup S /\ files' = files \cup S
      /\ owner' = [g \in Images |-> IF g \in S THEN i ELSE owner[g]]
      /\ origin' = [g \in Images |-> IF g \in S THEN c ELSE origin[g]]
      /\ UNCHANGED <<history, placeVars, tx, asked, scenario>>
  BY <1>2 DEF Approve, Bounds
<1>4. Stored \in Current /\ Stored \in Dispositions
  BY InventoryAssumption
<1>5. history[i] = << >>
  BY <1>3 DEF ItemInv, NothingBefore
<1>6. TypeOK'
  <2>1. disp' \in [Items -> Dispositions \cup {None}] /\ current' \in [Items -> BOOLEAN]
        /\ inside' \in [Items -> Containers \cup {None}]
        /\ group' \in [Items -> Groups \cup {None}]
    BY <1>1, <1>3, <1>4 DEF TypeOK
  <2>2. owner' \in [Images -> Items \cup {None}] /\ origin' \in [Images -> Containers \cup {None}]
    BY <1>1, <1>3 DEF TypeOK
  <2> QED BY <1>1, <1>3, <2>1, <2>2 DEF TypeOK, placeVars
<1>7. \A j \in items : j # i /\ disp'[j] = disp[j] /\ current'[j] = current[j]
        /\ inside'[j] = inside[j]
  BY <1>1, <1>3 DEF TypeOK
<1>8. disp'[i] = Stored /\ current'[i] = TRUE
  BY <1>1, <1>3 DEF TypeOK
<1>9. LeadsTo(<< >>, Stored)
  BY DEF LeadsTo
<1>10. HistoryIsAChain'
  <2>1. ASSUME NEW j \in items' PROVE LeadsTo(history'[j], disp'[j])
    <3>1. CASE j = i
      BY <3>1, <1>3, <1>5, <1>8, <1>9
    <3>2. CASE j \in items
      BY <3>2, <1>1, <1>3, <1>7 DEF HistoryIsAChain
    <3> QED BY <3>1, <3>2, <1>3
  <2> QED BY <2>1 DEF HistoryIsAChain, LeadsTo
<1>11. GoneItemsAreNowhere' /\ NothingBefore'
  BY <1>1, <1>3, <1>4, <1>7, <1>8 DEF GoneItemsAreNowhere, NothingBefore, ItemInv
<1>12. LocksExclude' /\ LockedIsCurrent' /\ \A p \in Clients : Addressed(tx[p])'
  BY <1>1, <1>3, <1>7 DEF LocksExclude, LockedIsCurrent, Addressed
<1> QED BY <1>6, <1>10, <1>11, <1>12 DEF ItemInv, ItemsAreSound

LEMMA ArchiveStep ==
  ASSUME ItemInv, Archive PROVE ItemInv'
<1>1. shelf' \in [Containers -> {"none", "active", "archived", "gone"}]
      /\ place' \in [Places -> {"active", "archived", "gone"}]
      /\ UNCHANGED <<itemVars, imageVars, files, refs, tx, scenario>> /\ asked' \in Nat
  <2>1. TypeOK /\ asked' \in Nat /\ UNCHANGED <<itemVars, imageVars, files, refs, tx, scenario>>
    BY DEF Archive, ItemInv, ItemsAreSound, TypeOK
  <2>2. CASE ArchiveContainer
    BY <2>1, <2>2 DEF ArchiveContainer, Toggled, TypeOK
  <2>3. ASSUME NEW k \in Kinds, ArchivePlace(k)
        PROVE  /\ shelf' \in [Containers -> {"none", "active", "archived", "gone"}]
               /\ place' \in [Places -> {"active", "archived", "gone"}]
    BY <2>1, <2>3 DEF ArchivePlace, Toggled, TypeOK
  <2> QED BY <2>1, <2>2, <2>3 DEF Archive, ArchiveLocation, ArchiveContainerType,
             ArchiveInventoryGroup, Kinds
<1>2. TypeOK'
  BY <1>1 DEF ItemInv, ItemsAreSound, TypeOK, itemVars, imageVars
<1>3. HistoryIsAChain' /\ GoneItemsAreNowhere' /\ NothingBefore'
  BY <1>1 DEF ItemInv, ItemsAreSound, HistoryIsAChain, GoneItemsAreNowhere, LeadsTo,
              NothingBefore, itemVars
<1>4. LocksExclude' /\ LockedIsCurrent' /\ \A p \in Clients : Addressed(tx[p])'
  BY <1>1 DEF ItemInv, LocksExclude, LockedIsCurrent, Addressed, itemVars
<1> QED BY <1>2, <1>3, <1>4 DEF ItemInv, ItemsAreSound

-----------------------------------------------------------------------------
(* The rest of the program leaves items and requests alone.                *)
LEMMA ItemsLeftAlone ==
  ASSUME ItemInv, UNCHANGED <<itemVars, imageVars, files, placeVars, tx>>,
         asked' \in Nat, scenario' \in Scenarios
  PROVE  ItemInv'
<1>1. TypeOK'
  BY DEF ItemInv, ItemsAreSound, TypeOK, itemVars, imageVars, placeVars
<1>2. HistoryIsAChain' /\ GoneItemsAreNowhere' /\ NothingBefore'
  BY DEF ItemInv, ItemsAreSound, HistoryIsAChain, GoneItemsAreNowhere, LeadsTo,
         NothingBefore, itemVars
<1>3. LocksExclude' /\ LockedIsCurrent' /\ \A p \in Clients : Addressed(tx[p])'
  BY DEF ItemInv, LocksExclude, LockedIsCurrent, Addressed, itemVars
<1> QED BY <1>1, <1>2, <1>3 DEF ItemInv, ItemsAreSound

LEMMA NextStep == ItemInv /\ Next => ItemInv'
<1> SUFFICES ASSUME ItemInv, Next PROVE ItemInv'
  OBVIOUS
<1>1. CASE ApproveUploadGroup \/ Archive
  BY <1>1, ApproveStep, ArchiveStep
<1>2. ASSUME NEW p \in Clients, Commit(p) PROVE ItemInv'
  BY <1>2, CommitPatchStep, ImageStep, PlaceStep, DeleteStep DEF Commit
<1>3. ASSUME NEW p \in Clients, Arrive(p) \/ Check(p) \/ LockItem(p) \/ Answer(p) \/ Abandon(p)
      PROVE ItemInv'
  BY <1>3, ArriveStep, CheckStep, LockStep, EndStep
<1> QED BY <1>1, <1>2, <1>3 DEF Next

(* ItemsAreSound holds of every inventory: the history of an item leads    *)
(* from the stored disposition to its present one without a gap, and an    *)
(* item that has left the inventory is in no container.                    *)
THEOREM ItemsSound == Spec => []ItemsAreSound
<1>1. ItemInv /\ [Next]_vars => ItemInv'
  <2>1. ASSUME ItemInv, UNCHANGED vars PROVE ItemInv'
    BY <2>1, ItemsLeftAlone DEF vars, ItemInv, ItemsAreSound, TypeOK
  <2> QED BY <2>1, NextStep
<1>2. ItemInv => ItemsAreSound
  BY DEF ItemInv
<1> QED BY <1>1, <1>2, InitItems, PTL DEF Spec

-----------------------------------------------------------------------------
(* Steps on drafts and exports leave the inventory alone.                  *)
LEMMA ListingStep ==
  ListingNext => Next \/ /\ UNCHANGED <<itemVars, imageVars, files, placeVars, tx, scenario>>
                         /\ asked' \in {asked, asked + 1}
<1>1. InventoryStep \/ NewInventory => Next
  BY DEF InventoryStep, NewInventory, Next
<1>2. Age \/ CleanerStep => Elsewhere /\ Bounds
  BY DEF Age, CleanerStep, LookForExpired, RemoveExpired
<1>3. ASSUME NEW p \in Clients, DraftStep(p)
      PROVE  Elsewhere /\ UNCHANGED scenario /\ asked' \in {asked, asked + 1}
  <2>1. CASE AskDraft(p) \/ AskEditDraft(p)
    BY <2>1 DEF AskDraft, AskEditDraft, Request, Ask
  <2>2. CASE FindDraft(p) \/ InsertDraft(p) \/ WriteDraft(p)
    BY <2>2 DEF FindDraft, InsertDraft, WriteDraft, Bounds
  <2>3. CASE DeleteDraft(p) \/ SetEnabled(p)
    BY <2>3 DEF DeleteDraft, SetEnabled, Request, Ask
  <2> QED BY <1>3, <2>1, <2>2, <2>3 DEF DraftStep
<1>4. ASSUME NEW p \in Clients, ExportStep(p)
      PROVE  Elsewhere /\ UNCHANGED scenario /\ asked' \in {asked, asked + 1}
  <2>1. CASE AskExport(p)
    BY <2>1 DEF AskExport, Request, Ask
  <2>2. CASE LookForExpired(p) \/ RemoveExpired(p)
    BY <2>2 DEF LookForExpired, RemoveExpired, Bounds
  <2>3. CASE MakeDir(p) \/ LoadSources(p) \/ CopyPhotos(p)
    BY <2>3 DEF MakeDir, LoadSources, CopyPhotos, Bounds
  <2> QED BY <1>4, <2>1, <2>2, <2>3 DEF ExportStep
<1> QED BY <1>1, <1>2, <1>3, <1>4 DEF ListingNext, Elsewhere, Bounds

(* So ItemsAreSound holds next to sales preparation, which the runs check. *)
THEOREM ListedItemsSound == ListingSpec => []ItemsAreSound
<1>1. ListingInit => ItemInv
  BY InitItems DEF ListingInit
<1>2. ItemInv /\ [ListingNext]_allVars => ItemInv'
  <2>1. ItemInv => asked \in Nat /\ scenario \in Scenarios
    BY DEF ItemInv, ItemsAreSound, TypeOK
  <2>2. ASSUME ItemInv, UNCHANGED allVars PROVE ItemInv'
    BY <2>1, <2>2, ItemsLeftAlone DEF allVars, vars
  <2>3. ASSUME ItemInv, ListingNext PROVE ItemInv'
    <3>1. CASE Next
      BY <2>3, <3>1, NextStep
    <3>2. CASE ~Next
      <4>1. asked' \in Nat /\ scenario' \in Scenarios
              /\ UNCHANGED <<itemVars, imageVars, files, placeVars, tx>>
        BY <2>1, <2>3, <3>2, ListingStep
      <4> QED BY <2>3, <4>1, ItemsLeftAlone
    <3> QED BY <3>1, <3>2
  <2> QED BY <2>2, <2>3
<1>3. ItemInv => ItemsAreSound
  BY DEF ItemInv
<1> QED BY <1>1, <1>2, <1>3, PTL DEF ListingSpec

-----------------------------------------------------------------------------
(* Every image row has an item that is there, or none.                     *)
OwnersExist == \A g \in rows : owner[g] \in items \cup {None}

(* An upload that has its item locked still finds the room it has seen.    *)
RoomKept == \A p \in Clients : At(p, "append", "locked") => HasRoom(tx[p].item)

LimitInv == ItemInv /\ IsFiniteSet(rows) /\ OwnersExist /\ RoomKept

LEMMA FewerImages ==
  ASSUME IsFiniteSet(rows), NEW i, NEW S \in SUBSET ImagesOf(i)
  PROVE  /\ IsFiniteSet(S) /\ IsFiniteSet(ImagesOf(i))
         /\ Cardinality(S) \in Nat /\ Cardinality(ImagesOf(i)) \in Nat
         /\ Cardinality(S) <= Cardinality(ImagesOf(i))
<1>1. IsFiniteSet(ImagesOf(i))
  BY FS_Subset DEF ImagesOf
<1> QED BY <1>1, FS_Subset, FS_CardinalityType

(* No item gets an image, and no upload gets room without looking for it.  *)
LEMMA NoNewImages ==
  ASSUME LimitInv, ItemInv', IsFiniteSet(rows'), OwnersExist',
         \A i \in items' : i \in items /\ ImagesOf(i)' \subseteq ImagesOf(i),
         \A p \in Clients : At(p, "append", "locked")' =>
           tx'[p].item \in items' /\ HasRoom(tx'[p].item)
  PROVE  LimitInv'
<1>1. ASSUME NEW i \in items'
      PROVE  /\ Cardinality(ImagesOf(i)') <= Cardinality(ImagesOf(i))
             /\ Cardinality(ImagesOf(i)') \in Nat /\ Cardinality(ImagesOf(i)) \in Nat
  <2>1. IsFiniteSet(rows) /\ ImagesOf(i)' \in SUBSET ImagesOf(i)
    BY DEF LimitInv
  <2> QED BY <2>1, FewerImages
<1>2. RoomKept'
  <2>1. ASSUME NEW p \in Clients, At(p, "append", "locked")', NEW i, i = tx'[p].item
        PROVE  Cardinality(ImagesOf(i)') + 1 <= MaxImages
    <3>1. i \in items' /\ Cardinality(ImagesOf(i)) + 1 <= MaxImages
      BY <2>1 DEF HasRoom
    <3> QED BY <3>1, <1>1, InventoryAssumption
  <2> QED BY <2>1 DEF RoomKept, HasRoom, ImagesOf
<1> QED BY <1>2 DEF LimitInv

(* A request that goes on without a lock takes no room.                    *)
LEMMA RoomOfOthers ==
  ASSUME LimitInv, ItemInv', NEW p \in Clients, NEW t, tx' = [tx EXCEPT ![p] = t], Waits(t)
  PROVE  \A q \in Clients : At(q, "append", "locked")' =>
           /\ q # p /\ tx'[q] = tx[q] /\ tx[q].item \in items'
           /\ HasRoom(tx[q].item)
<1>1. \A q \in Clients : tx'[q] = IF q = p THEN t ELSE tx[q]
  BY DEF LimitInv, ItemInv, ItemsAreSound, TypeOK
<1>2. ASSUME NEW q \in Clients, At(q, "append", "locked")'
      PROVE  q # p /\ tx'[q] = tx[q] /\ tx[q].item \in items' /\ At(q, "append", "locked")
  BY <1>1, <1>2 DEF At, Waits, ItemInv, LockedIsCurrent
<1> QED BY <1>2 DEF LimitInv, RoomKept

(* Steps that leave items and images as they are, and those that remove    *)
(* some.                                                                   *)
Sheds == /\ items' \subseteq items /\ rows' \subseteq rows
         /\ \A g \in rows' : \/ owner'[g] = owner[g] /\ owner[g] \in items' \cup {None}
                             \/ owner'[g] = None

LEMMA ShedImages ==
  ASSUME ItemInv, Sheds, NEW i \in items PROVE ImagesOf(i)' \subseteq ImagesOf(i)
<1>1. i # None
  BY InventoryAssumption DEF ItemInv, ItemsAreSound, TypeOK
<1> QED BY <1>1 DEF ImagesOf, Sheds

LEMMA ShrinkStep ==
  ASSUME LimitInv, ItemInv', NEW p \in Clients, NEW t, tx' = [tx EXCEPT ![p] = t], Waits(t),
         Sheds
  PROVE  LimitInv'
<1>1. IsFiniteSet(rows')
  BY FS_Subset DEF LimitInv, Sheds
<1>2. OwnersExist'
  BY DEF OwnersExist, Sheds
<1>3. ASSUME NEW i \in items' PROVE i \in items /\ ImagesOf(i)' \subseteq ImagesOf(i)
  <2>1. i \in items
    BY DEF Sheds
  <2> QED BY <2>1, ShedImages DEF LimitInv
<1>4. \A q \in Clients : At(q, "append", "locked")' =>
        tx'[q].item \in items' /\ HasRoom(tx'[q].item)
  BY RoomOfOthers
<1> QED BY <1>1, <1>2, <1>3, <1>4, NoNewImages DEF LimitInv

(* An approval gives its images to an item that was not there.             *)
LEMMA ApprovalAdds ==
  ASSUME LimitInv, ApproveUploadGroup
  PROVE  /\ items \subseteq items' /\ tx' = tx /\ IsFiniteSet(rows') /\ OwnersExist'
         /\ \A j \in items : ImagesOf(j)' \subseteq ImagesOf(j)
<1>0. PICK i \in Items, S \in SUBSET Images : \E c, l : Approve(i, S, c, l)
  BY DEF ApproveUploadGroup
<1>1. /\ IsFiniteSet(S) /\ i \notin items /\ items' = items \cup {i} /\ rows' = rows \cup S
      /\ owner' = [g \in Images |-> IF g \in S THEN i ELSE owner[g]] /\ tx' = tx
  BY <1>0 DEF Approve
<1>2. owner \in [Images -> Items \cup {None}] /\ rows \subseteq Images /\ items \subseteq Items
  BY DEF LimitInv, ItemInv, ItemsAreSound, TypeOK
<1>3. ASSUME NEW j \in items PROVE ImagesOf(j)' \subseteq ImagesOf(j)
  <2>1. j # i
    BY <1>1
  <2>2. ASSUME NEW h \in rows', owner'[h] = j PROVE h \in rows /\ owner[h] = j
    BY <2>1, <2>2, <1>1, <1>2
  <2>3. ImagesOf(j)' = {h \in rows' : owner'[h] = j}
    BY DEF ImagesOf
  <2> QED BY <2>1, <2>2, <2>3 DEF ImagesOf
<1>4. IsFiniteSet(rows')
  BY <1>1, FS_Union DEF LimitInv
<1>5. OwnersExist'
  BY <1>1, <1>2 DEF LimitInv, OwnersExist
<1> QED BY <1>1, <1>3, <1>4, <1>5

LEMMA NewItemLimit ==
  ASSUME LimitInv, ItemInv', ApproveUploadGroup PROVE LimitInv'
<1>1. /\ items \subseteq items' /\ tx' = tx /\ IsFiniteSet(rows') /\ OwnersExist'
      /\ \A j \in items : ImagesOf(j)' \subseteq ImagesOf(j)
  BY ApprovalAdds
<1>2. ASSUME NEW j \in items
      PROVE  /\ Cardinality(ImagesOf(j)') <= Cardinality(ImagesOf(j))
             /\ Cardinality(ImagesOf(j)') \in Nat /\ Cardinality(ImagesOf(j)) \in Nat
  BY <1>1, FewerImages DEF LimitInv
<1>3. RoomKept'
  <2>1. ASSUME NEW p \in Clients, At(p, "append", "locked"), NEW j, j = tx[p].item
        PROVE  Cardinality(ImagesOf(j)') + 1 <= MaxImages
    <3>1. j \in items /\ Cardinality(ImagesOf(j)) + 1 <= MaxImages
      BY <2>1 DEF LimitInv, RoomKept, HasRoom, ItemInv, LockedIsCurrent, At
    <3> QED BY <3>1, <1>2, InventoryAssumption
  <2> QED BY <1>1, <2>1 DEF RoomKept, HasRoom, ImagesOf, At
<1> QED BY <1>1, <1>3 DEF LimitInv

(* An upload to an item that has room for one more.                        *)
LEMMA AppendAdds ==
  ASSUME LimitInv, NEW p \in Clients, CommitAppend(p), NEW i, i = tx[p].item
  PROVE  /\ i \in items /\ Cardinality(ImagesOf(i)') <= MaxImages
         /\ \A j \in items \ {i} : ImagesOf(j)' \subseteq ImagesOf(j)
         /\ At(p, "append", "locked") /\ items' = items /\ IsFiniteSet(rows') /\ OwnersExist'
<1>0. PICK g \in Images : i \in items /\ g = tx[p].image
  BY DEF CommitAppend, At, LimitInv, ItemInv, Addressed, LockedIsCurrent
<1>1. /\ At(p, "append", "locked") /\ items' = items /\ rows' = rows \cup {g}
      /\ owner' = [owner EXCEPT ![g] = i]
  BY <1>0 DEF CommitAppend, itemVars
<1>2. /\ owner \in [Images -> Items \cup {None}] /\ rows \subseteq Images
      /\ items \subseteq Items
      /\ Cardinality(ImagesOf(i)) + 1 <= MaxImages
  BY <1>0, <1>1 DEF LimitInv, ItemInv, ItemsAreSound, TypeOK, RoomKept, HasRoom
<1>3. /\ IsFiniteSet(ImagesOf(i)') /\ Cardinality(ImagesOf(i)') \in Nat
      /\ Cardinality(ImagesOf(i)') <= MaxImages
  <2>1. IsFiniteSet(ImagesOf(i)) /\ Cardinality(ImagesOf(i)) \in Nat
    BY FewerImages DEF LimitInv
  <2>2. ImagesOf(i)' \subseteq ImagesOf(i) \cup {g}
    BY <1>1, <1>2 DEF ImagesOf
  <2>3. /\ IsFiniteSet(ImagesOf(i) \cup {g})
        /\ Cardinality(ImagesOf(i) \cup {g}) \in Nat
        /\ Cardinality(ImagesOf(i) \cup {g}) <= Cardinality(ImagesOf(i)) + 1
    <3>1. /\ IsFiniteSet(ImagesOf(i) \cup {g})
          /\ Cardinality(ImagesOf(i) \cup {g}) =
               IF g \in ImagesOf(i) THEN Cardinality(ImagesOf(i)) ELSE Cardinality(ImagesOf(i)) + 1
      BY <2>1, FS_AddElement
    <3> QED BY <2>1, <3>1
  <2>4. /\ IsFiniteSet(ImagesOf(i)')
        /\ Cardinality(ImagesOf(i)') <= Cardinality(ImagesOf(i) \cup {g})
    BY <2>2, <2>3, FS_Subset
  <2>5. Cardinality(ImagesOf(i)') \in Nat
    BY <2>4, FS_CardinalityType
  <2> QED BY <2>1, <2>3, <2>4, <2>5, <1>2, InventoryAssumption
<1>4. ASSUME NEW j \in items, j # i PROVE ImagesOf(j)' \subseteq ImagesOf(j)
  <2>1. ASSUME NEW h \in rows', owner'[h] = j PROVE h \in rows /\ owner[h] = j
    BY <1>4, <2>1, <1>1, <1>2
  <2>2. ImagesOf(j)' = {h \in rows' : owner'[h] = j}
    BY DEF ImagesOf
  <2> QED BY <2>1, <2>2 DEF ImagesOf
<1>5. IsFiniteSet(rows') /\ OwnersExist'
  <2>1. IsFiniteSet(rows')
    BY <1>1, FS_AddElement DEF LimitInv
  <2> QED BY <2>1, <1>0, <1>1, <1>2 DEF LimitInv, OwnersExist
<1> QED BY <1>0, <1>1, <1>3, <1>4, <1>5

LEMMA AppendLimit ==
  ASSUME LimitInv, ItemInv', NEW p \in Clients, CommitAppend(p) PROVE LimitInv'
<1>0. PICK i : i = tx[p].item
  OBVIOUS
<1>1. /\ i \in items /\ At(p, "append", "locked") /\ items' = items
      /\ \A j \in items \ {i} : ImagesOf(j)' \subseteq ImagesOf(j)
      /\ IsFiniteSet(rows') /\ OwnersExist'
  BY <1>0, AppendAdds
<1>2. \A q \in Clients : At(q, "append", "locked")' =>
        q # p /\ tx'[q] = tx[q] /\ tx[q].item \in items /\ HasRoom(tx[q].item)
  <2>1. PICK t : tx' = [tx EXCEPT ![p] = t] /\ Waits(t)
    BY MovesOn DEF CommitAppend, LimitInv
  <2> QED BY <2>1, <1>1, RoomOfOthers
<1>3. \A q \in Clients : At(q, "append", "locked")' => tx[q].item # i
  BY <1>0, <1>1, <1>2 DEF LimitInv, ItemInv, LocksExclude, At
<1>4. ASSUME NEW j \in items, j # i
      PROVE  /\ Cardinality(ImagesOf(j)') <= Cardinality(ImagesOf(j))
             /\ Cardinality(ImagesOf(j)') \in Nat /\ Cardinality(ImagesOf(j)) \in Nat
  BY <1>1, <1>4, FewerImages DEF LimitInv
<1>5. RoomKept'
  <2>1. ASSUME NEW q \in Clients, At(q, "append", "locked")', NEW j, j = tx[q].item
        PROVE  Cardinality(ImagesOf(j)') + 1 <= MaxImages
    <3>1. j \in items /\ j # i /\ Cardinality(ImagesOf(j)) + 1 <= MaxImages
      BY <2>1, <1>2, <1>3 DEF HasRoom
    <3> QED BY <3>1, <1>4, InventoryAssumption
  <2>2. \A q \in Clients : At(q, "append", "locked")' => tx'[q] = tx[q]
    BY <1>2
  <2> QED BY <2>1, <2>2 DEF RoomKept, HasRoom, ImagesOf
<1> QED BY <1>1, <1>5 DEF LimitInv

(* The lock is given to an upload when there is room.                      *)
LEMMA LockLimit ==
  ASSUME LimitInv, ItemInv', NEW p \in Clients, LockItem(p) PROVE LimitInv'
<1>1. UNCHANGED <<items, rows, owner>>
  BY DEF LockItem, itemVars, imageVars
<1>2. CASE Ended(p)
  <2>1. tx' = [tx EXCEPT ![p] = Idle] /\ Waits(Idle)
    BY <1>2, IdleIsTransaction DEF Ended, Waits
  <2> QED BY <1>1, <2>1, ShrinkStep DEF LimitInv, OwnersExist, Sheds
<1>3. CASE ~Ended(p)
  <2>1. /\ tx[p].op = "append" => HasRoom(tx[p].item)
        /\ tx' = [tx EXCEPT ![p] = Granted(tx[p], disp[tx[p].item], Doomed(tx[p]))]
    BY <1>3 DEF LockItem, Granted
  <2>2. /\ tx \in [Clients -> Transactions]
        /\ Granted(tx[p], disp[tx[p].item], Doomed(tx[p])).op = tx[p].op
        /\ Granted(tx[p], disp[tx[p].item], Doomed(tx[p])).item = tx[p].item
    BY DEF LimitInv, ItemInv, ItemsAreSound, TypeOK, Granted, Transactions
  <2>3. ASSUME NEW q \in Clients, At(q, "append", "locked")'
        PROVE  tx'[q].item \in items' /\ HasRoom(tx'[q].item)
    <3>1. tx'[q].item \in items'
      BY <2>3 DEF ItemInv, LockedIsCurrent, At
    <3>2. CASE q = p
      BY <2>1, <2>2, <2>3, <3>1, <3>2 DEF At
    <3>3. CASE q # p
      BY <2>1, <2>2, <2>3, <3>1, <3>3 DEF At, LimitInv, RoomKept
    <3> QED BY <3>2, <3>3
  <2>4. \A i \in items' : i \in items /\ ImagesOf(i)' \subseteq ImagesOf(i)
    BY <1>1 DEF ImagesOf
  <2> QED BY <1>1, <2>3, <2>4, NoNewImages DEF LimitInv, OwnersExist
<1> QED BY <1>2, <1>3

(* Every other commit only removes.                                        *)
LEMMA CommitSheds ==
  ASSUME ItemInv, OwnersExist, NEW p \in Clients, Commit(p), ~CommitAppend(p) PROVE Sheds
<1>0. TypeOK
  BY DEF ItemInv, ItemsAreSound
<1>1. CASE CommitDeleteImage(p)
  BY <1>0, <1>1 DEF CommitDeleteImage, itemVars, TypeOK, OwnersExist, Sheds
<1>2. CASE CommitDeleteItem(p) \/ DeleteContainerRows(p)
  <2>1. PICK ids, images, c : Drop(ids, images, c)
    BY <1>2 DEF CommitDeleteItem, DeleteContainerRows
  <2> QED BY <1>0, <2>1 DEF Drop, TypeOK, OwnersExist, Sheds
<1>3. CASE CommitPatch(p) \/ FailAppend(p) \/ CommitCreate(p) \/ CommitUpdate(p)
  BY <1>0, <1>3 DEF CommitPatch, FailAppend, CommitCreate, CommitUpdate,
                    itemVars, imageVars, OwnersExist, Sheds
<1>4. CASE DeleteLocation(p) \/ DeleteContainerType(p) \/ DeleteInventoryGroup(p)
  BY <1>0, <1>4 DEF DeleteLocation, DeleteContainerType, DeleteInventoryGroup,
                    DeletePlace, imageVars, OwnersExist, Sheds
<1> QED BY <1>1, <1>2, <1>3, <1>4 DEF Commit

LEMMA CommitLimit ==
  ASSUME LimitInv, ItemInv', NEW p \in Clients, Commit(p) PROVE LimitInv'
<1>1. CASE CommitAppend(p)
  BY <1>1, AppendLimit
<1>2. CASE ~CommitAppend(p)
  <2>1. PICK t : tx' = [tx EXCEPT ![p] = t] /\ Waits(t)
    BY <1>2, MovesOn
    DEF Commit, CommitPatch, FailAppend, CommitDeleteImage, CommitDeleteItem,
        DeleteContainerRows, CommitCreate, CommitUpdate, DeleteLocation,
        DeleteContainerType, DeleteInventoryGroup, DeletePlace, LimitInv
  <2> QED BY <1>2, <2>1, CommitSheds, ShrinkStep DEF LimitInv
<1> QED BY <1>1, <1>2

-----------------------------------------------------------------------------
(* Of every inventory, next to sales preparation or without it, each step  *)
(* keeps the limit.                                                        *)
LEMMA LimitNext ==
  ASSUME LimitInv, Next PROVE LimitInv'
<1>0. ItemInv' /\ ItemInv
  BY NextStep DEF LimitInv
<1>1. CASE ApproveUploadGroup
  BY <1>0, <1>1, NewItemLimit
<1>2. CASE Archive
  BY <1>0, <1>2 DEF Archive, LimitInv, OwnersExist, RoomKept, At, HasRoom, ImagesOf,
                    itemVars, imageVars
<1>3. ASSUME NEW p \in Clients, Arrive(p) \/ Check(p) \/ Answer(p) \/ Abandon(p)
      PROVE LimitInv'
  <2>1. UNCHANGED <<itemVars, imageVars>> /\ \E t : tx' = [tx EXCEPT ![p] = t] /\ Waits(t)
    <3>1. CASE Arrive(p) \/ Check(p)
      BY <1>0, <3>1, ArriveChanges, CheckChanges
    <3>2. CASE Answer(p) \/ Abandon(p)
      BY <1>0, <3>2, IdleIsTransaction
      DEF Answer, AnswerUpload, AnswerDeleteImage, DeleteFiles, Done, Abandon, Ended, Waits
    <3> QED BY <1>3, <3>1, <3>2
  <2> QED BY <1>0, <2>1, ShrinkStep DEF LimitInv, OwnersExist, Sheds, itemVars, imageVars
<1>4. ASSUME NEW p \in Clients, LockItem(p) \/ Commit(p) PROVE LimitInv'
  BY <1>0, <1>4, LockLimit, CommitLimit
<1> QED BY <1>1, <1>2, <1>3, <1>4 DEF Next

LEMMA LimitInit == Init => LimitInv
<1> SUFFICES ASSUME Init PROVE LimitInv
  OBVIOUS
<1>1. ItemInv /\ rows = {} /\ items = {} /\ IsFiniteSet(rows)
  BY InitItems, FS_EmptySet DEF Init
<1>2. \A p \in Clients : tx[p] = Idle
  BY DEF Init
<1> QED BY <1>1, <1>2 DEF LimitInv, OwnersExist, RoomKept, At, Idle

LEMMA LimitListing == LimitInv /\ [ListingNext]_allVars => LimitInv'
<1>1. ASSUME LimitInv, UNCHANGED <<itemVars, imageVars, files, placeVars, tx, scenario>>,
             asked' \in {asked, asked + 1}
      PROVE  LimitInv'
  <2>1. ItemInv'
    <3>1. asked \in Nat /\ scenario \in Scenarios /\ ItemInv
      BY <1>1 DEF LimitInv, ItemInv, ItemsAreSound, TypeOK
    <3> QED BY <1>1, <3>1, ItemsLeftAlone
  <2> QED BY <1>1, <2>1 DEF LimitInv, OwnersExist, RoomKept, At, HasRoom, ImagesOf,
                            itemVars, imageVars
<1>2. ASSUME LimitInv, UNCHANGED allVars PROVE LimitInv'
  BY <1>1, <1>2 DEF allVars, vars
<1>3. ASSUME LimitInv, ListingNext PROVE LimitInv'
  BY <1>1, <1>3, ListingStep, LimitNext
<1> QED BY <1>2, <1>3

(* An item that is there gets images only from an upload to it.            *)
LEMMA AdditionStep ==
  ASSUME LimitInv, [ListingNext]_allVars, NEW i \in items
  PROVE  ImagesOf(i)' \subseteq ImagesOf(i) \/ Cardinality(ImagesOf(i)') <= MaxImages
<1>1. CASE UNCHANGED <<rows, owner>>
  BY <1>1 DEF ImagesOf
<1>2. CASE ApproveUploadGroup
  BY <1>2, ApprovalAdds
<1>3. ASSUME NEW p \in Clients, Commit(p)
      PROVE  ImagesOf(i)' \subseteq ImagesOf(i) \/ Cardinality(ImagesOf(i)') <= MaxImages
  <2>1. CASE CommitAppend(p)
    <3>1. PICK k : k = tx[p].item
      OBVIOUS
    <3> QED BY <2>1, <3>1, AppendAdds
  <2>2. CASE ~CommitAppend(p)
    BY <1>3, <2>2, CommitSheds, ShedImages DEF LimitInv
  <2> QED BY <2>1, <2>2
<1>4. ASSUME NEW p \in Clients,
             Arrive(p) \/ Check(p) \/ LockItem(p) \/ Answer(p) \/ Abandon(p)
      PROVE  UNCHANGED <<rows, owner>>
  <2>1. CASE Arrive(p) \/ Check(p)
    BY <2>1, ArriveChanges, CheckChanges DEF LimitInv, imageVars
  <2>2. CASE LockItem(p) \/ Answer(p) \/ Abandon(p)
    BY <2>2 DEF LockItem, Answer, AnswerUpload, AnswerDeleteImage, DeleteFiles, Done, Abandon,
                imageVars
  <2> QED BY <1>4, <2>1, <2>2
<1>5. CASE ~Next
  BY <1>1, <1>5, ListingStep DEF allVars, vars, imageVars
<1>6. CASE Archive
  BY <1>1, <1>6 DEF Archive, imageVars
<1> QED BY <1>1, <1>2, <1>3, <1>4, <1>5, <1>6 DEF Next

(* AdditionsWithinLimit holds however many uploads to an item overlap, and *)
(* whatever number of images its approval brought: each upload counts the  *)
(* images with the item locked, and keeps the lock until it has added its  *)
(* own.                                                                    *)
THEOREM ImagesLimited == ListingSpec => AdditionsWithinLimit
<1>1. ListingInit => LimitInv
  BY LimitInit DEF ListingInit
<1>2. LimitInv /\ [ListingNext]_allVars =>
        [\A i \in items : \/ ImagesOf(i)' \subseteq ImagesOf(i)
                          \/ Cardinality(ImagesOf(i)') <= MaxImages]_vars
  BY AdditionStep
<1> QED BY <1>1, <1>2, LimitListing, PTL DEF ListingSpec, AdditionsWithinLimit

-----------------------------------------------------------------------------
(* The conditions of ItemsKeepFiles.                                       *)
Careful ==
  /\ ~scenario.readback
  /\ \/ "delcont" \notin scenario.requests \/ scenario.alone = "all"
     \/ scenario.alone = "deletions" /\ scenario.requests \cap {"move", "dispose"} = {}

(* The image of an upload that has not committed has a file and no row,    *)
(* and no other request knows it.                                          *)
Pending(t) == t.op = "append" /\ t.at # "done"

UploadsApart ==
  \A p \in Clients : Pending(tx[p]) =>
    /\ tx[p].image \in files \ rows
    /\ \A q \in Clients : /\ tx[p].image \notin tx[q].doomed
                          /\ q # p => tx[q].image # tx[p].image

(* One that has committed belongs to the item of the upload, or to none.   *)
UploadsOwned ==
  \A p \in Clients : tx[p].op = "append" /\ tx[p].at = "done" /\ tx[p].image \in rows =>
    owner[tx[p].image] \in {tx[p].item, None}

(* What the scenario says of the requests that come together.              *)
InTurn ==
  /\ \A p \in Clients : tx[p].op = "delcont" => "delcont" \in scenario.requests
  /\ \A p \in Clients : tx[p].op = "patch" =>
       /\ tx[p].to # Keep => "move" \in scenario.requests
       /\ tx[p].disp # Keep => "dispose" \in scenario.requests
  /\ \A p, q \in Clients :
       \/ scenario.alone = "all" /\ tx[p].op # "idle" /\ tx[q].op # "idle"
       \/ scenario.alone = "deletions" /\ tx[p].op = "delcont" /\ tx[q].op = "delcont"
       => p = q

(* A row whose file a request will remove belongs to no item, or goes with *)
(* the commit of that request.                                             *)
WillGo(t, g) ==
  \/ t.at = "locked" /\ t.op \in {"delimg", "delitem"} /\ owner[g] = t.item
  \/ t.op = "delcont" /\ t.at = "paths" /\ g \in ImagesIn(t.to)
  \/ t.op = "delcont" /\ t.at = "rows" /\ g \in t.ids

DoomedGo == \A p \in Clients : \A g \in tx[p].doomed \cap rows :
              owner[g] = None \/ WillGo(tx[p], g)

OwnedHaveFiles == \A g \in rows : owner[g] # None => g \in files

KeepInv == /\ LimitInv /\ UploadsApart /\ UploadsOwned /\ InTurn
           /\ Careful => DoomedGo /\ OwnedHaveFiles

(* A request goes on or ends.                                              *)
Follows(u, t) ==
  \/ u = Idle
  \/ /\ u.op = t.op /\ u.item = t.item /\ u.image = t.image /\ u.to = t.to /\ u.disp = t.disp
     /\ t.at = "done" => u.at = "done"

LEMMA TurnStep ==
  ASSUME KeepInv, scenario' = scenario, NEW p \in Clients, NEW u,
         \A q \in Clients : tx'[q] = IF q = p THEN u ELSE tx[q], Follows(u, tx[p])
  PROVE  InTurn'
<1>1. \A q \in Clients : \/ tx'[q].op = "idle"
                         \/ tx'[q].op = tx[q].op /\ tx'[q].to = tx[q].to /\ tx'[q].disp = tx[q].disp
  BY DEF Follows, Idle
<1>2. \A q \in Clients : tx'[q].op = "delcont" => "delcont" \in scenario'.requests
  BY <1>1 DEF KeepInv, InTurn
<1>3. \A q \in Clients : tx'[q].op = "patch" =>
        /\ tx'[q].to # Keep => "move" \in scenario'.requests
        /\ tx'[q].disp # Keep => "dispose" \in scenario'.requests
  BY <1>1 DEF KeepInv, InTurn
<1>4. \A q, r \in Clients :
        \/ scenario'.alone = "all" /\ tx'[q].op # "idle" /\ tx'[r].op # "idle"
        \/ scenario'.alone = "deletions" /\ tx'[q].op = "delcont" /\ tx'[r].op = "delcont"
        => q = r
  BY <1>1 DEF KeepInv, InTurn
<1> QED BY <1>2, <1>3, <1>4 DEF InTurn

(* A step adds the rows of fresh images, and removes files that are gone,  *)
(* none of them of another upload; what is in a container under deletion   *)
(* stays there.                                                            *)
Effect(fresh, gone) ==
  /\ rows' \subseteq rows \cup fresh /\ fresh \subseteq files' /\ files \ gone \subseteq files'
  /\ \A g \in rows' \ fresh : owner'[g] \in {owner[g], None}
  /\ \A q \in Clients : fresh \cap tx[q].doomed = {}

Spares(p, fresh, gone) ==
  \A q \in Clients \ {p} : /\ tx[q].op = "append" => tx[q].image \notin fresh
                           /\ Pending(tx[q]) => tx[q].image \notin gone

StayInside(p, fresh) ==
  \A q \in Clients \ {p}, c \in Containers : tx[q].op = "delcont" /\ tx[q].to = c =>
    \A g \in rows' \ fresh : g \in ImagesIn(c) /\ owner'[g] # None => g \in ImagesIn(c)'

LEMMA UploadsStep ==
  ASSUME KeepInv, NEW p \in Clients, NEW u,
         \A q \in Clients : tx'[q] = IF q = p THEN u ELSE tx[q], Follows(u, tx[p]),
         NEW fresh, NEW gone, Effect(fresh, gone), Spares(p, fresh, gone),
         Pending(u) => u.image \notin fresh \cup gone,
         u.doomed \subseteq tx[p].doomed \cup rows,
         u.op = "append" /\ u.at = "done" /\ u.image \in rows' => owner'[u.image] \in {u.item, None}
  PROVE  UploadsApart' /\ UploadsOwned'
<1> USE DEF Effect, Spares
<1>1. \A q \in Clients : Pending(tx'[q]) => Pending(tx[q]) /\ tx'[q].image = tx[q].image
  BY DEF Pending, Follows, Idle
<1>2. \A q \in Clients : tx'[q].image \in {tx[q].image, None}
  BY DEF Follows, Idle
<1>3. \A q \in Clients : tx'[q].doomed \subseteq tx[q].doomed \cup rows
  OBVIOUS
<1>4. ASSUME NEW q \in Clients, Pending(tx'[q]), NEW g, g = tx'[q].image
      PROVE  /\ g \in files' \ rows'
             /\ \A r \in Clients : g \notin tx'[r].doomed /\ (r # q => tx'[r].image # g)
  <2>1. /\ Pending(tx[q]) /\ g = tx[q].image /\ g \in files \ rows /\ g \notin fresh \cup gone
        /\ \A r \in Clients : g \notin tx[r].doomed /\ (r # q => tx[r].image # g)
    BY <1>1, <1>4 DEF KeepInv, UploadsApart, Pending
  <2>2. g \in Images /\ g # None
    BY <2>1, InventoryAssumption
    DEF Pending, KeepInv, LimitInv, ItemInv, ItemsAreSound, TypeOK, Addressed
  <2> QED BY <2>1, <2>2, <1>2, <1>3
<1>5. UploadsApart'
  BY <1>4 DEF UploadsApart, Pending
<1>6. ASSUME NEW q \in Clients, tx'[q].op = "append", tx'[q].at = "done", tx'[q].image \in rows'
      PROVE  owner'[tx'[q].image] \in {tx'[q].item, None}
  <2>1. CASE q = p
    BY <1>6, <2>1
  <2>2. CASE q # p
    BY <1>6, <2>2 DEF KeepInv, UploadsOwned
  <2> QED BY <2>1, <2>2
<1>7. UploadsOwned'
  BY <1>6 DEF UploadsOwned
<1> QED BY <1>5, <1>7

LEMMA FilesStep ==
  ASSUME KeepInv, Careful, NEW p \in Clients, NEW u,
         \A q \in Clients : tx'[q] = IF q = p THEN u ELSE tx[q],
         NEW fresh, NEW gone, Effect(fresh, gone), StayInside(p, fresh),
         \A g \in gone \cap rows' : owner'[g] = None,
         \A g \in u.doomed \cap rows' : owner'[g] = None \/ WillGo(u, g)'
  PROVE  DoomedGo' /\ OwnedHaveFiles'
<1> USE DEF Effect
<1>1. OwnedHaveFiles'
  BY DEF OwnedHaveFiles, KeepInv
<1>2. ASSUME NEW q \in Clients, NEW t, t = tx'[q], NEW g \in t.doomed \cap rows', owner'[g] # None
      PROVE  WillGo(t, g)'
  <2>1. CASE q = p
    BY <1>2, <2>1
  <2>2. CASE q # p
    <3>1. /\ t = tx[q] /\ g \in rows /\ g \notin fresh /\ owner'[g] = owner[g]
          /\ WillGo(t, g)
      BY <1>2, <2>2 DEF KeepInv, DoomedGo
    <3>2. t.op = "delcont" => t.to \in Containers
      BY <3>1 DEF KeepInv, LimitInv, ItemInv, Addressed
    <3>3. CASE t.at = "locked" /\ t.op \in {"delimg", "delitem"} /\ owner[g] = t.item
      BY <3>1, <3>3 DEF WillGo
    <3>4. CASE t.op = "delcont" /\ t.at = "paths" /\ g \in ImagesIn(t.to)
      <4>1. PICK c \in Containers : t.to = c
        BY <3>2, <3>4
      <4>2. g \in ImagesIn(c)'
        BY <1>2, <2>2, <3>1, <3>4, <4>1 DEF StayInside
      <4> QED BY <3>4, <4>1, <4>2 DEF WillGo
    <3>5. CASE t.op = "delcont" /\ t.at = "rows" /\ g \in t.ids
      BY <3>5 DEF WillGo
    <3> QED BY <3>1, <3>3, <3>4, <3>5 DEF WillGo
  <2> QED BY <2>1, <2>2
<1>3. DoomedGo'
  BY <1>2 DEF DoomedGo, WillGo, ImagesIn, InContainer
<1> QED BY <1>1, <1>3

(* A step that changes no item and no row, and removes the files gone.     *)
LEMMA LookKeeps ==
  ASSUME KeepInv, LimitInv', scenario' = scenario, UNCHANGED <<items, inside, imageVars>>,
         NEW p \in Clients, NEW u, tx' = [tx EXCEPT ![p] = u], Follows(u, tx[p]),
         NEW gone, files' = files \ gone, gone \subseteq tx[p].doomed \cup {tx[p].image},
         Pending(u) => gone = {},
         u.doomed \subseteq tx[p].doomed \cup rows,
         u.op = "append" => u.at # "done",
         Careful => /\ \A g \in gone \cap rows : owner[g] = None
                    /\ \A g \in u.doomed \cap rows : owner[g] = None \/ WillGo(u, g)
  PROVE  KeepInv'
<1>1. \A q \in Clients : tx'[q] = IF q = p THEN u ELSE tx[q]
  BY DEF KeepInv, LimitInv, ItemInv, ItemsAreSound, TypeOK
<1>2. InTurn'
  BY <1>1, TurnStep
<1>3. UNCHANGED <<items, inside, rows, owner, origin>>
  BY DEF imageVars
<1>4. UploadsApart' /\ UploadsOwned'
  <2>1. PICK fresh : fresh = {}
    OBVIOUS
  <2>2. Effect(fresh, gone)
    BY <1>3, <2>1 DEF Effect
  <2>3. Spares(p, fresh, gone)
    BY <2>1 DEF KeepInv, UploadsApart, Spares
  <2> QED BY <1>1, <2>1, <2>2, <2>3, UploadsStep
<1>5. ASSUME Careful PROVE DoomedGo' /\ OwnedHaveFiles'
  <2>1. \A g \in u.doomed \cap rows' : owner'[g] = None \/ WillGo(u, g)'
    BY <1>3, <1>5 DEF WillGo, ImagesIn, InContainer
  <2>2. PICK fresh : fresh = {}
    OBVIOUS
  <2>3. Effect(fresh, gone)
    BY <1>3, <2>2 DEF Effect
  <2>4. StayInside(p, fresh)
    BY <1>3 DEF StayInside, ImagesIn, InContainer
  <2>5. \A g \in gone \cap rows' : owner'[g] = None
    BY <1>3, <1>5
  <2> QED BY <1>1, <1>5, <2>1, <2>3, <2>4, <2>5, FilesStep
<1> QED BY <1>2, <1>4, <1>5 DEF KeepInv, Careful

LEMMA EndKeeps ==
  ASSUME KeepInv, LimitInv', scenario' = scenario, UNCHANGED <<items, inside, imageVars>>,
         NEW p \in Clients, Ended(p),
         NEW gone, files' = files \ gone, gone \subseteq tx[p].doomed \cup {tx[p].image},
         Careful => \A g \in gone \cap rows : owner[g] = None
  PROVE  KeepInv'
<1>1. tx' = [tx EXCEPT ![p] = Idle] /\ Follows(Idle, tx[p])
  BY DEF Ended, Follows
<1>2. Idle.doomed = {} /\ Idle.op = "idle" /\ ~Pending(Idle)
  BY DEF Idle, Pending
<1> QED BY <1>1, <1>2, LookKeeps

(* Answers remove only files that no item needs.                           *)
LEMMA AnswerKeeps ==
  ASSUME KeepInv, LimitInv', NEW p \in Clients, Answer(p) PROVE KeepInv'
<1>1. PICK gone : /\ files' = files \ gone /\ gone \subseteq tx[p].doomed \cup {tx[p].image}
                  /\ Careful => \A g \in gone \cap rows : owner[g] = None
  <2>1. CASE AnswerUpload(p)
    <3>1. PICK read \in ReadsBack(p) :
            Done(p, {"append"}, IF read THEN {} ELSE {tx[p].image})
      BY <2>1 DEF AnswerUpload
    <3>2. CASE read
      <4>1. files' = files \ {}
        BY <3>1, <3>2 DEF Done
      <4> WITNESS {}
      <4> QED BY <4>1
    <3>3. CASE ~read
      <4>1. files' = files \ {tx[p].image} /\ tx[p].op = "append" /\ tx[p].at = "done"
        BY <3>1, <3>3 DEF Done
      <4>2. Careful => tx[p].item \notin items
        BY <3>3 DEF ReadsBack, Careful
      <4>3. tx[p].image \in rows =>
              owner[tx[p].image] \in {tx[p].item, None} \cap (items \cup {None})
        BY <4>1 DEF KeepInv, LimitInv, UploadsOwned, OwnersExist
      <4>4. Careful => \A g \in {tx[p].image} \cap rows : owner[g] = None
        BY <4>2, <4>3
      <4> QED BY <4>1, <4>4
    <3> QED BY <3>2, <3>3 DEF ReadsBack
  <2>2. CASE AnswerDeleteImage(p) \/ DeleteFiles(p)
    <3>1. PICK remove \in {tx[p].doomed, {}} : Done(p, {"delimg", "delitem", "delcont"}, remove)
      BY <2>2 DEF AnswerDeleteImage, DeleteFiles, Done
    <3>2. tx[p].at = "done" /\ files' = files \ remove
      BY <3>1 DEF Done
    <3>3. Careful => \A g \in remove \cap rows : owner[g] = None
      BY <3>2 DEF KeepInv, DoomedGo, WillGo
    <3> QED BY <3>2, <3>3
  <2> QED BY <2>1, <2>2 DEF Answer
<1>2. scenario' = scenario /\ UNCHANGED <<items, inside, imageVars>> /\ Ended(p)
  BY DEF Answer, AnswerUpload, AnswerDeleteImage, DeleteFiles, Done, Bounds, itemVars
<1> QED BY <1>1, <1>2, EndKeeps

(* Uploads that do not commit remove a file without a row.                 *)
LEMMA GiveUpKeeps ==
  ASSUME KeepInv, LimitInv', NEW p \in Clients,
         Abandon(p) \/ FailAppend(p) \/ (LockItem(p) /\ Ended(p))
  PROVE  KeepInv'
<1> DEFINE gone == IF tx[p].op = "append" THEN {tx[p].image} ELSE {}
<1>1. Ended(p) /\ tx[p].at # "done" /\ scenario' = scenario
      /\ UNCHANGED <<items, inside, imageVars>>
  BY DEF Abandon, FailAppend, LockItem, At, Bounds, itemVars
<1>2. files' = files \ gone
  <2>1. CASE Abandon(p)
    BY <2>1 DEF Abandon
  <2>2. CASE FailAppend(p)
    BY <2>2 DEF FailAppend, At
  <2>3. CASE LockItem(p) /\ Ended(p)
    <3>1. tx[p].at = "checked" /\ tx' = [tx EXCEPT ![p] = Idle]
      BY <2>3 DEF LockItem, Ended
    <3>2. tx'[p].at = "idle"
      BY <3>1 DEF KeepInv, LimitInv, ItemInv, ItemsAreSound, TypeOK, Idle
    <3>3. tx' # [tx EXCEPT ![p] = Granted(tx[p], disp[tx[p].item], Doomed(tx[p]))]
      <4>1. tx[p] \in Transactions /\ tx \in [Clients -> Transactions]
        BY DEF KeepInv, LimitInv, ItemInv, ItemsAreSound, TypeOK
      <4>2. Granted(tx[p], disp[tx[p].item], Doomed(tx[p])).at = "locked"
        BY <4>1 DEF Granted, Transactions
      <4> QED BY <3>2, <4>1, <4>2
    <3> QED BY <2>3, <3>3 DEF LockItem, Granted
  <2> QED BY <2>1, <2>2, <2>3
<1>3. \A g \in gone \cap rows : owner[g] = None
  BY <1>1 DEF KeepInv, UploadsApart, Pending
<1>4. gone \subseteq tx[p].doomed \cup {tx[p].image}
  OBVIOUS
<1> HIDE DEF gone
<1> QED BY <1>1, <1>2, <1>3, <1>4, EndKeeps

(* Requests that only look.                                                *)
LEMMA CheckKeeps ==
  ASSUME KeepInv, LimitInv', NEW p \in Clients, Check(p) PROVE KeepInv'
<1> DEFINE t == tx[p]
<1>0. /\ scenario' = scenario /\ UNCHANGED <<items, inside, imageVars>> /\ files' = files \ {}
      /\ t \in Transactions
  BY DEF Check, CheckPatch, ReadPaths, SelectRows, CheckAssign, CheckLocation, CheckContainerType,
         CheckInventoryGroup, CheckUnused, Bounds, itemVars,
         KeepInv, LimitInv, ItemInv, ItemsAreSound, TypeOK
<1>1. CASE Ended(p)
  BY <1>0, <1>1, EndKeeps
<1>2. CASE Move(p, "checked") /\ t.at = "begin" /\ t.op # "append"
  <2>1. PICK u : u = [t EXCEPT !.at = "checked"]
    OBVIOUS
  <2>2. /\ u.op = t.op /\ u.item = t.item /\ u.image = t.image /\ u.to = t.to
        /\ u.disp = t.disp /\ u.at = "checked" /\ u.doomed = t.doomed
    BY <1>0, <2>1 DEF Transactions
  <2>3. tx' = [tx EXCEPT ![p] = u] /\ Follows(u, t)
    BY <1>2, <2>1, <2>2 DEF Move, Follows
  <2>4. Careful => \A g \in t.doomed \cap rows : owner[g] = None
    BY <1>2 DEF KeepInv, DoomedGo, WillGo
  <2> QED BY <1>0, <1>2, <2>2, <2>3, <2>4, LookKeeps
<1>3. CASE ReadPaths(p) /\ ~Ended(p)
  <2>1. PICK u : u = [t EXCEPT !.at = "paths", !.doomed = ImagesIn(t.to)]
    OBVIOUS
  <2>2. /\ u.op = t.op /\ u.item = t.item /\ u.image = t.image /\ u.to = t.to
        /\ u.disp = t.disp /\ u.at = "paths" /\ u.doomed = ImagesIn(t.to)
    BY <1>0, <2>1 DEF Transactions
  <2>3. tx' = [tx EXCEPT ![p] = u] /\ Follows(u, t) /\ t.op = "delcont"
    BY <1>3, <2>1, <2>2 DEF ReadPaths, Follows, At
  <2>4. u.doomed \subseteq rows /\ \A g \in u.doomed : WillGo(u, g)
    BY <2>2, <2>3 DEF ImagesIn, WillGo
  <2> QED BY <1>0, <2>2, <2>3, <2>4, LookKeeps
<1>4. CASE SelectRows(p)
  <2>1. PICK u : u = [t EXCEPT !.at = "rows", !.ids = InContainer(t.to) \cup RowsOf(t.to)]
    OBVIOUS
  <2>2. /\ u.op = t.op /\ u.item = t.item /\ u.image = t.image /\ u.to = t.to
        /\ u.disp = t.disp /\ u.at = "rows" /\ u.doomed = t.doomed
        /\ u.ids = InContainer(t.to) \cup RowsOf(t.to)
    BY <1>0, <2>1 DEF Transactions
  <2>3. tx' = [tx EXCEPT ![p] = u] /\ Follows(u, t) /\ t.op = "delcont" /\ t.at = "paths"
    BY <1>4, <2>1, <2>2 DEF SelectRows, Follows, At
  <2>4. Careful => \A g \in t.doomed \cap rows : owner[g] = None \/ g \in ImagesIn(t.to)
    BY <2>3 DEF KeepInv, DoomedGo, WillGo
  <2>5. Careful => \A g \in u.doomed \cap rows : owner[g] = None \/ WillGo(u, g)
    BY <2>2, <2>3, <2>4 DEF WillGo, RowsOf
  <2> QED BY <1>0, <2>2, <2>3, <2>5, LookKeeps
<1> QED BY <1>1, <1>2, <1>3, <1>4, Check(p)
        DEF Check, CheckPatch, CheckAssign, CheckLocation, CheckContainerType,
            CheckInventoryGroup, CheckUnused, At

(* What a request for images will remove is its item's while it holds the  *)
(* lock.                                                                   *)
LEMMA LockKeeps ==
  ASSUME KeepInv, LimitInv', NEW p \in Clients, LockItem(p) PROVE KeepInv'
<1> DEFINE t == tx[p]
<1>1. CASE Ended(p)
  BY <1>1, GiveUpKeeps
<1>2. CASE ~Ended(p)
  <2>0. /\ scenario' = scenario /\ UNCHANGED <<items, inside, imageVars>> /\ files' = files \ {}
        /\ t \in Transactions /\ t.at = "checked"
        /\ t.op \in {"patch", "append", "delimg", "delitem"}
        /\ t.op = "delimg" => t.image \in ImagesOf(t.item)
    BY <1>2 DEF LockItem, Bounds, itemVars, KeepInv, LimitInv, ItemInv, ItemsAreSound, TypeOK
  <2>1. PICK u : u = Granted(t, disp[t.item], Doomed(t))
    OBVIOUS
  <2>2. /\ u.op = t.op /\ u.item = t.item /\ u.image = t.image /\ u.to = t.to
        /\ u.disp = t.disp /\ u.at = "locked" /\ u.doomed = Doomed(t)
    BY <2>0, <2>1 DEF Transactions, Granted
  <2>3. tx' = [tx EXCEPT ![p] = u] /\ Follows(u, t)
    BY <1>2, <2>0, <2>1, <2>2 DEF LockItem, Follows, Granted
  <2>4. \A g \in Doomed(t) : g \in rows /\ t.op \in {"delimg", "delitem"} /\ owner[g] = t.item
    BY <2>0 DEF Doomed, ImagesOf
  <2>5. \A g \in u.doomed : WillGo(u, g)
    BY <2>2, <2>4 DEF WillGo
  <2>6. u.doomed \subseteq rows
    BY <2>2, <2>4
  <2> QED BY <2>0, <2>2, <2>3, <2>5, <2>6, LookKeeps
<1> QED BY <1>1, <1>2

(* Requests that arrive.                                                   *)
LEMMA NewRequestKeeps ==
  ASSUME KeepInv, LimitInv', scenario' = scenario, UNCHANGED <<items, inside, imageVars>>,
         files \subseteq files', NEW p \in Clients, NEW u, tx' = [tx EXCEPT ![p] = u],
         u.doomed = {}, u.at # "done",
         u.op = "append" => /\ u.image \in files' \ rows
                            /\ \A q \in Clients : u.image \notin tx[q].doomed
                                                  /\ tx[q].image # u.image,
         u.op # "append" => u.image \in rows \cup {None},
         u.op = "delcont" => "delcont" \in scenario.requests,
         u.op = "patch" => /\ u.to # Keep => "move" \in scenario.requests
                           /\ u.disp # Keep => "dispose" \in scenario.requests,
         scenario.alone = "all" => \A q \in Clients : tx[q].op = "idle",
         scenario.alone = "deletions" /\ u.op = "delcont" =>
           \A q \in Clients : tx[q].op # "delcont"
  PROVE  KeepInv'
<1>1. \A q \in Clients : tx'[q] = IF q = p THEN u ELSE tx[q]
  BY DEF KeepInv, LimitInv, ItemInv, ItemsAreSound, TypeOK
<1>2. InTurn'
  <2>1. \A q \in Clients : tx'[q].op = "delcont" => "delcont" \in scenario'.requests
    BY <1>1 DEF KeepInv, InTurn
  <2>2. \A q \in Clients : tx'[q].op = "patch" =>
          /\ tx'[q].to # Keep => "move" \in scenario'.requests
          /\ tx'[q].disp # Keep => "dispose" \in scenario'.requests
    BY <1>1 DEF KeepInv, InTurn
  <2>3. \A q, r \in Clients :
          \/ scenario'.alone = "all" /\ tx'[q].op # "idle" /\ tx'[r].op # "idle"
          \/ scenario'.alone = "deletions" /\ tx'[q].op = "delcont" /\ tx'[r].op = "delcont"
          => q = r
    BY <1>1 DEF KeepInv, InTurn
  <2> QED BY <2>1, <2>2, <2>3 DEF InTurn
<1>3. UNCHANGED <<items, inside, rows, owner, origin>>
  BY DEF imageVars
<1>4. UploadsApart'
  <2>1. ASSUME NEW q \in Clients, Pending(tx'[q]), NEW g, g = tx'[q].image
        PROVE  /\ g \in files' \ rows'
               /\ \A r \in Clients : g \notin tx'[r].doomed /\ (r # q => tx'[r].image # g)
    <3>1. g \in files' \ rows /\ g # None
      <4>1. g \in Images
        BY <2>1 DEF Pending, LimitInv, ItemInv, Addressed
      <4>2. g \in files' \ rows
        BY <1>1, <2>1 DEF KeepInv, UploadsApart, Pending
      <4> QED BY <4>1, <4>2, InventoryAssumption
    <3>2. ASSUME NEW r \in Clients PROVE g \notin tx'[r].doomed /\ (r # q => tx'[r].image # g)
      <4>1. CASE q = p
        BY <1>1, <2>1, <4>1 DEF Pending
      <4>2. CASE q # p
        BY <1>1, <2>1, <3>1, <4>2 DEF KeepInv, UploadsApart, Pending
      <4> QED BY <4>1, <4>2
    <3> QED BY <1>3, <3>1, <3>2
  <2> QED BY <2>1 DEF UploadsApart, Pending
<1>5. UploadsOwned'
  BY <1>1, <1>3 DEF KeepInv, UploadsOwned
<1>6. ASSUME Careful PROVE DoomedGo' /\ OwnedHaveFiles'
  BY <1>1, <1>3, <1>6 DEF KeepInv, DoomedGo, OwnedHaveFiles, WillGo, ImagesIn, InContainer
<1> QED BY <1>2, <1>4, <1>5, <1>6 DEF KeepInv, Careful

LEMMA ArriveKeeps ==
  ASSUME KeepInv, LimitInv', NEW p \in Clients, Arrive(p) PROVE KeepInv'
<1>1. CASE AskPatch(p)
  <2>1. PICK i \in items, request \in {"move", "dispose", "regroup"},
             to \in Containers \cup {None, Keep}, d \in Dispositions \cup {Keep},
             g \in Groups \cup {Keep} :
        /\ Ask(p, request) /\ (to # Keep) = ("move" = request)
        /\ d # Keep => "dispose" \in scenario.requests
        /\ Start(p, PatchRequest(i, to, d, g))
        /\ UNCHANGED <<itemVars, imageVars, files, placeVars>>
    BY <1>1 DEF AskPatch
  <2> DEFINE u == PatchRequest(i, to, d, g)
  <2>2. /\ u.op = "patch" /\ u.at = "begin" /\ u.to = to /\ u.disp = d /\ u.image = None
        /\ u.doomed = {} /\ tx' = [tx EXCEPT ![p] = u]
    BY <2>1 DEF PatchRequest, Start
  <2> HIDE DEF u
  <2> QED BY <2>1, <2>2, NewRequestKeeps DEF Ask, itemVars
<1>2. CASE AskAppend(p)
  <2>1. PICK i \in items, g \in Images :
        /\ g \notin rows \cup files
        /\ \A q \in Clients : tx[q].image # g /\ g \notin tx[q].doomed
        /\ Ask(p, "append") /\ files' = files \cup {g}
        /\ Start(p, ItemRequest("append", i, g))
        /\ UNCHANGED <<itemVars, imageVars, placeVars>>
    BY <1>2 DEF AskAppend
  <2> DEFINE u == ItemRequest("append", i, g)
  <2>2. /\ u.op = "append" /\ u.at = "checked" /\ u.image = g /\ u.doomed = {}
        /\ tx' = [tx EXCEPT ![p] = u]
    BY <2>1 DEF ItemRequest, Start
  <2> HIDE DEF u
  <2> QED BY <2>1, <2>2, NewRequestKeeps DEF Ask, itemVars
<1>3. CASE AskDeleteItem(p)
  <2>1. PICK i \in items :
        /\ Ask(p, "delitem") /\ Start(p, ItemRequest("delitem", i, None))
        /\ UNCHANGED <<itemVars, imageVars, files, placeVars>>
    BY <1>3 DEF AskDeleteItem
  <2> DEFINE u == ItemRequest("delitem", i, None)
  <2>2. /\ u.op = "delitem" /\ u.at = "checked" /\ u.image = None /\ u.doomed = {}
        /\ tx' = [tx EXCEPT ![p] = u]
    BY <2>1 DEF ItemRequest, Start
  <2> HIDE DEF u
  <2> QED BY <2>1, <2>2, NewRequestKeeps DEF Ask, itemVars
<1>4. CASE AskDeleteImage(p)
  <2>1. PICK i \in items, g \in rows :
        /\ Ask(p, "delimg") /\ Start(p, ItemRequest("delimg", i, g))
        /\ UNCHANGED <<itemVars, imageVars, files, placeVars>>
    BY <1>4 DEF AskDeleteImage, ImagesOf
  <2> DEFINE u == ItemRequest("delimg", i, g)
  <2>2. /\ u.op = "delimg" /\ u.at = "checked" /\ u.image = g /\ u.doomed = {}
        /\ tx' = [tx EXCEPT ![p] = u]
    BY <2>1 DEF ItemRequest, Start
  <2> HIDE DEF u
  <2> QED BY <2>1, <2>2, NewRequestKeeps DEF Ask, itemVars
<1>5. CASE AskDeleteContainer(p) \/ AskDeletePlace(p) \/ AskCreate(p) \/ AskUpdate(p)
  <2>1. PICK op \in {"delcont", "delplace", "assign"}, c \in Containers \cup {Keep},
             l \in Places \cup {None} :
        /\ Ask(p, op) /\ Start(p, PlaceRequest(op, c, l))
        /\ UNCHANGED <<itemVars, imageVars, files, placeVars>>
    <3>1. CASE AskDeleteContainer(p)
      BY <3>1 DEF AskDeleteContainer
    <3>2. CASE AskDeletePlace(p)
      BY <3>2 DEF AskDeletePlace
    <3>3. CASE AskCreate(p) \/ AskUpdate(p)
      BY <3>3 DEF AskCreate, AskUpdate, Assigns
    <3> QED BY <1>5, <3>1, <3>2, <3>3
  <2> DEFINE u == PlaceRequest(op, c, l)
  <2>2. /\ u.op = op /\ u.at = "begin" /\ u.image = None /\ u.doomed = {}
        /\ tx' = [tx EXCEPT ![p] = u]
    BY <2>1 DEF PlaceRequest, Start
  <2> HIDE DEF u
  <2> QED BY <2>1, <2>2, NewRequestKeeps DEF Ask, itemVars
<1> QED BY <1>1, <1>2, <1>3, <1>4, <1>5, Arrive(p) DEF Arrive

(* A commit, which may remove rows and add that of an upload.              *)
OfUpload(fresh, t) == fresh = {} \/ (fresh = {t.image} /\ Pending(t))

LEMMA CommitKeeps ==
  ASSUME KeepInv, LimitInv', scenario' = scenario, files' = files,
         NEW p \in Clients, NEW u, tx' = [tx EXCEPT ![p] = u], Follows(u, tx[p]),
         ~Pending(u), u.doomed \subseteq tx[p].doomed,
         NEW fresh, OfUpload(fresh, tx[p]), rows' \subseteq rows \cup fresh,
         \A g \in rows' \ fresh : owner'[g] \in {owner[g], None},
         u.op = "append" /\ u.image \in rows' => owner'[u.image] \in {u.item, None},
         Careful => StayInside(p, fresh) /\ \A g \in u.doomed \cap rows' : owner'[g] = None
  PROVE  KeepInv'
<1>1. \A q \in Clients : tx'[q] = IF q = p THEN u ELSE tx[q]
  BY DEF KeepInv, LimitInv, ItemInv, ItemsAreSound, TypeOK
<1>2. InTurn'
  BY <1>1, TurnStep
<1>3. PICK gone : gone = {}
  OBVIOUS
<1>4. Effect(fresh, gone) /\ Spares(p, fresh, gone)
  <2>1. /\ fresh \subseteq files
        /\ \A q \in Clients : fresh \cap tx[q].doomed = {}
        /\ \A q \in Clients \ {p} : tx[q].image \notin fresh
    BY DEF KeepInv, UploadsApart, OfUpload
  <2> QED BY <1>3, <2>1 DEF Effect, Spares
<1>5. UploadsApart' /\ UploadsOwned'
  BY <1>1, <1>4, UploadsStep
<1>6. ASSUME Careful PROVE DoomedGo' /\ OwnedHaveFiles'
  <2>1. \A g \in gone \cap rows' : owner'[g] = None
    BY <1>3
  <2> QED BY <1>1, <1>4, <1>6, <2>1, FilesStep
<1> QED BY <1>2, <1>5, <1>6 DEF KeepInv, Careful

(* While a container is deleted no request takes an item out of it.        *)
LEMMA PatchKeeps ==
  ASSUME KeepInv, LimitInv', NEW p \in Clients, CommitPatch(p) PROVE KeepInv'
<1> DEFINE t == tx[p]
<1>0. /\ scenario' = scenario /\ files' = files /\ UNCHANGED <<items, imageVars>> /\ Ended(p)
      /\ At(p, "patch", "locked")
  BY DEF CommitPatch, Bounds, itemVars
<1>1. tx' = [tx EXCEPT ![p] = Idle] /\ Follows(Idle, t)
      /\ Idle.doomed = {} /\ Idle.op = "idle" /\ ~Pending(Idle)
  BY <1>0 DEF Ended, Follows, Idle, Pending
<1>2. ASSUME Careful, NEW q \in Clients \ {p}, tx[q].op = "delcont" PROVE inside' = inside
  <2>1. t.to = Keep /\ t.disp = Keep
    BY <1>0, <1>2 DEF Careful, KeepInv, InTurn, At
  <2>2. /\ t.item \in items /\ t.prev = disp[t.item] /\ t.item \in Items
        /\ inside \in [Items -> Containers \cup {None}]
    BY <1>0 DEF KeepInv, LimitInv, ItemInv, LockedIsCurrent, ItemsAreSound, TypeOK, At
  <2>3. NextDisposition(p) = disp[t.item]
    BY <2>1, <2>2 DEF NextDisposition
  <2>4. disp[t.item] \notin Current => inside[t.item] = None
    BY <2>2 DEF KeepInv, LimitInv, ItemInv, ItemsAreSound, GoneItemsAreNowhere
  <2> QED BY <2>1, <2>2, <2>3, <2>4 DEF CommitPatch, itemVars
<1>3. UNCHANGED <<items, rows, owner, origin>>
  BY <1>0 DEF imageVars
<1>4. PICK fresh : fresh = {}
  OBVIOUS
<1>5. /\ OfUpload(fresh, t) /\ rows' \subseteq rows \cup fresh
      /\ \A g \in rows' \ fresh : owner'[g] \in {owner[g], None}
      /\ Careful => StayInside(p, fresh)
  BY <1>2, <1>3, <1>4 DEF OfUpload, StayInside, ImagesIn, InContainer
<1> QED BY <1>0, <1>1, <1>5, CommitKeeps

LEMMA Finished ==
  ASSUME NEW t \in Transactions, NEW u, u = [t EXCEPT !.at = "done"]
  PROVE  /\ u.op = t.op /\ u.item = t.item /\ u.image = t.image /\ u.doomed = t.doomed
         /\ u.at = "done" /\ Follows(u, t) /\ ~Pending(u)
BY DEF Transactions, Follows, Pending

LEMMA AppendKeeps ==
  ASSUME KeepInv, LimitInv', NEW p \in Clients, CommitAppend(p) PROVE KeepInv'
<1> DEFINE t == tx[p]
           g == t.image
<1>0. /\ t \in Transactions /\ t.op = "append" /\ t.at = "locked" /\ Pending(t)
      /\ scenario' = scenario /\ files' = files
      /\ UNCHANGED <<items, inside, origin>> /\ rows' = rows \cup {g}
      /\ owner' = [owner EXCEPT ![g] = t.item]
      /\ tx' = [tx EXCEPT ![p] = [t EXCEPT !.at = "done"]]
      /\ owner \in [Images -> Items \cup {None}] /\ g \in Images
  BY DEF CommitAppend, At, Pending, Move, Bounds, itemVars,
         KeepInv, LimitInv, ItemInv, ItemsAreSound, TypeOK, Addressed
<1>1. PICK u : u = [t EXCEPT !.at = "done"]
  OBVIOUS
<1>2. /\ u.op = t.op /\ u.item = t.item /\ u.image = g /\ u.doomed = t.doomed
      /\ Follows(u, t) /\ ~Pending(u)
  BY <1>0, <1>1, Finished
<1>3. g \in files /\ g \notin t.doomed
  BY <1>0 DEF KeepInv, UploadsApart
<1>4. \A h \in rows' \ {g} : h \in rows /\ owner'[h] = owner[h] /\ owner'[g] = t.item
  BY <1>0 DEF KeepInv, LimitInv, ItemInv, ItemsAreSound, TypeOK
<1>5. owner'[g] = t.item
  BY <1>0
<1>6. PICK fresh : fresh = {g}
  OBVIOUS
<1>7. ASSUME Careful
      PROVE  StayInside(p, fresh) /\ \A h \in u.doomed \cap rows' : owner'[h] = None
  <2>1. \A h \in t.doomed \cap rows : owner[h] = None
    BY <1>0, <1>7 DEF KeepInv, DoomedGo, WillGo
  <2>2. StayInside(p, fresh)
    BY <1>0, <1>4, <1>6 DEF StayInside, ImagesIn, InContainer
  <2> QED BY <1>2, <1>3, <1>4, <2>1, <2>2
<1>8. /\ tx' = [tx EXCEPT ![p] = u] /\ OfUpload(fresh, t) /\ rows' \subseteq rows \cup fresh
      /\ \A h \in rows' \ fresh : owner'[h] \in {owner[h], None}
      /\ u.op = "append" /\ u.image \in rows' => owner'[u.image] \in {u.item, None}
  BY <1>0, <1>1, <1>2, <1>4, <1>5, <1>6 DEF OfUpload
<1> HIDE DEF g
<1> QED BY <1>0, <1>2, <1>7, <1>8, CommitKeeps

LEMMA DeleteImageKeeps ==
  ASSUME KeepInv, LimitInv', NEW p \in Clients, CommitDeleteImage(p) PROVE KeepInv'
<1> DEFINE t == tx[p]
<1>0. /\ t \in Transactions /\ t.op = "delimg" /\ t.at = "locked"
      /\ scenario' = scenario /\ files' = files
      /\ UNCHANGED <<items, inside>> /\ rows' = rows \ t.doomed
      /\ owner' = [owner EXCEPT ![t.image] = None]
      /\ origin' = [origin EXCEPT ![t.image] = None]
      /\ tx' = [tx EXCEPT ![p] = [t EXCEPT !.at = "done"]]
      /\ owner \in [Images -> Items \cup {None}] /\ origin \in [Images -> Containers \cup {None}]
  BY DEF CommitDeleteImage, At, Move, Bounds, itemVars,
         KeepInv, LimitInv, ItemInv, ItemsAreSound, TypeOK
<1>1. PICK u : u = [t EXCEPT !.at = "done"]
  OBVIOUS
<1>2. /\ u.op = t.op /\ u.item = t.item /\ u.image = t.image /\ u.doomed = t.doomed
      /\ Follows(u, t) /\ ~Pending(u)
  BY <1>0, <1>1, Finished
<1>3. \A g \in rows' : g \in rows /\ owner'[g] \in {owner[g], None}
  BY <1>0 DEF KeepInv, LimitInv, ItemInv, ItemsAreSound, TypeOK
<1>4. PICK fresh : fresh = {}
  OBVIOUS
<1>5. /\ OfUpload(fresh, t) /\ rows' \subseteq rows \cup fresh /\ tx' = [tx EXCEPT ![p] = u]
      /\ \A g \in rows' \ fresh : owner'[g] \in {owner[g], None}
      /\ \A g \in u.doomed \cap rows' : owner'[g] = None
  BY <1>0, <1>1, <1>2, <1>3, <1>4 DEF OfUpload
<1>6. StayInside(p, fresh)
  BY <1>0, <1>3 DEF StayInside, ImagesIn, InContainer
<1> QED BY <1>0, <1>2, <1>5, <1>6, CommitKeeps

LEMMA DeleteItemKeeps ==
  ASSUME KeepInv, LimitInv', NEW p \in Clients, CommitDeleteItem(p) PROVE KeepInv'
<1> DEFINE t == tx[p]
           i == t.item
<1>0. /\ t \in Transactions /\ t.op = "delitem" /\ t.at = "locked" /\ i \in items
      /\ scenario' = scenario /\ files' = files /\ items' = items \ {i}
      /\ rows' = rows \ ImagesOf(i)
      /\ owner' = [g \in Images |->
                     IF g \in ImagesOf(i) \/ owner[g] \in {i} THEN None ELSE owner[g]]
      /\ origin' = [g \in Images |->
                      IF g \in ImagesOf(i) \/ origin[g] = None THEN None ELSE origin[g]]
      /\ inside' = [inside EXCEPT ![i] = None]
      /\ tx' = [tx EXCEPT ![p] = [t EXCEPT !.at = "done"]]
  BY DEF CommitDeleteItem, Drop, At, Move, Bounds,
         KeepInv, LimitInv, ItemInv, ItemsAreSound, TypeOK, LockedIsCurrent
<1>1. /\ items \subseteq Items /\ rows \subseteq Images
      /\ inside \in [Items -> Containers \cup {None}]
  BY DEF KeepInv, LimitInv, ItemInv, ItemsAreSound, TypeOK
<1>2. PICK u : u = [t EXCEPT !.at = "done"]
  OBVIOUS
<1>3. /\ u.op = t.op /\ u.item = t.item /\ u.image = t.image /\ u.doomed = t.doomed
      /\ Follows(u, t) /\ ~Pending(u)
  BY <1>0, <1>2, Finished
<1>4. \A g \in rows' : g \in rows /\ owner[g] # i /\ owner'[g] = owner[g]
  BY <1>0, <1>1 DEF ImagesOf
<1>5. PICK fresh : fresh = {}
  OBVIOUS
<1>6. /\ OfUpload(fresh, t) /\ rows' \subseteq rows \cup fresh /\ tx' = [tx EXCEPT ![p] = u]
      /\ \A g \in rows' \ fresh : owner'[g] \in {owner[g], None}
  BY <1>0, <1>2, <1>4, <1>5 DEF OfUpload
<1>7. StayInside(p, fresh)
  <2>1. ASSUME NEW c \in Containers, NEW g \in rows', g \in ImagesIn(c) PROVE g \in ImagesIn(c)'
    <3>1. CASE owner[g] \in InContainer(c)
      BY <1>0, <1>1, <1>4, <2>1, <3>1 DEF InContainer, ImagesIn
    <3>2. CASE origin[g] = c
      <4>1. origin'[g] = c
        BY <1>0, <1>1, <1>4, <3>2, InventoryAssumption
      <4> QED BY <4>1, <2>1 DEF ImagesIn
    <3> QED BY <2>1, <3>1, <3>2 DEF ImagesIn
  <2> QED BY <2>1 DEF StayInside
<1>8. Careful => \A g \in u.doomed \cap rows' : owner'[g] = None
  BY <1>0, <1>3, <1>4 DEF KeepInv, DoomedGo, WillGo
<1> HIDE DEF t, i
<1> QED BY <1>0, <1>3, <1>6, <1>7, <1>8, CommitKeeps DEF t

(* A container is deleted by one request at a time.                        *)
LEMMA DeleteContainerKeeps ==
  ASSUME KeepInv, LimitInv', NEW p \in Clients, DeleteContainerRows(p) PROVE KeepInv'
<1> DEFINE t == tx[p]
<1>0. /\ t \in Transactions /\ t.op = "delcont" /\ t.at = "rows"
      /\ scenario' = scenario /\ files' = files
      /\ rows' = rows \ (t.ids \cap Images) /\ rows \subseteq Images
      /\ tx' = [tx EXCEPT ![p] = [t EXCEPT !.at = "done"]]
  BY DEF DeleteContainerRows, Drop, At, Move, Bounds,
         KeepInv, LimitInv, ItemInv, ItemsAreSound, TypeOK
<1>1. PICK u : u = [t EXCEPT !.at = "done"]
  OBVIOUS
<1>2. /\ u.op = t.op /\ u.item = t.item /\ u.image = t.image /\ u.doomed = t.doomed
      /\ Follows(u, t) /\ ~Pending(u)
  BY <1>0, <1>1, Finished
<1>3. \A g \in rows' : g \in rows /\ g \notin t.ids /\ owner'[g] \in {owner[g], None}
  BY <1>0 DEF DeleteContainerRows, Drop
<1>4. PICK fresh : fresh = {}
  OBVIOUS
<1>5. /\ OfUpload(fresh, t) /\ rows' \subseteq rows \cup fresh /\ tx' = [tx EXCEPT ![p] = u]
      /\ \A g \in rows' \ fresh : owner'[g] \in {owner[g], None}
  BY <1>0, <1>1, <1>3, <1>4 DEF OfUpload
<1>6. Careful => StayInside(p, fresh)
  <2>1. Careful => \A q \in Clients \ {p} : tx[q].op # "delcont"
    BY <1>0 DEF Careful, KeepInv, InTurn
  <2> QED BY <2>1 DEF StayInside
<1>7. Careful => \A g \in u.doomed \cap rows' : owner'[g] = None
  BY <1>0, <1>2, <1>3 DEF KeepInv, DoomedGo, WillGo
<1> HIDE DEF t
<1> QED BY <1>0, <1>2, <1>5, <1>6, <1>7, CommitKeeps DEF t

LEMMA CommitStepKeeps ==
  ASSUME KeepInv, LimitInv', NEW p \in Clients, Commit(p) PROVE KeepInv'
<1>1. CASE CommitCreate(p) \/ CommitUpdate(p) \/ DeleteLocation(p) \/ DeleteContainerType(p)
             \/ DeleteInventoryGroup(p)
  <2>1. /\ scenario' = scenario /\ UNCHANGED <<items, inside, imageVars>> /\ files' = files \ {}
        /\ Ended(p)
    BY <1>1 DEF CommitCreate, CommitUpdate, DeleteLocation, DeleteContainerType,
                DeleteInventoryGroup, DeletePlace, Bounds, itemVars
  <2>2. PICK gone : gone = {}
    OBVIOUS
  <2> QED BY <2>1, <2>2, EndKeeps
<1>2. CASE ~(CommitCreate(p) \/ CommitUpdate(p) \/ DeleteLocation(p) \/ DeleteContainerType(p)
               \/ DeleteInventoryGroup(p))
  BY <1>2, Commit(p), PatchKeeps, AppendKeeps, GiveUpKeeps, DeleteImageKeeps, DeleteItemKeeps,
     DeleteContainerKeeps DEF Commit
<1> QED BY <1>1, <1>2

(* A new item, and steps on other rows.                                    *)
LEMMA NewItemKeeps ==
  ASSUME KeepInv, LimitInv', ApproveUploadGroup PROVE KeepInv'
<1>0. PICK i \in Items, S \in SUBSET Images, c \in Containers \cup {None} :
        \E l : Approve(i, S, c, l)
  BY DEF ApproveUploadGroup
<1>1. /\ i \notin items /\ S \cap (rows \cup files) = {}
      /\ \A p \in Clients : tx[p].image \notin S /\ S \cap tx[p].doomed = {}
      /\ items' = items \cup {i} /\ inside' = [inside EXCEPT ![i] = c]
      /\ rows' = rows \cup S /\ files' = files \cup S
      /\ owner' = [g \in Images |-> IF g \in S THEN i ELSE owner[g]]
      /\ origin' = [g \in Images |-> IF g \in S THEN c ELSE origin[g]]
      /\ tx' = tx /\ scenario' = scenario
  BY <1>0 DEF Approve, Bounds
<1>2. /\ owner \in [Images -> Items \cup {None}] /\ origin \in [Images -> Containers \cup {None}]
      /\ inside \in [Items -> Containers \cup {None}] /\ rows \subseteq Images
      /\ items \subseteq Items
  BY DEF KeepInv, LimitInv, ItemInv, ItemsAreSound, TypeOK
<1>3. /\ \A h \in rows : owner'[h] = owner[h] /\ origin'[h] = origin[h]
      /\ \A j \in items : inside'[j] = inside[j]
  BY <1>1, <1>2
<1>4. InTurn' /\ UploadsApart' /\ UploadsOwned'
  BY <1>1, <1>3 DEF KeepInv, InTurn, UploadsApart, UploadsOwned
<1>5. ASSUME Careful PROVE DoomedGo' /\ OwnedHaveFiles'
  <2>1. OwnedHaveFiles'
    BY <1>1, <1>3, <1>5 DEF KeepInv, OwnedHaveFiles
  <2>2. ASSUME NEW p \in Clients, NEW h \in tx[p].doomed \cap rows', owner'[h] # None
        PROVE  WillGo(tx[p], h)'
    <3>1. h \in rows /\ WillGo(tx[p], h) /\ owner'[h] = owner[h] /\ origin'[h] = origin[h]
      BY <1>1, <1>3, <1>5, <2>2 DEF KeepInv, DoomedGo
    <3>2. tx'[p] = tx[p]
      BY <1>1
    <3>3. \A k : h \in ImagesIn(k) =>
            h \in rows' /\ \/ owner'[h] \in items' /\ inside'[owner'[h]] = k
                           \/ origin'[h] = k
      BY <1>1, <1>3, <3>1 DEF ImagesIn, InContainer
    <3> QED BY <3>1, <3>2, <3>3 DEF WillGo, ImagesIn, InContainer
  <2> QED BY <1>1, <2>1, <2>2 DEF DoomedGo
<1> QED BY <1>1, <1>4, <1>5 DEF KeepInv, Careful

LEMMA OtherRowsKeep ==
  ASSUME KeepInv, LimitInv', UNCHANGED <<items, inside, imageVars, files, tx, scenario>>
  PROVE  KeepInv'
<1>1. UNCHANGED <<items, inside, rows, owner, origin, files, tx, scenario>>
  BY DEF imageVars
<1>2. InTurn' /\ UploadsApart' /\ UploadsOwned'
  BY <1>1 DEF KeepInv, InTurn, UploadsApart, UploadsOwned
<1>3. Careful => DoomedGo' /\ OwnedHaveFiles'
  BY <1>1 DEF KeepInv, DoomedGo, OwnedHaveFiles, WillGo, ImagesIn, InContainer
<1> QED BY <1>1, <1>2, <1>3 DEF KeepInv, Careful

LEMMA KeepNext == KeepInv /\ [ListingNext]_allVars => KeepInv'
<1> SUFFICES ASSUME KeepInv, [ListingNext]_allVars PROVE KeepInv'
  OBVIOUS
<1>1. LimitInv'
  BY LimitListing DEF KeepInv
<1>2. CASE Next
  <2>1. CASE ApproveUploadGroup
    BY <1>1, <2>1, NewItemKeeps
  <2>2. CASE Archive
    BY <1>1, <2>2, OtherRowsKeep DEF Archive, itemVars
  <2>3. ASSUME NEW p \in Clients,
               Arrive(p) \/ Check(p) \/ LockItem(p) \/ Commit(p) \/ Answer(p) \/ Abandon(p)
        PROVE  KeepInv'
    BY <1>1, <2>3, ArriveKeeps, CheckKeeps, LockKeeps, CommitStepKeeps, AnswerKeeps, GiveUpKeeps
  <2> QED BY <1>2, <2>1, <2>2, <2>3 DEF Next
<1>3. CASE ~Next
  <2>1. UNCHANGED <<items, inside, imageVars, files, tx, scenario>>
    BY <1>3, ListingStep DEF allVars, vars, itemVars
  <2> QED BY <1>1, <2>1, OtherRowsKeep
<1> QED BY <1>2, <1>3

LEMMA KeepInit == ListingInit => KeepInv
<1> SUFFICES ASSUME ListingInit PROVE KeepInv
  OBVIOUS
<1>1. Init /\ LimitInv /\ rows = {} /\ \A p \in Clients : tx[p] = Idle
  BY LimitInit DEF ListingInit, Init
<1>2. InTurn /\ UploadsApart /\ UploadsOwned /\ DoomedGo /\ OwnedHaveFiles
  BY <1>1 DEF InTurn, UploadsApart, UploadsOwned, DoomedGo, OwnedHaveFiles, Pending, Idle
<1> QED BY <1>1, <1>2 DEF KeepInv

(* ItemsKeepFiles holds of any number of requests, items, images and       *)
(* containers: what a request removes after its commit belongs to no item, *)
(* because its rows went in the commit or no other request could take them *)
(* out of its reach.                                                       *)
THEOREM ImagesStay == ListingSpec => []ItemsKeepFiles
<1>1. KeepInv => ItemsKeepFiles
  <2> SUFFICES ASSUME KeepInv, Careful, NEW i \in items, NEW g \in ImagesOf(i) PROVE g \in files
    BY DEF ItemsKeepFiles, Careful
  <2>1. i # None
    BY InventoryAssumption DEF KeepInv, LimitInv, ItemInv, ItemsAreSound, TypeOK
  <2> QED BY <2>1 DEF KeepInv, OwnedHaveFiles, ImagesOf
<1> QED BY <1>1, KeepInit, KeepNext, PTL DEF ListingSpec
-----------------------------------------------------------------------------
(* What a deletion of a location or type has found unused is unused until  *)
(* it deletes, when requests come one after the other.                     *)
FoundUnused ==
  \A p \in Clients : At(p, "delplace", "checked") /\ tx[p].place \notin Groups =>
    Users(tx[p].place) = {}

UnusedInv == KeepInv /\ (scenario.alone = "all" => FoundUnused)

(* A request that goes on has begun.                                       *)
LEMMA OnlyBusyMove ==
  ASSUME NEW p \in Clients,
         Check(p) \/ LockItem(p) \/ Commit(p) \/ Answer(p) \/ Abandon(p)
  PROVE  tx[p].op # "idle"
<1>1. CASE Check(p)
  BY <1>1 DEF Check, CheckPatch, ReadPaths, SelectRows, CheckAssign, CheckLocation,
              CheckContainerType, CheckInventoryGroup, CheckUnused, At
<1>2. CASE Commit(p)
  BY <1>2 DEF Commit, CommitPatch, CommitAppend, FailAppend, CommitDeleteImage,
              CommitDeleteItem, DeleteContainerRows, CommitCreate, CommitUpdate,
              DeleteLocation, DeleteContainerType, DeleteInventoryGroup, DeletePlace, At
<1>3. CASE LockItem(p) \/ Answer(p) \/ Abandon(p)
  BY <1>3 DEF LockItem, Answer, AnswerUpload, AnswerDeleteImage, DeleteFiles, Done, Abandon
<1> QED BY <1>1, <1>2, <1>3

(* A request changes what it remembers, and no other request does.         *)
LEMMA OwnStep ==
  ASSUME TypeOK, NEW p \in Clients,
         Arrive(p) \/ Check(p) \/ LockItem(p) \/ Commit(p) \/ Answer(p) \/ Abandon(p)
  PROVE  scenario' = scenario /\ \A q \in Clients \ {p} : tx'[q] = tx[q]
<1> USE DEF Move, Ended, Start, Bounds, Ask
<1>1. CASE Arrive(p)
  BY <1>1 DEF TypeOK, Arrive, AskPatch, AskAppend, AskDeleteItem, AskDeleteImage,
              AskDeleteContainer, AskCreate, AskUpdate, Assigns, AskDeletePlace
<1>2. CASE Check(p)
  BY <1>2 DEF TypeOK, Check, CheckPatch, ReadPaths, SelectRows, CheckAssign, CheckLocation,
              CheckContainerType, CheckInventoryGroup, CheckUnused
<1>3. CASE Commit(p)
  BY <1>3 DEF TypeOK, Commit, CommitPatch, CommitAppend, FailAppend, CommitDeleteImage,
              CommitDeleteItem, DeleteContainerRows, CommitCreate, CommitUpdate,
              DeleteLocation, DeleteContainerType, DeleteInventoryGroup, DeletePlace
<1>4. CASE LockItem(p) \/ Answer(p) \/ Abandon(p)
  BY <1>4 DEF TypeOK, LockItem, Answer, AnswerUpload, AnswerDeleteImage, DeleteFiles, Done,
              Abandon
<1> QED BY <1>1, <1>2, <1>3, <1>4

(* A request gets to the deletion only from the check.                     *)
LEMMA OwnCheck ==
  ASSUME TypeOK, NEW p \in Clients, At(p, "delplace", "checked")',
         Arrive(p) \/ Check(p) \/ LockItem(p) \/ Commit(p) \/ Answer(p) \/ Abandon(p)
  PROVE  /\ UNCHANGED <<items, group, refs>> /\ tx'[p].place = tx[p].place
         /\ Users(tx[p].place) = {}
<1> USE DEF Move, Ended, Start, At, Idle
<1>0. p \in DOMAIN tx /\ tx[p] \in Transactions
  BY DEF TypeOK
<1>1. ~Ended(p) /\ \A at : Move(p, at) => at = "checked" /\ tx[p].op = "delplace"
  BY <1>0 DEF Transactions
<1>2. ~Arrive(p)
  BY <1>0 DEF Arrive, AskPatch, AskAppend, AskDeleteItem, AskDeleteImage, AskDeleteContainer,
              AskCreate, AskUpdate, Assigns, AskDeletePlace, ItemRequest, PlaceRequest,
              PatchRequest
<1> HIDE DEF Move, Ended
<1>3. ~LockItem(p)
  BY <1>0, <1>1 DEF LockItem, Transactions
<1>4. ~Answer(p) /\ ~Abandon(p)
  BY <1>1 DEF Answer, AnswerUpload, AnswerDeleteImage, DeleteFiles, Done, Abandon
<1>5. ~Commit(p)
  BY <1>1 DEF Commit, CommitPatch, CommitAppend, FailAppend, CommitDeleteImage,
              CommitDeleteItem, DeleteContainerRows, CommitCreate, CommitUpdate,
              DeleteLocation, DeleteContainerType, DeleteInventoryGroup, DeletePlace
<1>6. CASE Check(p)
  <2>1. ~(CheckPatch(p) \/ ReadPaths(p) \/ SelectRows(p) \/ CheckAssign(p))
    <3>1. ~ReadPaths(p) /\ ~SelectRows(p)
      BY <1>0, <1>1 DEF ReadPaths, SelectRows, Transactions
    <3> QED BY <3>1, <1>1 DEF CheckPatch, CheckAssign
  <2>2. \E kind \in Kinds : CheckUnused(p, kind)
    BY <1>6, <2>1 DEF Check, CheckLocation, CheckContainerType, CheckInventoryGroup, Kinds
  <2> QED BY <1>0, <1>1, <2>2 DEF CheckUnused, Move, itemVars, placeVars, Transactions
<1> QED BY <1>2, <1>3, <1>4, <1>5, <1>6

(* An approval and an archived place leave the references of containers.   *)
LEMMA OthersUse ==
  ASSUME ApproveUploadGroup \/ Archive, NEW l \in Places \ Groups
  PROVE  Users(l)' = Users(l)
BY DEF ApproveUploadGroup, Approve, Archive, placeVars, Users, Groups

LEMMA FoundRests ==
  ASSUME FoundUnused, UNCHANGED <<items, group, refs, tx>>
  PROVE  FoundUnused'
BY DEF FoundUnused, At, Users

LEMMA UnusedNext == UnusedInv /\ [ListingNext]_allVars => UnusedInv'
<1> SUFFICES ASSUME UnusedInv, [ListingNext]_allVars PROVE UnusedInv'
  OBVIOUS
<1>1. KeepInv' /\ TypeOK
  BY KeepNext DEF UnusedInv, KeepInv, LimitInv, ItemInv, ItemsAreSound
<1> SUFFICES ASSUME scenario'.alone = "all" PROVE FoundUnused'
  BY <1>1 DEF UnusedInv
<1>2. CASE ApproveUploadGroup \/ Archive
  <2>1. UNCHANGED <<tx, scenario>>
    BY <1>2 DEF ApproveUploadGroup, Approve, Archive, Bounds
  <2>2. \A p \in Clients : At(p, "delplace", "checked") => tx[p].place \in Places
    BY DEF UnusedInv, KeepInv, LimitInv, ItemInv, Addressed, At
  <2> QED BY <1>1, <1>2, <2>1, <2>2, OthersUse DEF UnusedInv, FoundUnused, At
<1>3. ASSUME NEW p \in Clients,
             Arrive(p) \/ Check(p) \/ LockItem(p) \/ Commit(p) \/ Answer(p) \/ Abandon(p)
      PROVE  FoundUnused'
  <2>1. scenario' = scenario /\ \A q \in Clients \ {p} : tx'[q] = tx[q]
    BY <1>1, <1>3, OwnStep
  <2>2. \A q \in Clients \ {p} : tx[q].op = "idle"
    <3>1. CASE Arrive(p)
      BY <2>1, <3>1 DEF Arrive, AskPatch, AskAppend, AskDeleteItem, AskDeleteImage,
                        AskDeleteContainer, AskCreate, AskUpdate, Assigns, AskDeletePlace, Ask
    <3>2. CASE tx[p].op # "idle"
      BY <2>1, <3>2 DEF UnusedInv, KeepInv, InTurn
    <3> QED BY <1>3, <3>1, <3>2, OnlyBusyMove
  <2>3. \A q \in Clients : At(q, "delplace", "checked")' => q = p
    BY <2>1, <2>2 DEF At
  <2>4. ASSUME At(p, "delplace", "checked")'
        PROVE  Users(tx[p].place)' = {}
    <3>1. /\ UNCHANGED <<items, group, refs>> /\ tx'[p].place = tx[p].place
          /\ Users(tx[p].place) = {}
      BY <1>1, <1>3, <2>4, OwnCheck
    <3> QED BY <3>1 DEF Users
  <2> QED BY <2>3, <2>4 DEF FoundUnused
<1>4. CASE ~Next
  <2>1. UNCHANGED <<itemVars, placeVars, tx, scenario>>
    BY <1>4, ListingStep DEF allVars, vars
  <2> QED BY <2>1, FoundRests DEF UnusedInv, itemVars, placeVars
<1> QED BY <1>2, <1>3, <1>4 DEF Next

(* A place goes only with the deletion that has checked it.                *)
LEMMA GoneByDeletion ==
  ASSUME TypeOK, [ListingNext]_allVars, NEW l \in Places, place[l] # "gone", place'[l] = "gone"
  PROVE  \E p \in Clients : At(p, "delplace", "checked") /\ tx[p].place = l
<1>1. place' # place
  OBVIOUS
<1>2. Next
  BY <1>1, ListingStep DEF allVars, vars, placeVars
<1>3. ~ApproveUploadGroup
  BY <1>1 DEF ApproveUploadGroup, Approve, placeVars
<1>4. ~Archive
  BY DEF TypeOK, Archive, ArchiveContainer, ArchivePlace, ArchiveLocation,
         ArchiveContainerType, ArchiveInventoryGroup, Toggled
<1>5. ASSUME NEW p \in Clients, Arrive(p) \/ Check(p) \/ LockItem(p) \/ Answer(p) \/ Abandon(p)
      PROVE  FALSE
  <2>1. CASE Arrive(p)
    BY <1>1, <2>1 DEF Arrive, AskPatch, AskAppend, AskDeleteItem, AskDeleteImage,
       AskDeleteContainer, AskCreate, AskUpdate, Assigns, AskDeletePlace, placeVars
  <2>2. CASE Check(p)
    BY <1>1, <2>2 DEF Check, CheckPatch, ReadPaths, SelectRows, CheckAssign, CheckLocation,
       CheckContainerType, CheckInventoryGroup, CheckUnused, placeVars
  <2>3. CASE LockItem(p) \/ Answer(p) \/ Abandon(p)
    BY <1>1, <2>3 DEF LockItem, Answer, AnswerUpload, AnswerDeleteImage, DeleteFiles, Done,
       Abandon, placeVars
  <2> QED BY <1>5, <2>1, <2>2, <2>3
<1>6. PICK p \in Clients : Commit(p)
  BY <1>2, <1>3, <1>4, <1>5 DEF Next
<1>7. PICK kind \in Kinds : DeletePlace(p, kind)
  BY <1>1, <1>6 DEF Commit, CommitPatch, CommitAppend, FailAppend, CommitDeleteImage,
     CommitDeleteItem, DeleteContainerRows, CommitCreate, CommitUpdate,
     DeleteLocation, DeleteContainerType, DeleteInventoryGroup, placeVars, Kinds
<1> QED BY <1>7 DEF DeletePlace, TypeOK

(* UsedPlaceStays, for locations and types, holds when requests come one   *)
(* after the other: no container refers to one that is deleted, since the  *)
(* count of containers is still right at the deletion.  What breaks it is  *)
(* a container that is created or updated in between.  References that no  *)
(* deletion counts, those of items and upload sessions, are not meant; and *)
(* groups are left out, since an approval may use one at any time.         *)
THEOREM UnusedPlacesGo ==
  ListingSpec /\ [](scenario.alone = "all") =>
    [][\A l \in Places \ Groups : place[l] # "gone" /\ place'[l] = "gone" => Users(l) = {}]_vars
<1>1. ListingInit => UnusedInv
  BY KeepInit DEF UnusedInv, FoundUnused, ListingInit, Init, Idle, At
<1>2. UnusedInv /\ [ListingNext]_allVars /\ scenario.alone = "all" =>
        [\A l \in Places \ Groups :
           place[l] # "gone" /\ place'[l] = "gone" => Users(l) = {}]_vars
  <2>1. UnusedInv => TypeOK
    BY DEF UnusedInv, KeepInv, LimitInv, ItemInv, ItemsAreSound
  <2> QED BY <2>1, GoneByDeletion DEF UnusedInv, FoundUnused
<1> QED BY <1>1, <1>2, UnusedNext, PTL DEF ListingSpec
=============================================================================
