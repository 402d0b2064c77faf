----------------------------- MODULE MenuCatalogue -----------------------------
(***************************************************************************)
(* The menus of one branch.  An administrator builds a DRAFT, publishes it *)
(* (which archives the one that was published) and cannot edit it any      *)
(* more; guests order from the default menu of the branch.  Every          *)
(* operation reads the menu first and writes later, and the picture of an  *)
(* item lives in a row and in an object of the storage service.            *)
(*                                                                         *)
(* Publishing is one transaction of several statements: the rows it has    *)
(* archived stay locked until it commits, and a statement sees what was    *)
(* committed when it began.                                                *)
(***************************************************************************)
EXTENDS Naturals, FiniteSets

CONSTANTS Menus,        \* ids of the menus of the branch
          Categories,   \* the categories a menu may have, with one item each
          MenuRequests, \* concurrent requests of the administrators
          NoMenu

ASSUME NoMenuAssumption == NoMenu \notin Menus

VARIABLES
    menu,        \* the status of each menu
    category,    \* the categories of each menu
    item,        \* the item of each category
    image,       \* the row and the stored object of the picture of each item
    defaultMenu, \* the menu the settings of the branch name
    menuReq,     \* the requests under way, with what they read
    menuRaced,   \* ghost: menus that were edited and published at once
    imageRaced   \* ghost: items whose picture two requests changed at once

menuVars == <<menu, category, item, image, defaultMenu, menuReq, menuRaced, imageRaced>>

MenuStatuses == {"NONE", "DRAFT", "PUBLISHED", "ARCHIVED"}
CategoryStatuses == {"NONE", "ACTIVE", "INACTIVE"}
ItemStatuses == {"NONE", "AVAILABLE", "UNAVAILABLE"}
Slots == Menus \X Categories

MenuSteps == {"idle", "editCategory", "editItem", "upload", "stored", "unlink", "unstore",
              "publish", "scanned", "archived"}
MenuRequestRecords == [step : MenuSteps, of : Menus \cup {NoMenu},
                       at : Categories \cup {NoMenu},
                       to : CategoryStatuses \cup ItemStatuses, others : SUBSET Menus]

IdleMenuRequest == [step |-> "idle", of |-> NoMenu, at |-> NoMenu, to |-> "NONE", others |-> {}]

MenusInit ==
    /\ menu = [m \in Menus |-> "NONE"]
    /\ category = [x \in Slots |-> "NONE"]
    /\ item = [x \in Slots |-> "NONE"]
    /\ image = [x \in Slots |-> [row |-> FALSE, object |-> FALSE]]
    /\ defaultMenu = NoMenu
    /\ menuReq = [q \in MenuRequests |-> IdleMenuRequest]
    /\ menuRaced = {}
    /\ imageRaced = {}

-----------------------------------------------------------------------------
(* Helpers                                                                 *)

Content == <<category, item>>

MenuReqAt(q, step) == menuReq[q].step = step
MenuReqEnds(q) == menuReq' = [menuReq EXCEPT ![q] = IdleMenuRequest]
SlotOf(q) == <<menuReq[q].of, menuReq[q].at>>
Serving(m, steps) == {q \in MenuRequests : menuReq[q].of = m /\ menuReq[q].step \in steps}

EditSteps == {"editCategory", "editItem"}
PublishSteps == {"publish", "scanned", "archived"}
ImageSteps == {"upload", "stored", "unlink", "unstore"}

\* A picture operation is under way for the item.
Picturing(x) == {q \in Serving(x[1], ImageSteps) : menuReq[q].at = x[2]}

\* Rows of menus that a transaction has written and not yet committed.
MenuLocked(n, q) == \E o \in MenuRequests \ {q} : MenuReqAt(o, "archived") /\ n \in menuReq[o].others

PublishableContent(m) ==
    \E c \in Categories : category[<<m, c>>] = "ACTIVE" /\ item[<<m, c>>] # "NONE"

-----------------------------------------------------------------------------
(* Building a menu                                                         *)

CreateMenu(m) ==
    /\ menu[m] = "NONE"
    /\ menu' = [menu EXCEPT ![m] = "DRAFT"]
    /\ UNCHANGED <<Content, image, defaultMenu, menuReq, menuRaced, imageRaced>>

\* Creating and updating categories and items all ask for a DRAFT and then write.
StartEdit(q, m, c, step, to) ==
    /\ MenuReqAt(q, "idle")
    /\ menu[m] = "DRAFT"
    /\ menuReq' = [menuReq EXCEPT ![q] =
           [IdleMenuRequest EXCEPT !.step = step, !.of = m, !.at = c, !.to = to]]
    /\ menuRaced' = IF Serving(m, PublishSteps) # {} THEN menuRaced \cup {m} ELSE menuRaced
    /\ UNCHANGED <<menu, Content, image, defaultMenu, imageRaced>>

CreateCategory(q, m, c) ==
    category[<<m, c>>] = "NONE" /\ StartEdit(q, m, c, "editCategory", "ACTIVE")

UpdateCategory(q, m, c) ==
    /\ category[<<m, c>>] # "NONE"
    /\ \E status \in {"ACTIVE", "INACTIVE"} : StartEdit(q, m, c, "editCategory", status)

\* The station of the item has to be active when it is looked up.
CreateItem(q, m, c) ==
    /\ category[<<m, c>>] # "NONE" /\ item[<<m, c>>] = "NONE"
    /\ \E status \in {"AVAILABLE", "UNAVAILABLE"} : StartEdit(q, m, c, "editItem", status)

UpdateItem(q, m, c) ==
    /\ item[<<m, c>>] # "NONE"
    /\ \E status \in {"AVAILABLE", "UNAVAILABLE"} : StartEdit(q, m, c, "editItem", status)

\* Written whatever the menu has become.
CommitCategory(q) ==
    /\ MenuReqAt(q, "editCategory")
    /\ category' = [category EXCEPT ![SlotOf(q)] = menuReq[q].to]
    /\ MenuReqEnds(q)
    /\ UNCHANGED <<menu, item, image, defaultMenu, menuRaced, imageRaced>>

CommitItem(q) ==
    /\ MenuReqAt(q, "editItem")
    /\ item' = [item EXCEPT ![SlotOf(q)] = menuReq[q].to]
    /\ MenuReqEnds(q)
    /\ UNCHANGED <<menu, category, image, defaultMenu, menuRaced, imageRaced>>

-----------------------------------------------------------------------------
(* Publishing it                                                           *)

\* The DRAFT and its content are checked before the transaction.
PublishMenu(q, m) ==
    /\ MenuReqAt(q, "idle")
    /\ menu[m] = "DRAFT"
    /\ PublishableContent(m)
    /\ menuReq' = [menuReq EXCEPT ![q] =
           [IdleMenuRequest EXCEPT !.step = "publish", !.of = m]]
    /\ menuRaced' = IF Serving(m, EditSteps) # {} THEN menuRaced \cup {m} ELSE menuRaced
    /\ UNCHANGED <<menu, Content, image, defaultMenu, imageRaced>>

\* The statement that archives begins: the rows that are PUBLISHED now.
ScanPublished(q) ==
    LET m == menuReq[q].of IN
    /\ MenuReqAt(q, "publish")
    /\ menuReq' = [menuReq EXCEPT ![q].step = "scanned",
                       ![q].others = {n \in Menus \ {m} : menu[n] = "PUBLISHED"}]
    /\ UNCHANGED <<menu, Content, image, defaultMenu, menuRaced, imageRaced>>

\* It waits for rows another transaction holds and looks at each one again.
ArchiveOthers(q) ==
    /\ MenuReqAt(q, "scanned")
    /\ \A n \in menuReq[q].others : ~MenuLocked(n, q)
    /\ menuReq' = [menuReq EXCEPT ![q].step = "archived",
                       ![q].others = {n \in @ : menu[n] = "PUBLISHED"}]
    /\ UNCHANGED <<menu, Content, image, defaultMenu, menuRaced, imageRaced>>

\* Plausible regression: the settings of a branch that has a menu are left alone.
KeepDefault(m) == IF defaultMenu = NoMenu THEN m ELSE defaultMenu

NewDefault(m) == m

\* The menu itself and the settings, and the commit.
CommitPublish(q) ==
    LET m == menuReq[q].of IN
    /\ MenuReqAt(q, "archived")
    /\ ~MenuLocked(m, q)
    /\ menu' = [n \in Menus |-> IF n = m THEN "PUBLISHED"
                                ELSE IF n \in menuReq[q].others THEN "ARCHIVED" ELSE menu[n]]
    /\ defaultMenu' = NewDefault(m)
    /\ MenuReqEnds(q)
    /\ UNCHANGED <<Content, image, menuRaced, imageRaced>>

\* getPublishedMenuByQr: what the guests of the branch are shown.
GuestCategories ==
    {c \in Categories : /\ defaultMenu # NoMenu
                        /\ menu[defaultMenu] = "PUBLISHED"
                        /\ category[<<defaultMenu, c>>] = "ACTIVE"}

-----------------------------------------------------------------------------
(* The picture of an item: one path in the storage, one row                *)

StartImage(q, x, step) ==
    /\ MenuReqAt(q, "idle")
    /\ menu[x[1]] = "DRAFT" /\ item[x] # "NONE"
    /\ menuReq' = [menuReq EXCEPT ![q] =
           [IdleMenuRequest EXCEPT !.step = step, !.of = x[1], !.at = x[2]]]
    /\ imageRaced' = IF Picturing(x) # {} THEN imageRaced \cup {x} ELSE imageRaced
    /\ UNCHANGED <<menu, Content, image, defaultMenu, menuRaced>>

UploadImage(q, x) == StartImage(q, x, "upload")
RemoveImage(q, x) == StartImage(q, x, "unlink")

\* Plausible regression: the error of the upload is not looked at.
StoreUnchecked(q) ==
    /\ MenuReqAt(q, "upload")
    /\ menuReq' = [menuReq EXCEPT ![q].step = "stored"]
    /\ \E stored \in BOOLEAN : image' = [image EXCEPT ![SlotOf(q)].object = stored \/ @]
    /\ UNCHANGED <<menu, Content, defaultMenu, menuRaced, imageRaced>>

\* An upload that fails ends the request.
StoreObject(q) ==
    /\ MenuReqAt(q, "upload")
    /\ \/ /\ menuReq' = [menuReq EXCEPT ![q].step = "stored"]
          /\ image' = [image EXCEPT ![SlotOf(q)].object = TRUE]
       \/ /\ MenuReqEnds(q)
          /\ UNCHANGED image
    /\ UNCHANGED <<menu, Content, defaultMenu, menuRaced, imageRaced>>

LinkImage(q) ==
    /\ MenuReqAt(q, "stored")
    /\ image' = [image EXCEPT ![SlotOf(q)].row = TRUE]
    /\ MenuReqEnds(q)
    /\ UNCHANGED <<menu, Content, defaultMenu, menuRaced, imageRaced>>

UnlinkImage(q) ==
    /\ MenuReqAt(q, "unlink")
    /\ image' = [image EXCEPT ![SlotOf(q)].row = FALSE]
    /\ menuReq' = [menuReq EXCEPT ![q].step = "unstore"]
    /\ UNCHANGED <<menu, Content, defaultMenu, menuRaced, imageRaced>>

\* The error of the removal is not looked at: the object may stay.
RemoveObject(q) ==
    /\ MenuReqAt(q, "unstore")
    /\ \E left \in BOOLEAN : image' = [image EXCEPT ![SlotOf(q)].object = left /\ @]
    /\ MenuReqEnds(q)
    /\ UNCHANGED <<menu, Content, defaultMenu, menuRaced, imageRaced>>

\* The process dies, a statement fails, or PostgreSQL breaks a deadlock: an open
\* transaction leaves nothing behind.
MenuRequestDies(q) ==
    /\ ~MenuReqAt(q, "idle")
    /\ MenuReqEnds(q)
    /\ UNCHANGED <<menu, Content, image, defaultMenu, menuRaced, imageRaced>>

\* Building menus and publishing them.
PublishingNext ==
    \/ \E m \in Menus : CreateMenu(m)
    \/ \E q \in MenuRequests, m \in Menus :
           \/ PublishMenu(q, m)
           \/ \E c \in Categories : \/ CreateCategory(q, m, c) \/ UpdateCategory(q, m, c)
                                   \/ CreateItem(q, m, c) \/ UpdateItem(q, m, c)
    \/ \E q \in MenuRequests :
           \/ CommitCategory(q) \/ CommitItem(q)
           \/ ScanPublished(q) \/ ArchiveOthers(q) \/ CommitPublish(q)
           \/ MenuRequestDies(q)

\* Menus that are still built, and the pictures of their items.
PicturesNext ==
    \/ \E m \in Menus : CreateMenu(m)
    \/ \E q \in MenuRequests, x \in Slots :
           \/ CreateCategory(q, x[1], x[2]) \/ CreateItem(q, x[1], x[2])
           \/ UploadImage(q, x) \/ RemoveImage(q, x)
    \/ \E q \in MenuRequests :
           \/ CommitCategory(q) \/ CommitItem(q)
           \/ StoreObject(q) \/ LinkImage(q) \/ UnlinkImage(q) \/ RemoveObject(q)
           \/ MenuRequestDies(q)

MenusNext == PublishingNext \/ PicturesNext

MenusSpec == MenusInit /\ [][MenusNext]_menuVars

-----------------------------------------------------------------------------
(* Properties                                                              *)

\* Every variable of the menu catalogue keeps its type.
MenusTypeOK ==
    /\ menu \in [Menus -> MenuStatuses]
    /\ category \in [Slots -> CategoryStatuses]
    /\ item \in [Slots -> ItemStatuses]
    /\ image \in [Slots -> [row : BOOLEAN, object : BOOLEAN]]
    /\ defaultMenu \in Menus \cup {NoMenu}
    /\ menuReq \in [MenuRequests -> MenuRequestRecords]
    /\ menuRaced \subseteq Menus /\ imageRaced \subseteq Slots

\* What guests order from: the default menu is published, however publications
\* overlap, and it still has an active category with an item, as was checked when it
\* was published, unless an edit of the DRAFT overlapped that publication.
GuestsCanOrder ==
    defaultMenu # NoMenu =>
        /\ menu[defaultMenu] = "PUBLISHED"
        /\ \/ defaultMenu \in menuRaced
           \/ \E c \in GuestCategories : item[<<defaultMenu, c>>] # "NONE"

\* The picture of an item that a menu shows is in the storage, whatever call failed,
\* unless two requests changed the picture of that item at once.
ImageIsStored == \A x \in Slots \ imageRaced : image[x].row => image[x].object
=============================================================================
