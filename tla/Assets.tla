------------------------------- MODULE Assets -------------------------------
(***************************************************************************)
(* The images and documents of catalogue products and the images of        *)
(* gallery items.  An administrator sends whole lists; the service deletes *)
(* the rows of a list and inserts the new ones, in the transaction whose   *)
(* first UPDATE has locked the product or the gallery item.                *)
(***************************************************************************)
EXTENDS Profiles

CONSTANTS
    Products, Galleries,
    AssetCalls,  \* POST, PATCH and DELETE of /admin/products and /admin/gallery
    Lists        \* the lists of file ids an administrator sends

Holders == Products \cup Galleries
Kinds == {"image", "file"}

ASSUME AssetsAssumption ==
    /\ Products \cap Galleries = {}
    /\ AssetCalls \subseteq Calls
    /\ AssetCalls \cap (UploadCalls \cup ProfileCalls \cup RoleCalls) = {}
    /\ Lists \subseteq Seq(FileIds) /\ None \notin Lists

VARIABLES
    holder,  \* rows of catalog_products and gallery_items
    assets,  \* committed rows of product_assets and gallery_assets
    edit     \* locals of the calls: the holder, the lists sent, the rows the
             \* transaction deleted and inserted

assetVars == <<holder, assets, edit>>

\* updated_by is the call that wrote the row last.
Holder == [status : {"none", "live", "deleted"}, active : BOOLEAN, updated_by : Calls \cup {None}]
Asset == [holder : Holders, kind : Kinds, file : FileIds, sort_order : Nat]
Edit == [holder : Holders \cup {None}, active : BOOLEAN,
         sent : [Kinds -> Lists \cup {None}], gone : SUBSET Asset, mine : SUBSET Asset]
EmptyEdit == [holder |-> None, active |-> TRUE, sent |-> [k \in Kinds |-> None],
              gone |-> {}, mine |-> {}]

AssetsInit ==
    /\ holder = [h \in Holders |-> [status |-> "none", active |-> TRUE, updated_by |-> None]]
    /\ assets = {}
    /\ edit = [c \in Calls |-> EmptyEdit]

-----------------------------------------------------------------------------
RowsOf(h, k) == {a \in assets : a.holder = h /\ a.kind = k}

\* One row per file of the list; an absent list leaves the rows alone.
NewRows(h, k, list) ==
    {[holder |-> h, kind |-> k, file |-> list[i], sort_order |-> i - 1] : i \in DOMAIN list}

\* The foreign key of file_id and UNIQUE(product_id, file_id), against the rows
\* there were and those the transaction left and added.
Insertable(rows, others) ==
    /\ \A a \in rows : file[a.file].status # "none"
    /\ \A a \in rows, b \in rows \cup others :
          a # b => a.holder # b.holder \/ a.file # b.file

\* The UPDATE at the start of the transaction locks the row until its end.
\* HolderFreeUnlocked without it.
HolderFreeUnlocked(h, c) == TRUE
HolderFree(h, c) == \A d \in AssetCalls \ {c} :
    edit[d].holder = h => pc[d] \notin {"images", "documents", "commit"}

\* adminCreateProduct, adminCreateGalleryItem: nobody sees the row before the COMMIT.
CreateHolder(c) ==
    /\ pc[c] = "new"
    /\ \E h \in Holders, images \in Lists, documents \in Lists \cup {None} :
          LET rows == NewRows(h, "image", images) \cup
                      (IF documents = None THEN {} ELSE NewRows(h, "file", documents))
          IN  /\ holder[h].status = "none"
              /\ h \in Galleries <=> documents = None
              /\ IF Insertable(rows, {})
                 THEN /\ holder' = [holder EXCEPT ![h] =
                            [status |-> "live", active |-> TRUE, updated_by |-> c]]
                      /\ assets' = assets \cup rows
                      /\ edit' = [edit EXCEPT ![c].holder = h, ![c].sent =
                            [k \in Kinds |-> IF k = "image" THEN images ELSE documents]]
                      /\ Goes(c, "done")
                 ELSE Goes(c, "failed") /\ UNCHANGED assetVars

\* adminUpdateProduct, adminUpdateGalleryItem: the UPDATE ...
UpdateHolder(c) ==
    /\ pc[c] = "new"
    /\ \E h \in Holders, active \in BOOLEAN, sent \in [Kinds -> Lists \cup {None}] :
          /\ HolderFree(h, c)
          /\ h \in Galleries => sent["file"] = None
          /\ IF holder[h].status = "live"
             THEN /\ edit' = [edit EXCEPT ![c].holder = h, ![c].active = active, ![c].sent = sent]
                  /\ Goes(c, "images")
                  /\ UNCHANGED <<holder, assets>>
             ELSE Goes(c, "failed") /\ UNCHANGED assetVars

\* ... syncProductAssets or syncGalleryAssets: DELETE the list's rows, INSERT new ones ...
Sync(c, k, next) ==
    LET h == edit[c].holder
        list == edit[c].sent[k]
        rows == NewRows(h, k, list)
        gone == edit[c].gone \cup RowsOf(h, k)
    IN  IF list = None
        THEN Goes(c, next) /\ UNCHANGED assetVars
        ELSE IF Insertable(rows, (assets \ gone) \cup edit[c].mine)
        THEN /\ edit' = [edit EXCEPT ![c].gone = gone, ![c].mine = @ \cup rows]
             /\ Goes(c, next)
             /\ UNCHANGED <<holder, assets>>
        ELSE Goes(c, "failed") /\ UNCHANGED assetVars
SyncImages(c) == pc[c] = "images" /\ Sync(c, "image", "documents")
SyncDocuments(c) == pc[c] = "documents" /\ Sync(c, "file", "commit")

\* ... and the COMMIT.
CommitHolder(c) ==
    /\ pc[c] = "commit"
    /\ holder' = [holder EXCEPT ![edit[c].holder].active = edit[c].active,
                                ![edit[c].holder].updated_by = c]
    /\ assets' = (assets \ edit[c].gone) \cup edit[c].mine
    /\ Goes(c, "done")
    /\ UNCHANGED edit

\* adminDeleteProduct, adminDeleteGalleryItem: deleted_at, the assets stay.
DeleteHolder(c) ==
    /\ pc[c] = "new"
    /\ \E h \in Holders :
          /\ HolderFree(h, c)
          /\ IF holder[h].status = "live"
             THEN holder' = [holder EXCEPT ![h].status = "deleted"] /\ Goes(c, "done")
             ELSE Goes(c, "failed") /\ UNCHANGED holder
    /\ UNCHANGED <<assets, edit>>

AssetsNext ==
    \E c \in AssetCalls :
        \/ CreateHolder(c) \/ UpdateHolder(c) \/ SyncImages(c) \/ SyncDocuments(c)
        \/ CommitHolder(c) \/ DeleteHolder(c)
-----------------------------------------------------------------------------
(* Properties *)

AssetsTypeOK ==
    /\ holder \in [Holders -> Holder]
    /\ assets \subseteq Asset
    /\ edit \in [Calls -> Edit]

\* c was answered and had sent this list of h.
Sent(c, h, k) == pc[c] = "done" /\ edit[c].holder = h /\ edit[c].sent[k] # None
\* These rows are the list, in its order.
Spell(rows, list) ==
    {<<a.sort_order + 1, a.file>> : a \in rows} = {<<i, list[i]>> : i \in DOMAIN list}

\* syncProductAssets and syncGalleryAssets: concurrent updates never mix their
\* lists, and a refused one leaves nothing behind.  Each list is, in its order,
\* the list of one call that was answered, and of the call that wrote the row
\* last if that one sent the list; a file is in one list of a product only.
ListsAreOfOneCall ==
    /\ \A h \in Holders, k \in Kinds : LET rows == RowsOf(h, k) IN
          /\ rows # {} =>
                \E c \in AssetCalls : Sent(c, h, k) /\ Spell(rows, edit[c].sent[k])
          /\ LET c == holder[h].updated_by
             IN  c # None /\ edit[c].sent[k] # None => Spell(rows, edit[c].sent[k])
    /\ \A a, b \in assets : a.holder = b.holder /\ a.file = b.file => a = b
=============================================================================
