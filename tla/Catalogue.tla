----------------------------- MODULE Catalogue -----------------------------
(***************************************************************************)
(* One product of a brand: its row, its pictures and its stock (backend      *)
(* api/v1/products.py, services/product_service.py, bc_image_service.py,     *)
(* scheduler/bc_sync.py; agents workflows/product_intel and content          *)
(* image_sourcing.py).  The brand's people, the stock sync and a             *)
(* product_intel run write the same row; the page's requests and a run work  *)
(* from what they read at their start.                                       *)
(*                                                                         *)
(* A picture is the number it was stored under, an object the name it has in *)
(* the store, a stock level a number.  Names, prices, vendors and metadata   *)
(* are left out.                                                            *)
(***************************************************************************)
EXTENDS Naturals, Sequences

CONSTANTS PageSlots,   \* requests of the product's page at a time
          MaxPictures, \* pictures ever stored
          MaxGallery,  \* entries of the gallery
          MaxStockRuns, \* syncs and product_intel runs
          Missing       \* no name, no quantity

VARIABLES
    exists,   \* the product's row
    included,   \* is_active, the "Include" toggle
    qty,      \* remaining_qty
    gallery,  \* image_urls: the entries' object names
    primary,  \* primary_image_url
    shelf,  \* the store: the picture each object name holds
    pictures, \* pictures stored so far
    stock,    \* what Business Central has of the item
    filter,   \* the brand has a sync filter
    item_card,     \* the item card has a picture
    requests, \* the page's requests under way: what each read of the row
    intel,    \* the product_intel run: what it read, and its next node
    stock_runs      \* runs and syncs so far

catalogue_vars ==
    <<exists, included, qty, gallery, primary, shelf, pictures, stock, filter, item_card, requests,
      intel, stock_runs>>

product_vars == <<exists, included, qty, gallery, primary, shelf, pictures>>
world_vars == <<stock, filter, item_card>>

Web(n) == <<"web", n>>
Upload(n) == <<"upload", n>>
Card == <<"card", 0>>
External == <<"external", 0>>  \* a run writes the address it found, not an object

ObjectNames == {Web(n) : n \in 1..MaxGallery + 1} \cup {Upload(n) : n \in 1..MaxPictures}
                 \cup {Card, External}
ASSUME CatalogueAssumption ==
    MaxPictures \in Nat /\ MaxGallery \in Nat /\ Missing \notin ObjectNames
NoObjects == [name \in ObjectNames |-> 0]

InitCatalogue ==
    /\ exists = TRUE /\ included \in BOOLEAN /\ qty = 1
    /\ gallery = <<>> /\ primary = Missing /\ shelf = NoObjects /\ pictures = 0
    /\ stock = 1 /\ filter \in BOOLEAN /\ item_card \in BOOLEAN
    /\ requests = [r \in PageSlots |-> Missing] /\ intel = Missing /\ stock_runs = 0

----------------------------------------------------------------------------
(* The product's page.  A request reads the row, calls the store, and writes   *)
(* back what it made of what it read: another one may do so in between.        *)

Put(name) ==
    /\ pictures' = pictures + 1
    /\ shelf' = [shelf EXCEPT ![name] = pictures + 1]

\* name is the object it is about, once that is known.
ReadRow(r, kind, name, step) ==
    /\ exists /\ requests[r] = Missing
    /\ requests' = [requests EXCEPT ![r] =
                      [kind |-> kind, name |-> name, step |-> step, gallery |-> gallery,
                       primary |-> primary, gone |-> FALSE]]
    /\ UNCHANGED <<intel, stock_runs>> /\ UNCHANGED product_vars /\ UNCHANGED world_vars

upload_product_image(r) == Len(gallery) < MaxGallery /\ ReadRow(r, "upload", Missing, "read")

delete_product_image(r) == \E i \in DOMAIN gallery : ReadRow(r, "delete", gallery[i], "read")

set_primary_product_image(r) ==
    \E i \in DOMAIN gallery : ReadRow(r, "set", gallery[i], "stored")

\* It asks Business Central and the web before it calls the store.
fetch_product_images(r) == ReadRow(r, "fetch", Missing, "read")

has_bc_image(entries) == \E i \in DOMAIN entries : entries[i] = Card

\* The item card comes first, once, and needs no second look.  A picture of the
\* web passes a check that it shows the product, and the check may fail.
_fetch_one_product_image(entries) ==
    {Web(Len(entries) + 1), Missing}
      \cup IF item_card /\ ~has_bc_image(entries) THEN {Card} ELSE {}

\* Without a picture, or with a store that fails, the request ends.
Ends(r) == requests' = [requests EXCEPT ![r] = Missing]

\* The store's object of a product that is gone is nobody's any more.
Stores(r, name) ==
    /\ pictures < MaxPictures
    /\ requests' = [requests EXCEPT ![r].step = "stored", ![r].name = name]
    /\ IF requests[r].gone THEN UNCHANGED <<shelf, pictures>> ELSE Put(name)

\* An upload has an object name of its own.  A deletion goes on whatever the
\* store says.
CallStore(r) ==
    /\ requests[r] # Missing /\ requests[r].step = "read"
    /\ \/ requests[r].kind # "delete" /\ Ends(r) /\ UNCHANGED <<shelf, pictures>>
       \/ requests[r].kind = "upload" /\ Stores(r, Upload(pictures + 1))
       \/ /\ requests[r].kind = "fetch"
          /\ \E name \in _fetch_one_product_image(requests[r].gallery) \ {Missing} :
                 Stores(r, name)
       \/ /\ requests[r].kind = "delete"
          /\ requests' = [requests EXCEPT ![r].step = "stored"]
          /\ shelf' \in {shelf} \cup IF requests[r].gone THEN {}
                                    ELSE {[shelf EXCEPT ![requests[r].name] = 0]}
          /\ UNCHANGED pictures
    /\ UNCHANGED <<exists, included, qty, gallery, primary, intel, stock_runs>>
    /\ UNCHANGED world_vars

\* The entries of other objects, in their order.
Without(entries, name) ==
    LET left[i \in 0..Len(entries)] ==
            IF i = 0 THEN <<>>
            ELSE IF entries[i] = name THEN left[i - 1] ELSE Append(left[i - 1], entries[i])
    IN left[Len(entries)]

\* What was read, without the entry or with it last: entries of the meantime are
\* gone from the gallery, and those removed are in it again.
GalleryOf(asked) ==
    LET left == Without(asked.gallery, asked.name) IN
    CASE asked.kind = "set" -> gallery
      [] asked.kind = "delete" -> left
      [] OTHER -> Append(left, asked.name)

\* An upload becomes the primary picture and so does the card; one of the web
\* fills an empty slot; the first of those left follows one that is removed.
NewPrimary(asked) ==
    LET left == Without(asked.gallery, asked.name) IN
    CASE asked.kind = "fetch" /\ asked.name # Card /\ asked.primary # Missing -> asked.primary
      [] asked.kind = "delete" /\ asked.primary # asked.name -> asked.primary
      [] asked.kind = "delete" /\ asked.primary = asked.name ->
             IF left = <<>> THEN Missing ELSE Head(left)
      [] OTHER -> asked.name

\* The ORM writes the primary picture only when it is not the one that was
\* read.  Without the row nothing is written.
WriteBack(r) ==
    /\ requests[r] # Missing /\ requests[r].step = "stored"
    /\ Ends(r)
    /\ IF requests[r].gone THEN UNCHANGED <<gallery, primary>>
       ELSE /\ Len(GalleryOf(requests[r])) <= MaxGallery
            /\ gallery' = GalleryOf(requests[r])
            /\ primary' = IF NewPrimary(requests[r]) = requests[r].primary THEN primary
                          ELSE NewPrimary(requests[r])
    /\ UNCHANGED <<exists, included, qty, shelf, pictures, intel, stock_runs>>
    /\ UNCHANGED world_vars

\* The Include toggle.
update_product ==
    /\ exists /\ included' = ~included
    /\ UNCHANGED <<exists, qty, gallery, primary, shelf, pictures, requests, intel, stock_runs>>
    /\ UNCHANGED world_vars

----------------------------------------------------------------------------
(* The stock sync *)

\* Items with nothing left are not in the answer; with a filter, neither are
\* those of other vendors or categories.
get_active_stock(filtered) ==
    IF stock = 0 THEN {FALSE} ELSE IF filtered THEN BOOLEAN ELSE {TRUE}

\* A new row starts excluded, an old one keeps its toggle and its pictures.
upsert_from_bc ==
    /\ exists' = TRUE /\ qty' = stock
    /\ included' = (exists /\ included)
    /\ UNCHANGED <<gallery, primary, shelf, pictures>>

\* A product that is not in the answer is deleted, pictures and all, sold out as
\* well as filtered out.
prune_brand_products_not_in ==
    /\ exists' = FALSE /\ included' = FALSE /\ qty' = Missing
    /\ gallery' = <<>> /\ primary' = Missing /\ shelf' = NoObjects
    /\ UNCHANGED pictures

\* Only a filtered sync prunes.  The product's row is another one when it comes
\* back: what a request read of it before is of no use any more.
Sync(filtered) ==
    /\ stock_runs < MaxStockRuns /\ stock_runs' = stock_runs + 1
    /\ \E answered \in get_active_stock(filtered) :
         \/ answered /\ upsert_from_bc /\ UNCHANGED requests
         \/ ~answered /\ ~filtered /\ UNCHANGED requests /\ UNCHANGED product_vars
         \/ /\ ~answered /\ filtered /\ prune_brand_products_not_in
            /\ requests' = [r \in PageSlots |->
                              IF requests[r] = Missing THEN Missing
                              ELSE [requests[r] EXCEPT !.gone = TRUE]]
    /\ UNCHANGED <<intel, stock, item_card>>

sync_bc_products == Sync(filter) /\ UNCHANGED filter

\* A manager's sync saves its filter for the scheduled ones.
sync_brand_products == \E filtered \in BOOLEAN : Sync(filtered) /\ filter' = filtered

StockMoves ==
    /\ stock_runs < MaxStockRuns
    /\ stock' \in 0..2 \ {stock}
    /\ UNCHANGED <<filter, item_card, requests, intel, stock_runs>> /\ UNCHANGED product_vars

----------------------------------------------------------------------------
(* The product_intel run: a node that fails ends it *)

IntelGoto(next) == intel' \in {[intel EXCEPT !.node = next], Missing}

\* The products that are included; without any, the items of Business Central,
\* which have neither a stock level nor a picture.
discover_brands ==
    /\ intel = Missing /\ stock_runs < MaxStockRuns /\ stock_runs' = stock_runs + 1
    /\ intel' \in {Missing, IF exists /\ included
                           THEN [node |-> "research", qty |-> qty, image |-> primary]
                           ELSE [node |-> "research", qty |-> Missing, image |-> Missing]}
    /\ UNCHANGED requests /\ UNCHANGED product_vars /\ UNCHANGED world_vars

research_brand ==
    /\ intel # Missing /\ intel.node = "research" /\ IntelGoto("match")
    /\ UNCHANGED <<requests, stock_runs>> /\ UNCHANGED product_vars /\ UNCHANGED world_vars

\* Mutant: nothing found is written too.
Incoming(image) == image

Coalesce(image) == IF image # Missing THEN image ELSE primary

\* The stock level as it was read goes back to the row, and so does the
\* picture; a run without one keeps the row's.
upsert_product(product) ==
    /\ exists' = TRUE
    /\ included' = (exists /\ included)
    /\ qty' = product.qty
    /\ primary' = Coalesce(product.image)
    /\ UNCHANGED <<gallery, shelf, pictures>>

\* Only a product the model names is written, and a write may fail.
match_products_to_brands ==
    /\ intel # Missing /\ intel.node = "match"
    /\ \/ IntelGoto("images") /\ UNCHANGED product_vars
       \/ intel' = [intel EXCEPT !.node = "images"] /\ upsert_product(intel)
    /\ UNCHANGED <<requests, stock_runs>> /\ UNCHANGED world_vars

\* Item card, supplier and web, in this order: an address or nothing.
source_intel_image == {External, Missing}

\* A product that had a picture when it was read keeps what it has.
source_product_images_node ==
    /\ intel # Missing /\ intel.node = "images"
    /\ \E found \in source_intel_image :
         IF intel.image # Missing \/ found = Missing
           THEN UNCHANGED product_vars /\ intel' = [intel EXCEPT !.node = "flag"]
           ELSE /\ intel' = [intel EXCEPT !.node = "flag", !.image = found]
                /\ \/ upsert_product([intel EXCEPT !.image = found])
                   \/ UNCHANGED product_vars
    /\ UNCHANGED <<requests, stock_runs>> /\ UNCHANGED world_vars

flag_promotable ==
    /\ intel # Missing /\ intel.node = "flag" /\ intel' = Missing
    /\ UNCHANGED <<requests, stock_runs>> /\ UNCHANGED product_vars /\ UNCHANGED world_vars

NextCatalogue ==
    \/ \E r \in PageSlots :
          \/ upload_product_image(r) \/ delete_product_image(r) \/ set_primary_product_image(r)
          \/ fetch_product_images(r) \/ CallStore(r) \/ WriteBack(r)
    \/ update_product
    \/ sync_bc_products \/ sync_brand_products \/ StockMoves
    \/ discover_brands \/ research_brand \/ match_products_to_brands
    \/ source_product_images_node \/ flag_promotable

CatalogueSpec == InitCatalogue /\ [][NextCatalogue]_catalogue_vars

----------------------------------------------------------------------------
(* Properties *)

\* A product that has a picture loses it only to the answer of a deletion, or
\* with its row: no run and no sync, whatever it read and however late it writes,
\* and no other request, leaves it without one (upsert_product, upsert_from_bc).
\* A deletion can, through what it read before, also where it should not.
ImageSurvivesRuns ==
    [][(primary # Missing /\ primary' = Missing) =>
         \/ ~exists'
         \/ \E r \in PageSlots : requests[r] # Missing /\ requests[r].kind = "delete"
                                 /\ requests'[r] = Missing]_<<primary>>

\* "web results only fill an empty slot" (products.py:617): a picture of the web
\* that is stored never takes the place of the one a product shows.
Shows == IF primary = Missing THEN 0 ELSE shelf[primary]
WebFillsEmptySlot ==
    [][(/\ Shows # 0 /\ pictures' # pictures
        /\ \E r \in PageSlots : /\ requests'[r] # requests[r] /\ requests[r].kind = "fetch"
                                /\ requests'[r].name # Card)
         => Shows' = Shows]_<<requests, primary, shelf>>

=============================================================================
