------------------------------ MODULE MasterData ------------------------------
(***************************************************************************)
(* Brands, stores, products and the crosswalk from the SKUs of a brand to  *)
(* products, beside the purchases that name them.  The tables refer to one *)
(* another by foreign keys; the purchases have none: they keep whatever    *)
(* brand, store and SKU they came with, and the figures shown of them join *)
(* them to the master data of the moment, or come from ClickHouse, where   *)
(* each purchase is copied after it is committed.                          *)
(***************************************************************************)
EXTENDS Naturals, FiniteSets

CONSTANTS
    Label,       \* brands
    Shop,        \* stores
    Article,     \* products
    Genre,       \* product categories
    Sku,
    Sale,        \* the purchases that can come in
    SoldBy, SoldAt, SoldSku  \* of each purchase: brand, store and SKU

VARIABLES
    labels,      \* the rows of brand
    shop,        \* store: the brand of each, or "absent"
    genre,       \* product_category: the parent of each, "none" or "absent"
    article,     \* product_master: the category of each, "none" or "absent"
    crosswalk,   \* sku_mapping: <<brand, sku>> -> product, or "absent"
    sold,        \* canonical_transaction
    copied,      \* ClickHouse
    toCopy,      \* projections under way
    chOpen,      \* the circuit breaker of the overview is open
    rightly,     \* purchases that came from a store of the brand they name
    moved        \* stores that were moved to another brand or deleted

masterVars == <<labels, shop, genre, article, crosswalk, sold, copied, toCopy, chOpen, rightly, moved>>

Present(t) == {x \in DOMAIN t : t[x] # "absent"}

MasterInit ==
    /\ labels = Label
    /\ shop = [s \in Shop |-> "absent"] /\ genre = [g \in Genre |-> "absent"]
    /\ article = [a \in Article |-> "absent"]
    /\ crosswalk = [k \in Label \X Sku |-> "absent"]
    /\ sold = {} /\ copied = {} /\ toCopy = {} /\ chOpen = FALSE /\ rightly = {} /\ moved = {}

MasterTypeOK ==
    /\ labels \subseteq Label /\ shop \in [Shop -> Label \cup {"absent"}]
    /\ genre \in [Genre -> Genre \cup {"none", "absent"}]
    /\ article \in [Article -> Genre \cup {"none", "absent"}]
    /\ crosswalk \in [Label \X Sku -> Article \cup {"absent"}]

-----------------------------------------------------------------------------
(* The operations on the tables; the database refuses a dangling reference. *)

CreateBrand(b) ==
    /\ b \notin labels /\ labels' = labels \cup {b}
    /\ UNCHANGED <<shop, genre, article, crosswalk, sold, copied, toCopy, chOpen, rightly, moved>>

(* deleteBrand: 23503 becomes a 409 while stores or mappings name it.      *)
DeleteBrand(b) ==
    /\ b \in labels
    /\ \A s \in Shop : shop[s] # b
    /\ \A k \in Present(crosswalk) : k[1] # b
    /\ labels' = labels \ {b}
    /\ UNCHANGED <<shop, genre, article, crosswalk, sold, copied, toCopy, chOpen, rightly, moved>>

CreateStore(s, b) ==
    /\ shop[s] = "absent" /\ b \in labels
    /\ shop' = [shop EXCEPT ![s] = b]
    /\ UNCHANGED <<labels, genre, article, crosswalk, sold, copied, toCopy, chOpen, rightly, moved>>

(* updateStore may move it to another brand.                               *)
UpdateStore(s, b) ==
    /\ shop[s] \notin {"absent", b} /\ b \in labels
    /\ shop' = [shop EXCEPT ![s] = b]
    /\ moved' = moved \cup {s}
    /\ UNCHANGED <<labels, genre, article, crosswalk, sold, copied, toCopy, chOpen, rightly>>

DeleteStore(s) ==
    /\ shop[s] # "absent"
    /\ shop' = [shop EXCEPT ![s] = "absent"]
    /\ moved' = moved \cup {s}
    /\ UNCHANGED <<labels, genre, article, crosswalk, sold, copied, toCopy, chOpen, rightly>>

(* The row may refer to itself.                                            *)
ParentsOf(g) == Present(genre) \cup {g, "none"}

CreateCategory(g) ==
    /\ genre[g] = "absent"
    /\ \E p \in ParentsOf(g) : genre' = [genre EXCEPT ![g] = p]
    /\ UNCHANGED <<labels, shop, article, crosswalk, sold, copied, toCopy, chOpen, rightly, moved>>

(* createProduct, and updateProduct of a row that is there.                *)
PutProduct(a) ==
    /\ \E g \in Present(genre) \cup {"none"} : article[a] # g /\ article' = [article EXCEPT ![a] = g]
    /\ UNCHANGED <<labels, shop, genre, crosswalk, sold, copied, toCopy, chOpen, rightly, moved>>

DeleteProduct(a) ==
    /\ article[a] # "absent" /\ \A k \in Present(crosswalk) : crosswalk[k] # a
    /\ article' = [article EXCEPT ![a] = "absent"]
    /\ UNCHANGED <<labels, shop, genre, crosswalk, sold, copied, toCopy, chOpen, rightly, moved>>

MapSku(b, k, a) ==
    /\ crosswalk[<<b, k>>] = "absent" /\ b \in labels /\ article[a] # "absent"
    /\ crosswalk' = [crosswalk EXCEPT ![<<b, k>>] = a]
    /\ UNCHANGED <<labels, shop, genre, article, sold, copied, toCopy, chOpen, rightly, moved>>

-----------------------------------------------------------------------------
(* The purchases. *)

(* ingestOrder checks neither the brand nor the store.                     *)
Sell(m) ==
    /\ m \notin sold
    /\ sold' = sold \cup {m} /\ toCopy' = toCopy \cup {m}
    /\ rightly' = rightly \cup (IF shop[SoldAt[m]] = SoldBy[m] THEN {m} ELSE {})
    /\ UNCHANGED <<labels, shop, genre, article, crosswalk, copied, chOpen, moved>>

(* projectOrderBestEffort, after the commit: an error is swallowed.        *)
Copy(m) ==
    /\ m \in toCopy
    /\ toCopy' = toCopy \ {m}
    /\ copied' \in {copied, copied \cup {m}}
    /\ UNCHANGED <<labels, shop, genre, article, crosswalk, sold, chOpen, rightly, moved>>

(* An overview that ClickHouse fails opens the circuit for 15 s.           *)
TripOverview == ~chOpen /\ chOpen' = TRUE
    /\ UNCHANGED <<labels, shop, genre, article, crosswalk, sold, copied, toCopy, rightly, moved>>
CloseCircuit == chOpen /\ chOpen' = FALSE
    /\ UNCHANGED <<labels, shop, genre, article, crosswalk, sold, copied, toCopy, rightly, moved>>

(* What getOverview counts: ClickHouse's copies, or the purchases.         *)
OverviewCounts == IF chOpen THEN sold ELSE copied

(* Mutant: the detail also counts what the brand's name is on.             *)
DetailByName(b) == {m \in sold : SoldBy[m] = b \/ shop[SoldAt[m]] = b}

(* brandDetail: joined by the store, under the brand the store has now.    *)
DetailOf(b) == {m \in sold : shop[SoldAt[m]] = b}

(* resolveProductMaster and v_purchase_enriched: through the crosswalk of  *)
(* the purchase's brand.                                                   *)
ArticleOf(m) == crosswalk[<<SoldBy[m], SoldSku[m]>>]
GenreOf(m) == IF ArticleOf(m) = "absent" THEN "none" ELSE article[ArticleOf(m)]

MasterNext ==
    \/ \E b \in Label : CreateBrand(b) \/ DeleteBrand(b)
    \/ \E s \in Shop : DeleteStore(s) \/ \E b \in Label : CreateStore(s, b) \/ UpdateStore(s, b)
    \/ \E g \in Genre : CreateCategory(g)
    \/ \E a \in Article :
          \/ PutProduct(a) \/ DeleteProduct(a)
          \/ \E b \in Label, k \in Sku : MapSku(b, k, a)
    \/ \E m \in Sale : Sell(m) \/ Copy(m)
    \/ TripOverview \/ CloseCircuit

-----------------------------------------------------------------------------
(* Above a category that is its own parent or has none: itself.            *)
RootedIn(S) == \E g \in S : genre[g] \in {g, "none"}

(* However often brands, stores and products are created, moved and        *)
(* deleted: no purchase is counted for two brands; one that came from a    *)
(* store of the brand it names is counted there until the store is moved   *)
(* or deleted; the overview never counts what was not sold; the category a *)
(* purchase is shown under exists, and no walk up the categories turns in  *)
(* circles.                                                                *)
FiguresHold ==
    /\ \A b, c \in Label : b # c => DetailOf(b) \cap DetailOf(c) = {}
    /\ \A m \in rightly : SoldAt[m] \notin moved => m \in DetailOf(SoldBy[m])
    /\ OverviewCounts \subseteq sold
    /\ \A m \in sold : GenreOf(m) \in Present(genre) \cup {"none"}
    /\ \A S \in SUBSET Present(genre) : S # {} /\ (\A g \in S : genre[g] \in S) => RootedIn(S)
=============================================================================
