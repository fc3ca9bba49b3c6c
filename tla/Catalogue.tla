----------------------------- MODULE Catalogue -----------------------------
(* What a bar sells (internal/catalogue): categories, products, variants and  *)
(* the dated prices of a variant; the platform's templates and their copying  *)
(* into a business; and pages that show the catalogue and send a whole row    *)
(* back when one field is changed. A request is a transaction under READ      *)
(* COMMITTED: every statement sees what is committed by then, an UPDATE waits *)
(* for the row, and unique indexes settle what the lookups could not.         *)
EXTENDS Integers, Sequences, FiniteSets, SequencesExt

CONSTANTS Requests,      \* bound: requests and pages at a time
          Names,         \* names of categories, products and variants
          Amounts,       \* prices
          Releases,      \* the lists of templates that seed-catalogue is run with
          LastMoment,    \* bound: the clock
          Skew,          \* how far the clocks of the API's processes differ
          MaxRows        \* bound: rows of a table

Null == 0

(* A template's name becomes a product's, and its variants' those of          *)
(* variants, with the suggested prices as their first.                        *)
NamesAssumption == IsFiniteSet(Names) /\ Null \notin Names
AmountsAssumption == Amounts \subseteq Int
ReleasesAssumption == Len(Releases) \in Nat /\ \A r \in 1..Len(Releases) :
    /\ DOMAIN Releases[r] \subseteq Names
    /\ \A n \in DOMAIN Releases[r] :
          /\ Releases[r][n].category \in Names
          /\ DOMAIN Releases[r][n].variants \subseteq Names
          /\ \A v \in DOMAIN Releases[r][n].variants : Releases[r][n].variants[v] \in Int
MomentsAssumption == LastMoment \in Nat /\ Skew \in Nat /\ Skew < LastMoment /\ MaxRows \in Nat

VARIABLES categories, products, variants, prices,   \* the business's tables; a row's place is its id
          templates,                                \* catalogue_templates with their variants, by name
          release,                                  \* how many lists have been seeded
          clock, request

rows == <<categories, products, variants, prices, templates, release>>
vars == <<rows, clock, request>>

Free == [at |-> "free"]
Begin(q, asked) == request[q] = Free /\ request' = [request EXCEPT ![q] = asked]
Proceed(q, next) == request' = [request EXCEPT ![q] = next]
At(q, at) == request[q].at = at
Open(q) == request[q]

(* What time.Now() may say in one of the processes. *)
Now == (clock - Skew)..clock

Init == /\ categories = <<>> /\ products = <<>> /\ variants = <<>> /\ prices = <<>>
        /\ templates = <<>> /\ release = 0
        /\ clock = 1 + Skew
        /\ request = [q \in Requests |-> Free]

(* Rows *)

Category(name) == [name |-> name, active |-> TRUE]
Product(name, category, template) == [name |-> name, category |-> category, active |-> TRUE, template |-> template]
Variant(product, name, tracks) == [product |-> product, name |-> name, active |-> TRUE, tracks |-> tracks]
Price(variant, amount, from) == [variant |-> variant, amountKobo |-> amount, validFrom |-> from, validTo |-> Null]

GetCategoryByName(name) == {i \in DOMAIN categories : categories[i].name = name}
FindCatalogueTemplateIDByName(name) == IF name \in DOMAIN templates THEN name ELSE Null
ProductNamed(name) == {i \in DOMAIN products : products[i].name = name}
VariantNamed(product, name) == {i \in DOMAIN variants : variants[i].product = product /\ variants[i].name = name}
GetCurrentPrice(v) == {i \in DOMAIN prices : prices[i].variant = v /\ prices[i].validTo = Null}
GetPriceAt(v, t) == {i \in DOMAIN prices : /\ prices[i].variant = v
                                           /\ prices[i].validFrom <= t
                                           /\ prices[i].validTo = Null \/ prices[i].validTo > t}

(* Newest first: the rows that may come at the head of the list. *)
ListPriceHistory(v) == {i \in DOMAIN prices : prices[i].variant = v}
Newest(v) == {i \in ListPriceHistory(v) : \A j \in ListPriceHistory(v) : prices[j].validFrom <= prices[i].validFrom}

ListCategories == DOMAIN categories
ListCatalogueTemplates == DOMAIN templates

(* UNIQUE (business_id, name), and (product_id, name) for variants. *)
CreateCategoryRow(n) == GetCategoryByName(n) = {} /\ categories' = Append(categories, Category(n))
CreateProductRow(n, c, template) == ProductNamed(n) = {} /\ products' = Append(products, Product(n, c, template))
CreateVariantRow(p, n, tracks) == VariantNamed(p, n) = {} /\ variants' = Append(variants, Variant(p, n, tracks))
CreatePriceRow(v, amount, from) == prices' = Append(prices, Price(v, amount, from))

(* Creating *)

CreateCategory(n) == /\ CreateCategoryRow(n)
                     /\ UNCHANGED <<products, variants, prices, templates, release, clock, request>>

createCategory == \E n \in Names :
    Len(categories) < MaxRows /\ CreateCategory(n)

(* A product typed in by hand is linked to the template of its name. *)
CreateProduct(n, c) == /\ CreateProductRow(n, c, FindCatalogueTemplateIDByName(n))
                       /\ UNCHANGED <<categories, variants, prices, templates, release, clock, request>>

createProduct == \E n \in Names, c \in ListCategories \union {Null} :
    Len(products) < MaxRows /\ CreateProduct(n, c)

(* One transaction: the variant and its first price. *)
CreateVariant(p, n, amount, tracks, now) ==
    /\ CreateVariantRow(p, n, tracks)
    /\ CreatePriceRow(Len(variants) + 1, amount, now)
    /\ UNCHANGED <<categories, products, templates, release, clock, request>>

createVariant == \E p \in DOMAIN products, n \in Names, amount \in Amounts, tracks \in BOOLEAN, now \in Now :
    /\ Len(variants) < MaxRows /\ Len(prices) < MaxRows
    /\ CreateVariant(p, n, amount, tracks, now)

(* Prices *)

Locked(i) == \E q \in Requests : At(q, "closed") /\ Open(q).closes = i

setVariantPrice(q) == \E v \in DOMAIN variants, amount \in Amounts :
    /\ GetCurrentPrice(v) # {}
    /\ Begin(q, [at |-> "priced", variant |-> v, amount |-> amount])
    /\ UNCHANGED <<rows, clock>>

(* now := time.Now(), on the clock of this process. *)
ReadClock(q) == /\ At(q, "priced")
                /\ \E now \in Now : Proceed(q, [at |-> "timed", variant |-> Open(q).variant, amount |-> Open(q).amount, now |-> now])
                /\ UNCHANGED <<rows, clock>>

(* A slip: the table has no CHECK (valid_to > valid_from). *)
NoCheck(i, now) == TRUE

CheckValidTo(i, now) == now > prices[i].validFrom

Closing(q, at, i) == Proceed(q, [at |-> at, variant |-> Open(q).variant, amount |-> Open(q).amount,
                                 now |-> Open(q).now, closes |-> i])
Close(q, i) == IF CheckValidTo(i, Open(q).now) THEN Closing(q, "closed", i) ELSE Proceed(q, Free)

(* The UPDATE finds the row that is current and waits for it if another       *)
(* transaction has it. When that one has closed the row, nothing is left for  *)
(* this statement to close: the new current row came after its snapshot.      *)
CloseCurrentPrice(q) ==
    /\ \/ /\ At(q, "timed")
          /\ \E i \in GetCurrentPrice(Open(q).variant) :
                IF Locked(i) THEN Closing(q, "waiting", i) ELSE Close(q, i)
       \/ /\ At(q, "waiting") /\ ~Locked(Open(q).closes)
          /\ IF prices[Open(q).closes].validTo = Null
             THEN Close(q, Open(q).closes)
             ELSE Closing(q, "closed", Null)
    /\ UNCHANGED <<rows, clock>>

(* product_prices_one_current_per_variant. *)
IsUnique(q) == GetCurrentPrice(Open(q).variant) \subseteq {Open(q).closes}

CreatePrice(q) == prices' =
    Append([i \in DOMAIN prices |-> IF i = Open(q).closes THEN [prices[i] EXCEPT !.validTo = Open(q).now] ELSE prices[i]],
           Price(Open(q).variant, Open(q).amount, Open(q).now))

(* The rest of SetVariantPrice and its commit; a lost connection rolls back. *)
SetVariantPrice(q) ==
    /\ At(q, "closed")
    /\ \/ IsUnique(q) /\ Len(prices) < MaxRows /\ CreatePrice(q)
       \/ UNCHANGED prices
    /\ Proceed(q, Free)
    /\ UNCHANGED <<categories, products, variants, templates, release, clock>>

(* Listing: three statements, three snapshots. *)

ListProducts == products
ListVariantsByBusiness == variants
ListCurrentPricesByBusiness == [v \in DOMAIN variants |-> GetCurrentPrice(v)]

listProducts(q) == Begin(q, [at |-> "listing"]) /\ UNCHANGED <<rows, clock>>

ListCatalogue(q) ==
    /\ \/ At(q, "listing") /\ Proceed(q, [at |-> "products", products |-> ListProducts])
       \/ At(q, "products") /\ Proceed(q, [at |-> "variants", products |-> Open(q).products,
                                                variants |-> ListVariantsByBusiness])
       \/ At(q, "variants") /\ Proceed(q, [at |-> "page", products |-> Open(q).products,
                                                variants |-> Open(q).variants, prices |-> ListCurrentPricesByBusiness])
    /\ UNCHANGED <<rows, clock>>

(* Variants that the first list lacks the product of are left out. *)
toProductResponse(q) == {v \in DOMAIN Open(q).variants : Open(q).variants[v].product \in DOMAIN Open(q).products}

(* Changing: the page sends back every field of the row it shows, one of     *)
(* them changed.                                                             *)

Send(q, table, id, field, row) ==
    /\ At(q, "page")
    /\ Proceed(q, [at |-> "sent", table |-> table, id |-> id, field |-> field, row |-> row])
    /\ UNCHANGED <<rows, clock>>

updateProduct(q) == At(q, "page") /\ \E p \in DOMAIN Open(q).products :
    LET shown == Open(q).products[p]
    IN \/ \E n \in Names : Send(q, "products", p, "name", [shown EXCEPT !.name = n])
       \/ \E b \in BOOLEAN : Send(q, "products", p, "active", [shown EXCEPT !.active = b])
       \/ \E c \in ListCategories \union {Null} : Send(q, "products", p, "category", [shown EXCEPT !.category = c])

updateVariant(q) == At(q, "page") /\ \E v \in toProductResponse(q) :
    LET shown == Open(q).variants[v]
    IN \/ \E n \in Names : Send(q, "variants", v, "name", [shown EXCEPT !.name = n])
       \/ \E b \in BOOLEAN : Send(q, "variants", v, "active", [shown EXCEPT !.active = b])
       \/ \E b \in BOOLEAN : Send(q, "variants", v, "tracks", [shown EXCEPT !.tracks = b])

UpdateProductRow(id, row) == products' = IF ProductNamed(row.name) \subseteq {id}
                                         THEN [products EXCEPT ![id] = row] ELSE products

UpdateVariantRow(id, row) == variants' = IF VariantNamed(row.product, row.name) \subseteq {id}
                                         THEN [variants EXCEPT ![id] = row] ELSE variants

UpdateProduct(q) == /\ At(q, "sent") /\ Open(q).table = "products"
                    /\ UpdateProductRow(Open(q).id, Open(q).row)
                    /\ Proceed(q, Free)
                    /\ UNCHANGED <<categories, variants, prices, templates, release, clock>>

UpdateVariant(q) == /\ At(q, "sent") /\ Open(q).table = "variants"
                    /\ UpdateVariantRow(Open(q).id, Open(q).row)
                    /\ Proceed(q, Free)
                    /\ UNCHANGED <<categories, products, prices, templates, release, clock>>

UpdateCategoryRow(id, n, b) == /\ GetCategoryByName(n) \subseteq {id}
                               /\ categories' = [categories EXCEPT ![id] = [name |-> n, active |-> b]]

UpdateCategory(id, n, b) == /\ UpdateCategoryRow(id, n, b)
                            /\ UNCHANGED <<products, variants, prices, templates, release, clock, request>>

updateCategory == \E c \in ListCategories, n \in Names, b \in BOOLEAN :
    UpdateCategory(c, n, b)

Leave(q) == At(q, "page") /\ Proceed(q, Free) /\ UNCHANGED <<rows, clock>>

(* Templates *)

(* Upserts by name: a template and its variants are changed, never removed. *)
Upserted(old, new) == [n \in DOMAIN old \union DOMAIN new |-> IF n \in DOMAIN new THEN new[n] ELSE old[n]]
UpsertCatalogueTemplateVariant(old, seeded) == Upserted(old, seeded)
UpsertCatalogueTemplate(name, seed) ==
    [category |-> seed.category,
     variants |-> IF name \in DOMAIN templates
                  THEN UpsertCatalogueTemplateVariant(templates[name].variants, seed.variants) ELSE seed.variants]

SeedTemplates == /\ release < Len(Releases)
                 /\ release' = release + 1
                 /\ LET seeds == Releases[release + 1]
                    IN templates' = Upserted(templates, [n \in DOMAIN seeds |-> UpsertCatalogueTemplate(n, seeds[n])])
                 /\ UNCHANGED <<categories, products, variants, prices, clock, request>>

ListTemplates == ListCatalogueTemplates

ListCatalogueTemplatesByIDs(chosen) == [t \in chosen |-> templates[t].category]

applyCatalogueTemplates(q) == \E chosen \in SUBSET ListTemplates :
    /\ chosen # {}
    /\ Begin(q, [at |-> "templates", category |-> ListCatalogueTemplatesByIDs(chosen)])
    /\ UNCHANGED <<rows, clock>>

ListCatalogueTemplateVariantsByTemplateIDs(q) ==
    /\ At(q, "templates")
    /\ Proceed(q, [at |-> "read", category |-> Open(q).category,
                   variants |-> [t \in DOMAIN Open(q).category |-> templates[t].variants]])
    /\ UNCHANGED <<rows, clock>>

(* The category of each name, Null where there is none yet. *)
Wanted(q) == {Open(q).category[t] : t \in DOMAIN Open(q).category}

getOrCreateCategory(q) ==
    /\ At(q, "read")
    /\ Proceed(q, [at |-> "resolved", category |-> Open(q).category, variants |-> Open(q).variants,
                   found |-> [n \in Wanted(q) |->
                       IF GetCategoryByName(n) = {} THEN Null ELSE CHOOSE c \in GetCategoryByName(n) : TRUE]])
    /\ UNCHANGED <<rows, clock>>

Missing(q) == {n \in DOMAIN Open(q).found : Open(q).found[n] = Null}
NamesAreFree(q) == /\ \A n \in Missing(q) : GetCategoryByName(n) = {}
                   /\ \A t \in DOMAIN Open(q).category : ProductNamed(t) = {}

(* A slip: only the first template's variants are copied. *)
FirstCopies(q, order) == {c \in {1} \X Names : c[2] \in DOMAIN Open(q).variants[order[c[1]]]}

Copies(q, order) == {c \in (DOMAIN order) \X Names : c[2] \in DOMAIN Open(q).variants[order[c[1]]]}

(* The whole selection in one commit, or nothing of it. *)
ApplyTemplates(q) ==
    /\ At(q, "resolved")
    /\ LET order == SetToSeq(DOMAIN Open(q).category)
           copies == SetToSeq(Copies(q, order))
           missing == SetToSeq(Missing(q))
           categoryOf(t) == LET n == Open(q).category[t]
                            IN IF Open(q).found[n] # Null THEN Open(q).found[n]
                               ELSE Len(categories) + (CHOOSE k \in DOMAIN missing : missing[k] = n)
       IN IF NamesAreFree(q)
          THEN /\ categories' = categories \o [k \in DOMAIN missing |-> Category(missing[k])]
               /\ products' = products \o [k \in DOMAIN order |-> Product(order[k], categoryOf(order[k]), order[k])]
               /\ variants' = variants \o [k \in DOMAIN copies |-> Variant(Len(products) + copies[k][1], copies[k][2], TRUE)]
               /\ \E now \in Now : prices' = prices \o [k \in DOMAIN copies |->
                     Price(Len(variants) + k, Open(q).variants[order[copies[k][1]]][copies[k][2]], now)]
               /\ Len(variants') <= MaxRows /\ Len(products') <= MaxRows
          ELSE UNCHANGED <<categories, products, variants, prices>>
    /\ Proceed(q, Free)
    /\ UNCHANGED <<templates, release, clock>>

Tick == clock < LastMoment /\ clock' = clock + 1 /\ UNCHANGED <<rows, request>>

Priced(q) == setVariantPrice(q) \/ ReadClock(q) \/ CloseCurrentPrice(q) \/ SetVariantPrice(q)
Listed(q) == listProducts(q) \/ ListCatalogue(q) \/ Leave(q)
Changed(q) == updateProduct(q) \/ updateVariant(q) \/ UpdateProduct(q) \/ UpdateVariant(q)
Applied(q) == \/ applyCatalogueTemplates(q) \/ ListCatalogueTemplateVariantsByTemplateIDs(q)
              \/ getOrCreateCategory(q) \/ ApplyTemplates(q)

Next == \/ createCategory \/ createProduct \/ createVariant \/ updateCategory \/ SeedTemplates \/ Tick
        \/ \E q \in Requests : Priced(q) \/ Listed(q) \/ Changed(q) \/ Applied(q)

Spec == Init /\ [][Next]_vars

(* Properties *)

(* Rows refer to rows there are, and names are taken once.                   *)
TypeOK == /\ clock \in 1..LastMoment /\ release \in 0..Len(Releases)
          /\ \A p \in DOMAIN products : /\ products[p].category \in DOMAIN categories \union {Null}
                                        /\ ProductNamed(products[p].name) = {p}
          /\ \A v \in DOMAIN variants : /\ variants[v].product \in DOMAIN products
                                        /\ VariantNamed(variants[v].product, variants[v].name) = {v}
          /\ \A i \in DOMAIN prices : prices[i].variant \in DOMAIN variants /\ prices[i].validFrom \in 1..LastMoment

(* From its first price on, a variant has exactly one price at every moment, *)
(* whoever changes prices at the same time and however their clocks differ.  *)
OnePriceAlways == \A v \in DOMAIN variants : \E born \in 1..LastMoment :
    \A t \in 1..(LastMoment + 1) : Cardinality(GetPriceAt(v, t)) = IF t < born THEN 0 ELSE 1

(* The newest row of the history is the current price: what the answer to    *)
(* PATCH /variants takes from it is what the variant sells for.              *)
NewestIsCurrent == \A v \in DOMAIN variants :
    Cardinality(GetCurrentPrice(v)) = 1 /\ Newest(v) = GetCurrentPrice(v)

(* A page never shows a variant without its price, although products,        *)
(* variants and prices are read one after the other while others change them.*)
ShownArePriced == \A q \in Requests : At(q, "page") =>
    \A v \in toProductResponse(q) : v \in DOMAIN Open(q).prices /\ Cardinality(Open(q).prices[v]) = 1

(* A product linked to a template by copying it has all the variants and     *)
(* prices the template had when it was chosen, however a new list is seeded  *)
(* or a category made in between: the copy is whole or there is none.        *)
CopiesAreWhole == products' # products => \A q \in Requests : At(q, "resolved") /\ ~At(q, "resolved")' =>
    \A t \in DOMAIN Open(q).category :
        \E p \in DOMAIN products' \ DOMAIN products :
            /\ products'[p].template = t
            /\ LET n == Open(q).category[t] c == products'[p].category
               IN IF Open(q).found[n] = Null THEN categories'[c].name = n ELSE c = Open(q).found[n]
            /\ \A n \in DOMAIN Open(q).variants[t] :
                  \E v \in DOMAIN variants' : /\ variants'[v].product = p /\ variants'[v].name = n
                                              /\ \E i \in DOMAIN prices' : /\ prices'[i].variant = v
                                                                           /\ prices'[i].amountKobo = Open(q).variants[t][n]

(* A save changes the field that the owner changed and no other ("supply the *)
(* current values for any field they are not changing").                     *)
ChangesAsMeant == \A q \in Requests : At(q, "sent") /\ ~At(q, "sent")' =>
    LET table == IF Open(q).table = "products" THEN products ELSE variants
        saved == IF Open(q).table = "products" THEN products' ELSE variants'
    IN \A f \in DOMAIN table[Open(q).id] : saved[Open(q).id][f] # table[Open(q).id][f] => f = Open(q).field
=============================================================================
