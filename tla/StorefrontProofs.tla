--------------------------- MODULE StorefrontProofs ---------------------------
(***************************************************************************)
(* Theorems about Storefront for any clients, venues, items, categories    *)
(* and page sizes.                                                         *)
(*                                                                         *)
(* The inductive invariant says what still holds of a menu after it was    *)
(* read, when the venue has written any number of times since.             *)
(***************************************************************************)
EXTENDS Storefront, FiniteSetTheorems, TLAPS

Row == [venue : Venues \cup {None}, price : Prices \cup {0}, available : BOOLEAN]
SalePhases == {"new", "open", "doomed", "sold", "done"}
Replies == {"none", "201", "400", "404", "409", "500"}
Places == {"door", "listed", "venue", "categories", "menu", "ordering", "gone", "lost"}

Typed ==
  /\ menu \in [Items -> Row]
  /\ active \subseteq Venues
  /\ categories \in [Categories -> Venues \cup {None}]
  /\ shelf \in [Items -> Categories \cup {None}]
  /\ phase \in [Requests -> SalePhases]
  /\ answer \in [Requests -> Replies]
  /\ DOMAIN wish = Requests /\ DOMAIN sold = Requests
  /\ DOMAIN visits = Requests

Fields == {"at", "page", "venue", "categories", "known", "seen", "since"}

VisitTyped(visit) ==
  /\ DOMAIN visit = Fields
  /\ visit.at \in Places
  /\ Cardinality(visit.page) <= PageSize
  /\ visit.venue \in Venues \cup {None}
  /\ visit.known \subseteq Categories

VenueSound(visit) ==
  visit.at \in {"venue", "categories", "menu", "ordering"} => visit.venue \in Venues

\* A category that was there when they were read is on the menu or another's.
CategoriesSound(visit) ==
  \A c \in visit.known :
    Exists(c) /\ (categories[c] = visit.venue => c \in visit.categories)

\* An item that was seen available is still the venue's, and as it was seen
\* unless the venue has written it since.
ItemsSound(visit) ==
  visit.at \in {"menu", "ordering"} =>
    \A i \in Items : visit.seen[i].available =>
      menu[i].venue = visit.venue /\ (i \notin visit.since => menu[i] = visit.seen[i])

\* What a client orders it has seen available, so nothing dooms the order.
OrderSound(r) ==
  visits[r].at = "ordering" =>
    /\ phase[r] \in {"open", "sold"}
    /\ wish[r].venue = visits[r].venue /\ wish[r].cart \in Carts
    /\ \A n \in DOMAIN wish[r].cart :
         visits[r].seen[wish[r].cart[n].item].available /\ wish[r].cart[n].quantity > 0

VisitSound(visit) ==
  VisitTyped(visit) /\ VenueSound(visit) /\ CategoriesSound(visit) /\ ItemsSound(visit)

IInv == Typed /\ \A r \in Requests : VisitSound(visits[r]) /\ OrderSound(r)
-----------------------------------------------------------------------------
\* A page is no longer than it may be.
LEMMA PageFits ==
  ASSUME StorefrontAssumption, NEW city
  PROVE  Cardinality(Page(city)) <= PageSize
<1> DEFINE Asked(v) == v \in active /\ (city # None => CityOf[v] = city)
           listed == SelectSeq(VenuesByName, Asked)
           D == DOMAIN listed \cap 1..PageSize
           shown == [n \in D |-> listed[n]]
<1>1. Page(city) = {listed[n] : n \in D}
  BY DEF Page
<1> HIDE DEF listed
<1>2. PageSize \in Nat
  BY DEF StorefrontAssumption
<1>3. IsFiniteSet(1..PageSize) /\ Cardinality(1..PageSize) = PageSize
  BY <1>2, FS_Interval
<1>4. IsFiniteSet(D) /\ Cardinality(D) <= PageSize
  BY <1>3, FS_Subset
<1>5. shown \in Surjection(D, Page(city))
  BY <1>1 DEF Surjection
<1>6. Cardinality(Page(city)) <= Cardinality(D) /\ IsFiniteSet(Page(city))
  BY <1>4, <1>5, FS_Surjection
<1>7. Cardinality(Page(city)) \in Nat /\ Cardinality(D) \in Nat
  BY <1>4, <1>6, FS_CardinalityType
<1> QED  BY <1>2, <1>4, <1>6, <1>7
-----------------------------------------------------------------------------
\* The visit of a client that has been shown nothing.
LEMMA OutsideIsSound ==
  ASSUME StorefrontAssumption
  PROVE  VisitSound(Outside) /\ VisitSound(Gone)
<1>1. Cardinality({}) = 0
  BY FS_EmptySet
<1>2. DOMAIN Outside = Fields /\ DOMAIN Gone = Fields
  BY DEF Outside, Gone, Fields
<1>3. /\ Outside.at = "door" /\ Outside.page = {} /\ Outside.venue = None /\ Outside.known = {}
      /\ Gone.at = "gone" /\ Gone.page = {} /\ Gone.venue = None /\ Gone.known = {}
  BY DEF Outside, Gone
<1>4. VisitTyped(Outside) /\ VisitTyped(Gone)
  BY <1>1, <1>2, <1>3 DEF VisitTyped, Places, StorefrontAssumption
<1>5. VenueSound(Outside) /\ CategoriesSound(Outside) /\ ItemsSound(Outside)
  BY <1>3 DEF VenueSound, CategoriesSound, ItemsSound
<1>6. VenueSound(Gone) /\ CategoriesSound(Gone) /\ ItemsSound(Gone)
  BY <1>3 DEF VenueSound, CategoriesSound, ItemsSound
<1> QED  BY <1>4, <1>5, <1>6 DEF VisitSound

\* What a client was shown stays sound while no row is written.
LEMMA VisitStays ==
  ASSUME IInv, NEW r \in Requests, UNCHANGED <<menu, categories>>,
         visits'[r] = visits[r]
  PROVE  VisitSound(visits[r])'
<1>1. VisitSound(visits[r])
  BY DEF IInv
<1>2. VisitTyped(visits[r])' /\ VenueSound(visits[r])'
  BY <1>1 DEF VisitSound, VisitTyped, VenueSound
<1>3. CategoriesSound(visits[r])'
  BY <1>1 DEF VisitSound, CategoriesSound, Exists
<1>4. ItemsSound(visits[r])'
  BY <1>1 DEF VisitSound, ItemsSound
<1> QED  BY <1>2, <1>3, <1>4 DEF VisitSound

\* What is said of a client reads nothing of another.
LEMMA SameVisit ==
  ASSUME IInv, NEW r \in Requests, UNCHANGED <<menu, categories>>,
         visits'[r] = visits[r], phase'[r] = phase[r], wish'[r] = wish[r]
  PROVE  VisitSound(visits[r])' /\ OrderSound(r)'
<1>1. OrderSound(r)
  BY DEF IInv
<1>2. OrderSound(r)'
  BY <1>1 DEF OrderSound
<1> QED  BY <1>2, VisitStays

\* A client is shown something, and nothing else happens.
LEMMA ShowKeeps ==
  ASSUME IInv, NEW r \in Requests, NEW visit, Show(r, visit), UNCHANGED <<sale, shop>>,
         VisitSound(visit), visit.at # "ordering"
  PROVE  IInv'
<1>1. DOMAIN visits' = Requests /\ visits'[r] = visit
      /\ \A q \in Requests \ {r} : visits'[q] = visits[q]
  BY DEF Show, IInv, Typed
<1>2. UNCHANGED <<menu, phase, wish, answer, sold, active, categories, shelf>>
  BY DEF sale, shop
<1>3. Typed'
  BY <1>1, <1>2 DEF IInv, Typed
<1>4. ASSUME NEW q \in Requests \ {r}
      PROVE  VisitSound(visits[q])' /\ OrderSound(q)'
  BY <1>1, <1>2, SameVisit
<1>5. OrderSound(r)'
  BY <1>1 DEF OrderSound
<1>6. VisitTyped(visits[r])' /\ VenueSound(visits[r])'
  BY <1>1 DEF VisitSound, VisitTyped, VenueSound
<1>7. CategoriesSound(visits[r])'
  BY <1>1, <1>2 DEF VisitSound, CategoriesSound, Exists
<1>8. ItemsSound(visits[r])'
  BY <1>1, <1>2 DEF VisitSound, ItemsSound
<1>9. VisitSound(visits[r])'
  BY <1>6, <1>7, <1>8 DEF VisitSound
<1> QED  BY <1>3, <1>4, <1>5, <1>9 DEF IInv
-----------------------------------------------------------------------------
\* The steps of CatalogUseCase.

LEMMA ListVenuesKeeps ==
  ASSUME StorefrontAssumption, IInv, NEW r \in Requests,
         NEW city \in Cities \cup {None}, ListVenues(r, city)
  PROVE  IInv'
<1> DEFINE visit == [Outside EXCEPT !.at = "listed", !.page = Page(city)]
<1>1. Show(r, visit) /\ UNCHANGED <<sale, shop>>
  BY DEF ListVenues
<1>2. Cardinality(Page(city)) <= PageSize
  BY PageFits
<1>3. /\ DOMAIN visit = Fields /\ visit.at = "listed" /\ visit.page = Page(city)
      /\ visit.venue = None /\ visit.known = {}
  BY DEF Outside, Fields
<1> HIDE DEF visit
<1>4. VisitTyped(visit)
  BY <1>2, <1>3 DEF VisitTyped, Places, StorefrontAssumption
<1>5. VenueSound(visit) /\ CategoriesSound(visit) /\ ItemsSound(visit)
  BY <1>3 DEF VenueSound, CategoriesSound, ItemsSound
<1>6. visit.at # "ordering"
  BY <1>3
<1>7. VisitSound(visit)
  BY <1>4, <1>5 DEF VisitSound
<1> QED  BY <1>1, <1>6, <1>7, ShowKeeps

LEMMA OpenMenuKeeps ==
  ASSUME StorefrontAssumption, IInv, NEW r \in Requests, NEW v \in Venues \cup {None},
         OpenMenu(r, v)
  PROVE  IInv'
<1> DEFINE at == IF v \in Venues THEN "venue" ELSE "lost"
           visit == [Outside EXCEPT !.at = at, !.venue = v]
<1>1. Show(r, visit) /\ UNCHANGED <<sale, shop>>
  BY DEF OpenMenu
<1>2. Cardinality({}) = 0
  BY FS_EmptySet
<1>3. (at = "venue" /\ v \in Venues) \/ (at = "lost" /\ v \notin Venues)
  OBVIOUS
<1> HIDE DEF at
<1>4. /\ DOMAIN visit = Fields /\ visit.at = at /\ visit.page = {}
      /\ visit.venue = v /\ visit.known = {}
  BY DEF Outside, Fields
<1> HIDE DEF visit
<1>5. VisitTyped(visit)
  BY <1>2, <1>3, <1>4 DEF VisitTyped, Places, StorefrontAssumption
<1>6. VenueSound(visit) /\ CategoriesSound(visit) /\ ItemsSound(visit)
  BY <1>3, <1>4 DEF VenueSound, CategoriesSound, ItemsSound
<1>7. visit.at # "ordering"
  BY <1>3, <1>4
<1>8. VisitSound(visit)
  BY <1>5, <1>6 DEF VisitSound
<1> QED  BY <1>1, <1>7, <1>8, ShowKeeps

LEMMA ListCategoriesKeeps ==
  ASSUME IInv, NEW r \in Requests, ListCategories(r)
  PROVE  IInv'
<1> DEFINE old == visits[r]
           visit == [old EXCEPT !.at = "categories", !.categories = CategoriesOf(old.venue),
                       !.known = {c \in Categories : Exists(c)}]
<1>1. old.at = "venue" /\ Show(r, visit) /\ UNCHANGED <<sale, shop>>
  BY DEF ListCategories
<1>2. VisitSound(old)
  BY DEF IInv
<1> HIDE DEF old
<1>3. /\ DOMAIN visit = Fields /\ visit.at = "categories" /\ visit.page = old.page
      /\ visit.venue = old.venue /\ visit.categories = CategoriesOf(old.venue)
      /\ visit.known = {c \in Categories : Exists(c)}
  BY <1>2 DEF VisitSound, VisitTyped, Fields
<1> HIDE DEF visit
<1>4. VisitTyped(visit)
  BY <1>2, <1>3 DEF VisitSound, VisitTyped, Places
<1>5. VenueSound(visit) /\ ItemsSound(visit)
  BY <1>1, <1>2, <1>3 DEF VisitSound, VenueSound, ItemsSound
<1>6. CategoriesSound(visit)
  BY <1>3 DEF CategoriesSound, CategoriesOf
<1>7. visit.at # "ordering"
  BY <1>3
<1>8. VisitSound(visit)
  BY <1>4, <1>5, <1>6 DEF VisitSound
<1> QED  BY <1>1, <1>7, <1>8, ShowKeeps

LEMMA ListItemsKeeps ==
  ASSUME IInv, NEW r \in Requests, ListItems(r)
  PROVE  IInv'
<1> DEFINE old == visits[r]
           visit == [old EXCEPT !.at = "menu", !.seen = ItemsOf(old.venue)]
<1>1. old.at = "categories" /\ Show(r, visit) /\ UNCHANGED <<sale, shop>>
  BY DEF ListItems
<1>2. VisitSound(old)
  BY DEF IInv
<1> HIDE DEF old
<1>3. /\ DOMAIN visit = Fields /\ visit.at = "menu" /\ visit.page = old.page
      /\ visit.venue = old.venue /\ visit.categories = old.categories
      /\ visit.known = old.known /\ visit.seen = ItemsOf(old.venue)
  BY <1>2 DEF VisitSound, VisitTyped, Fields
<1> HIDE DEF visit
<1>4. VisitTyped(visit)
  BY <1>2, <1>3 DEF VisitSound, VisitTyped, Places
<1>5. VenueSound(visit) /\ CategoriesSound(visit)
  BY <1>1, <1>2, <1>3 DEF VisitSound, VenueSound, CategoriesSound
<1>6. ItemsSound(visit)
  <2> SUFFICES ASSUME NEW i \in Items, visit.seen[i].available
               PROVE  menu[i].venue = visit.venue /\ menu[i] = visit.seen[i]
    BY DEF ItemsSound
  <2>1. visit.seen[i] = IF menu[i].venue = old.venue THEN menu[i] ELSE NoItem
    BY <1>3 DEF ItemsOf
  <2>2. ~NoItem.available
    BY DEF NoItem
  <2> QED  BY <1>3, <2>1, <2>2
<1>7. visit.at # "ordering"
  BY <1>3
<1>8. VisitSound(visit)
  BY <1>4, <1>5, <1>6 DEF VisitSound
<1> QED  BY <1>1, <1>7, <1>8, ShowKeeps

LEMMA VisitFailsKeeps ==
  ASSUME StorefrontAssumption, IInv, NEW r \in Requests, VisitFails(r)
  PROVE  IInv'
<1>1. Show(r, Outside) /\ UNCHANGED <<sale, shop>>
  BY DEF VisitFails
<1>2. Outside.at # "ordering"
  BY DEF Outside
<1> QED  BY <1>1, <1>2, OutsideIsSound, ShowKeeps
-----------------------------------------------------------------------------
\* POST /orders.

\* A request comes in.
LEMMA ComeFields ==
  ASSUME IInv, NEW r \in Requests, NEW v, NEW cart, Come(r, v, cart)
  PROVE  /\ phase' \in [Requests -> SalePhases] /\ answer' \in [Requests -> Replies]
         /\ DOMAIN wish' = Requests /\ UNCHANGED <<menu, sold>>
         /\ \A q \in Requests \ {r} :
              phase'[q] = phase[q] /\ wish'[q] = wish[q] /\ answer'[q] = answer[q]
         /\ cart # <<>> => /\ phase'[r] = "open" /\ wish'[r].venue = v
                           /\ wish'[r].cart = cart /\ answer' = answer
<1>1. /\ phase \in [Requests -> SalePhases] /\ answer \in [Requests -> Replies]
      /\ DOMAIN wish = Requests
  BY DEF IInv, Typed
<1>2. UNCHANGED <<menu, sold>>
  BY DEF Come
<1>3. CASE cart = <<>>
  <2>1. Answer(r, "400")
    BY <1>3 DEF Come
  <2>2. "400" \in Replies /\ "done" \in SalePhases
    BY DEF Replies, SalePhases
  <2> QED  BY <1>1, <1>2, <1>3, <2>1, <2>2 DEF Answer
<1>4. CASE cart # <<>>
  <2>1. /\ phase' = [phase EXCEPT ![r] = "open"] /\ UNCHANGED answer
        /\ wish' = [wish EXCEPT ![r] = [venue |-> v, cart |-> cart]]
    BY <1>4 DEF Come
  <2>2. "open" \in SalePhases
    BY DEF SalePhases
  <2> QED  BY <1>1, <1>2, <1>4, <2>1, <2>2
<1> QED  BY <1>3, <1>4

LEMMA OrderFromMenuKeeps ==
  ASSUME StorefrontAssumption, IInv, NEW r \in Requests, NEW cart \in Carts,
         OrderFromMenu(r, cart)
  PROVE  IInv'
<1> DEFINE old == visits[r]
           visit == [old EXCEPT !.at = "ordering", !.categories = {}, !.known = {}]
<1>1. /\ old.at = "menu" /\ cart # <<>> /\ Come(r, old.venue, cart)
      /\ \A n \in DOMAIN cart : old.seen[cart[n].item].available /\ cart[n].quantity > 0
      /\ Show(r, visit) /\ UNCHANGED shop
  BY DEF OrderFromMenu
<1>2. VisitSound(old)
  BY DEF IInv
<1>3. /\ DOMAIN visits' = Requests /\ visits'[r] = visit
      /\ \A q \in Requests \ {r} : visits'[q] = visits[q]
  BY <1>1 DEF Show, IInv, Typed
<1> HIDE DEF old
<1>4. /\ DOMAIN visit = Fields /\ visit.at = "ordering" /\ visit.page = old.page
      /\ visit.venue = old.venue /\ visit.known = {} /\ visit.seen = old.seen
      /\ visit.since = old.since
  BY <1>2 DEF VisitSound, VisitTyped, Fields
<1> HIDE DEF visit
<1>5. /\ phase' \in [Requests -> SalePhases] /\ answer' \in [Requests -> Replies]
      /\ DOMAIN wish' = Requests /\ UNCHANGED <<menu, sold>>
      /\ \A q \in Requests \ {r} : phase'[q] = phase[q] /\ wish'[q] = wish[q]
      /\ phase'[r] = "open" /\ wish'[r].venue = old.venue /\ wish'[r].cart = cart
  BY <1>1, ComeFields
<1>6. UNCHANGED <<menu, sold, active, categories, shelf>>
  BY <1>1, <1>5 DEF shop
<1>7. Typed'
  BY <1>3, <1>5, <1>6 DEF IInv, Typed
<1>8. ASSUME NEW q \in Requests \ {r}
      PROVE  VisitSound(visits[q])' /\ OrderSound(q)'
  BY <1>3, <1>5, <1>6, SameVisit
<1>9. OrderSound(r)'
  BY <1>1, <1>3, <1>4, <1>5 DEF OrderSound
<1>10. VisitTyped(visits[r])' /\ VenueSound(visits[r])'
  BY <1>1, <1>2, <1>3, <1>4 DEF VisitSound, VisitTyped, VenueSound, Places
<1>11. CategoriesSound(visits[r])'
  BY <1>3, <1>4 DEF CategoriesSound
<1>12. ItemsSound(visits[r])'
  BY <1>1, <1>2, <1>3, <1>4, <1>6 DEF VisitSound, ItemsSound
<1>13. VisitSound(visits[r])'
  BY <1>10, <1>11, <1>12 DEF VisitSound
<1> QED  BY <1>7, <1>8, <1>9, <1>13 DEF IInv

\* A client that has left.
LEMMA LeaveKeeps ==
  ASSUME StorefrontAssumption, IInv, NEW r \in Requests, Show(r, Gone),
         UNCHANGED <<menu, shop>>,
         phase' \in [Requests -> SalePhases], answer' \in [Requests -> Replies],
         DOMAIN wish' = Requests, DOMAIN sold' = Requests,
         \A q \in Requests \ {r} : phase'[q] = phase[q] /\ wish'[q] = wish[q]
  PROVE  IInv'
<1>1. /\ DOMAIN visits' = Requests /\ visits'[r] = Gone
      /\ \A q \in Requests \ {r} : visits'[q] = visits[q]
  BY DEF Show, IInv, Typed
<1>2. UNCHANGED <<menu, active, categories, shelf>>
  BY DEF shop
<1>3. Typed'
  BY <1>1, <1>2 DEF IInv, Typed
<1>4. ASSUME NEW q \in Requests \ {r}
      PROVE  VisitSound(visits[q])' /\ OrderSound(q)'
  BY <1>1, <1>2, SameVisit
<1>5. VisitSound(Gone) /\ Gone.at = "gone" /\ Gone.known = {}
  BY OutsideIsSound DEF Gone, Outside
<1>6. OrderSound(r)'
  BY <1>1, <1>5 DEF OrderSound
<1>7. VisitTyped(visits[r])' /\ VenueSound(visits[r])'
  BY <1>1, <1>5 DEF VisitSound, VisitTyped, VenueSound
<1>8. CategoriesSound(visits[r])' /\ ItemsSound(visits[r])'
  BY <1>1, <1>5 DEF CategoriesSound, ItemsSound
<1>9. VisitSound(visits[r])'
  BY <1>7, <1>8 DEF VisitSound
<1> QED  BY <1>3, <1>4, <1>6, <1>9 DEF IInv

LEMMA OrderUnseenKeeps ==
  ASSUME StorefrontAssumption, IInv, NEW r \in Requests, NEW v \in Venues \cup {None},
         NEW cart \in Carts, OrderUnseen(r, v, cart)
  PROVE  IInv'
<1>1. Come(r, v, cart) /\ Show(r, Gone) /\ UNCHANGED shop
  BY DEF OrderUnseen
<1>2. /\ phase' \in [Requests -> SalePhases] /\ answer' \in [Requests -> Replies]
      /\ DOMAIN wish' = Requests /\ UNCHANGED <<menu, sold>>
      /\ \A q \in Requests \ {r} : phase'[q] = phase[q] /\ wish'[q] = wish[q]
  BY <1>1, ComeFields
<1>3. DOMAIN sold' = Requests
  BY <1>2 DEF IInv, Typed
<1>4. UNCHANGED <<menu, shop>>
  BY <1>1, <1>2
<1> QED  BY <1>1, <1>2, <1>3, <1>4, LeaveKeeps
-----------------------------------------------------------------------------
LEMMA LineOfSeq ==
  ASSUME NEW S, NEW s \in Seq(S), NEW n \in DOMAIN s
  PROVE  s[n] \in S
OBVIOUS

\* What a client orders from its menu is still on the menu of the venue.
LEMMA OrderedItems ==
  ASSUME StorefrontAssumption, IInv, NEW r \in Requests, visits[r].at = "ordering"
  PROVE  /\ phase[r] \in {"open", "sold"}
         /\ wish[r].venue = visits[r].venue /\ wish[r].venue # None
         /\ \A n \in DOMAIN wish[r].cart :
              /\ wish[r].cart[n].item \in Items /\ wish[r].cart[n].quantity \in Int
              /\ wish[r].cart[n].quantity > 0
              /\ menu[wish[r].cart[n].item].venue = wish[r].venue
              /\ visits[r].seen[wish[r].cart[n].item].available
              /\ wish[r].cart[n].item \notin visits[r].since =>
                   menu[wish[r].cart[n].item] = visits[r].seen[wish[r].cart[n].item]
<1>1. VisitSound(visits[r]) /\ OrderSound(r)
  BY DEF IInv
<1>2. /\ phase[r] \in {"open", "sold"}
      /\ wish[r].venue = visits[r].venue /\ wish[r].cart \in Carts
      /\ \A n \in DOMAIN wish[r].cart :
           visits[r].seen[wish[r].cart[n].item].available /\ wish[r].cart[n].quantity > 0
  BY <1>1 DEF OrderSound
<1>3. visits[r].venue \in Venues /\ visits[r].venue # None
  BY <1>1 DEF VisitSound, VenueSound, StorefrontAssumption
<1>4. wish[r].cart \in Seq([item : Items, quantity : Int])
  BY <1>2 DEF StorefrontAssumption
<1>5. ASSUME NEW n \in DOMAIN wish[r].cart
      PROVE  wish[r].cart[n].item \in Items /\ wish[r].cart[n].quantity \in Int
  <2>1. wish[r].cart[n] \in [item : Items, quantity : Int]
    BY <1>4, LineOfSeq
  <2> QED  BY <2>1
<1>6. \A i \in Items : visits[r].seen[i].available =>
        menu[i].venue = visits[r].venue /\ (i \notin visits[r].since => menu[i] = visits[r].seen[i])
  BY <1>1 DEF VisitSound, ItemsSound
<1> QED  BY <1>2, <1>3, <1>5, <1>6

\* Nothing dooms an order from the menu, and it is refused only when the venue
\* has written one of its items.
LEMMA OnlyTouchedIsRefused ==
  ASSUME StorefrontAssumption, IInv, NEW r \in Requests, visits[r].at = "ordering"
  PROVE  /\ ~NoVenue(r) /\ ~Doom(r) /\ ~Foreign(r)
         /\ Lacking(r) # {} => \E n \in DOMAIN wish[r].cart :
                                 wish[r].cart[n].item \in visits[r].since
<1>1. ~NoVenue(r)
  BY OrderedItems DEF NoVenue
<1>2. ~Doom(r)
  BY OrderedItems DEF Doom, OnMenu
<1>3. ~Foreign(r)
  BY OrderedItems DEF Foreign
<1>4. ASSUME NEW n \in Lacking(r)
      PROVE  n \in DOMAIN wish[r].cart /\ wish[r].cart[n].item \in visits[r].since
  <2>1. n \in DOMAIN wish[r].cart
    BY DEF Lacking
  <2> DEFINE line == wish[r].cart[n]
  <2>2. /\ wish[r].venue # None /\ menu[line.item].venue = wish[r].venue
        /\ line.quantity \in Int /\ line.quantity > 0
    BY <2>1, OrderedItems
  <2>3. OnMenu(line.item)
    BY <2>2 DEF OnMenu
  <2>4. ~OnMenu(line.item) \/ ~menu[line.item].available \/ line.quantity <= 0
    BY DEF Lacking
  <2> HIDE DEF line
  <2>5. ~(line.quantity <= 0)
    BY <2>2
  <2>6. ~menu[line.item].available
    BY <2>3, <2>4, <2>5
  <2> USE DEF line
  <2> QED  BY <2>1, <2>6, OrderedItems
<1> QED  BY <1>1, <1>2, <1>3, <1>4

\* A step of core changes nothing of another request.
LEMMA SettleFields ==
  ASSUME IInv, NEW r \in Requests, Settle(r)
  PROVE  /\ phase' \in [Requests -> SalePhases] /\ answer' \in [Requests -> Replies]
         /\ DOMAIN wish' = Requests /\ DOMAIN sold' = Requests /\ UNCHANGED menu
         /\ \A q \in Requests \ {r} :
              /\ phase'[q] = phase[q] /\ wish'[q] = wish[q]
              /\ answer'[q] = answer[q] /\ sold'[q] = sold[q]
<1>1. /\ phase \in [Requests -> SalePhases] /\ answer \in [Requests -> Replies]
      /\ DOMAIN wish = Requests /\ DOMAIN sold = Requests
  BY DEF IInv, Typed
<1>2. ASSUME NEW a \in Replies, Answer(r, a), sold' = sold, menu' = menu
      PROVE  /\ phase' \in [Requests -> SalePhases] /\ answer' \in [Requests -> Replies]
             /\ DOMAIN wish' = Requests /\ DOMAIN sold' = Requests /\ UNCHANGED menu
             /\ \A q \in Requests \ {r} :
                  /\ phase'[q] = phase[q] /\ wish'[q] = wish[q]
                  /\ answer'[q] = answer[q] /\ sold'[q] = sold[q]
  <2>1. "done" \in SalePhases
    BY DEF SalePhases
  <2>2. /\ phase' = [phase EXCEPT ![r] = "done"] /\ answer' = [answer EXCEPT ![r] = a]
        /\ wish' = [wish EXCEPT ![r] = Nothing]
    BY <1>2 DEF Answer
  <2>3. phase' \in [Requests -> SalePhases] /\ answer' \in [Requests -> Replies]
    BY <1>1, <2>1, <2>2
  <2>4. DOMAIN wish' = Requests /\ DOMAIN sold' = Requests
    BY <1>1, <1>2, <2>2
  <2>5. ASSUME NEW q \in Requests \ {r}
        PROVE  phase'[q] = phase[q] /\ wish'[q] = wish[q] /\ answer'[q] = answer[q]
    BY <1>1, <2>2
  <2> QED  BY <1>2, <2>3, <2>4, <2>5
<1>3. {"201", "400", "404", "409", "500"} \subseteq Replies
  BY DEF Replies
<1>4. CASE NoVenue(r)
  BY <1>2, <1>3, <1>4 DEF NoVenue
<1>5. CASE Doom(r)
  <2>1. "doomed" \in SalePhases
    BY DEF SalePhases
  <2> QED  BY <1>1, <1>5, <2>1 DEF Doom, Turn
<1>6. CASE Refuse(r)
  <2>1. (Answer(r, "400") \/ Answer(r, "409")) /\ sold' = sold /\ menu' = menu
    BY <1>6 DEF Refuse
  <2> QED  BY <1>2, <1>3, <2>1
<1>7. CASE Sell(r)
  <2>1. sold' = [sold EXCEPT ![r] = Offer(r)] /\ menu' = menu
    BY <1>7 DEF Sell
  <2>2. "sold" \in SalePhases /\ "done" \in SalePhases /\ "500" \in Replies
    BY DEF SalePhases, Replies
  <2>3. CASE Turn(r, "sold")
    BY <1>1, <2>1, <2>2, <2>3 DEF Turn
  <2>4. CASE Answer(r, "500")
    BY <1>1, <2>1, <2>2, <2>4 DEF Answer
  <2> QED  BY <1>7, <2>3, <2>4 DEF Sell
<1>8. CASE Confirm(r)
  BY <1>2, <1>3, <1>8 DEF Confirm
<1>9. CASE Lapse(r)
  BY <1>2, <1>3, <1>9 DEF Lapse
<1> QED  BY <1>4, <1>5, <1>6, <1>7, <1>8, <1>9 DEF Settle

\* An order from the menu is answered or sold.
LEMMA OrderedIsServed ==
  ASSUME StorefrontAssumption, IInv, NEW r \in Requests, visits[r].at = "ordering",
         Settle(r), phase'[r] # "done"
  PROVE  phase'[r] = "sold" /\ wish'[r] = wish[r]
<1>1. phase \in [Requests -> SalePhases]
  BY DEF IInv, Typed
<1>2. ASSUME NEW a, Answer(r, a)
      PROVE  phase'[r] = "done"
  BY <1>1, <1>2 DEF Answer
<1>3. ~NoVenue(r) /\ ~Doom(r)
  BY OnlyTouchedIsRefused
<1>4. ~Refuse(r) /\ ~Confirm(r) /\ ~Lapse(r)
  BY <1>2 DEF Refuse, Confirm, Lapse
<1>5. Turn(r, "sold")
  BY <1>2, <1>3, <1>4 DEF Settle, Sell
<1> QED  BY <1>1, <1>5 DEF Turn

LEMMA ServeKeeps ==
  ASSUME StorefrontAssumption, IInv, NEW r \in Requests, Serve(r)
  PROVE  IInv'
<1>1. Settle(r) /\ UNCHANGED shop
  BY DEF Serve
<1>2. /\ phase' \in [Requests -> SalePhases] /\ answer' \in [Requests -> Replies]
      /\ DOMAIN wish' = Requests /\ DOMAIN sold' = Requests /\ UNCHANGED menu
      /\ \A q \in Requests \ {r} : phase'[q] = phase[q] /\ wish'[q] = wish[q]
  BY <1>1, SettleFields
<1>3. CASE phase'[r] = "done"
  <2>1. Show(r, Gone) /\ UNCHANGED <<menu, shop>>
    BY <1>1, <1>2, <1>3 DEF Serve
  <2> QED  BY <1>2, <2>1, LeaveKeeps
<1>4. CASE phase'[r] # "done"
  <2>1. Show(r, visits[r])
    BY <1>4 DEF Serve
  <2>2. DOMAIN visits' = Requests /\ \A q \in Requests : visits'[q] = visits[q]
    BY <2>1 DEF Show, IInv, Typed
  <2>3. UNCHANGED <<active, categories, shelf>>
    BY <1>1 DEF shop
  <2>4. Typed'
    BY <1>2, <2>2, <2>3 DEF IInv, Typed
  <2>5. ASSUME NEW q \in Requests
        PROVE  VisitSound(visits[q])'
    BY <1>2, <2>2, <2>3, VisitStays
  <2>6. ASSUME NEW q \in Requests \ {r}
        PROVE  OrderSound(q)'
    BY <1>2, <2>2, <2>3, SameVisit
  <2>7. OrderSound(r)'
    <3>1. CASE visits[r].at = "ordering"
      <4>1. phase'[r] = "sold" /\ wish'[r] = wish[r]
        BY <1>1, <1>4, <3>1, OrderedIsServed
      <4>2. OrderSound(r)
        BY DEF IInv
      <4> QED  BY <2>2, <4>1, <4>2, <3>1 DEF OrderSound
    <3>2. CASE visits[r].at # "ordering"
      BY <2>2, <3>2 DEF OrderSound
    <3> QED  BY <3>1, <3>2
  <2> QED  BY <2>4, <2>5, <2>6, <2>7 DEF IInv
<1> QED  BY <1>3, <1>4
-----------------------------------------------------------------------------
\* VenueMenuUseCase and the operator.

\* The writing of a row is noted in every menu that was read before.
LEMMA NoteFields ==
  ASSUME IInv, NEW i \in Items, Note(i), NEW q \in Requests
  PROVE  /\ DOMAIN visits' = Requests /\ DOMAIN visits'[q] = Fields
         /\ visits'[q].at = visits[q].at /\ visits'[q].page = visits[q].page
         /\ visits'[q].venue = visits[q].venue
         /\ visits'[q].categories = visits[q].categories
         /\ visits'[q].known = visits[q].known /\ visits'[q].seen = visits[q].seen
         /\ visits[q].at \in {"menu", "ordering"} =>
              visits'[q].since = visits[q].since \cup {i}
<1> DEFINE old == visits[q]
<1>1. DOMAIN old = Fields
  BY DEF IInv, VisitSound, VisitTyped
<1>2. /\ DOMAIN visits' = Requests
      /\ visits'[q] = IF old.at \in {"menu", "ordering"}
                        THEN [old EXCEPT !.since = @ \cup {i}] ELSE old
  BY DEF Note
<1> HIDE DEF old
<1>3. CASE old.at \in {"menu", "ordering"}
  <2>1. visits'[q] = [old EXCEPT !.since = old.since \cup {i}]
    BY <1>2, <1>3
  <2> QED  BY <1>1, <1>2, <2>1 DEF Fields, old
<1>4. CASE old.at \notin {"menu", "ordering"}
  BY <1>1, <1>2, <1>4 DEF old
<1> QED  BY <1>3, <1>4

\* A row of the menu is written: it is new, or stays the venue's.
LEMMA WriteKeeps ==
  ASSUME StorefrontAssumption, IInv, NEW i \in Items, NEW row \in Row,
         menu' = [menu EXCEPT ![i] = row], OnMenu(i) => row.venue = menu[i].venue,
         shelf' \in [Items -> Categories \cup {None}], Note(i),
         UNCHANGED <<phase, wish, answer, sold, told, active, categories>>
  PROVE  IInv'
<1>1. Typed'
  <2>1. menu' \in [Items -> Row]
    BY DEF IInv, Typed
  <2>2. DOMAIN visits' = Requests
    BY DEF Note
  <2> QED  BY <2>1, <2>2 DEF IInv, Typed
<1>2. ASSUME NEW q \in Requests
      PROVE  VisitSound(visits[q])' /\ OrderSound(q)'
  <2>1. VisitSound(visits[q]) /\ OrderSound(q)
    BY DEF IInv
  <2>2. /\ DOMAIN visits'[q] = Fields
        /\ visits'[q].at = visits[q].at /\ visits'[q].page = visits[q].page
        /\ visits'[q].venue = visits[q].venue
        /\ visits'[q].categories = visits[q].categories
        /\ visits'[q].known = visits[q].known /\ visits'[q].seen = visits[q].seen
        /\ visits[q].at \in {"menu", "ordering"} =>
             visits'[q].since = visits[q].since \cup {i}
    BY NoteFields
  <2>3. VisitTyped(visits[q])' /\ VenueSound(visits[q])'
    BY <2>1, <2>2 DEF VisitSound, VisitTyped, VenueSound
  <2>4. CategoriesSound(visits[q])'
    BY <2>1, <2>2 DEF VisitSound, CategoriesSound, Exists
  <2>5. OrderSound(q)'
    BY <2>1, <2>2 DEF OrderSound
  <2>6. ItemsSound(visits[q])'
    <3> SUFFICES ASSUME visits[q].at \in {"menu", "ordering"}, NEW j \in Items,
                        visits[q].seen[j].available
                 PROVE  /\ menu'[j].venue = visits[q].venue
                        /\ j \notin visits[q].since \cup {i} => menu'[j] = visits[q].seen[j]
      BY <2>2 DEF ItemsSound
    <3>1. /\ menu[j].venue = visits[q].venue
          /\ j \notin visits[q].since => menu[j] = visits[q].seen[j]
      BY <2>1 DEF VisitSound, ItemsSound
    <3>2. visits[q].venue # None
      BY <2>1 DEF VisitSound, VenueSound, StorefrontAssumption
    <3>3. menu \in [Items -> Row]
      BY DEF IInv, Typed
    <3>4. CASE j = i
      BY <3>1, <3>2, <3>3, <3>4 DEF OnMenu
    <3>5. CASE j # i
      BY <3>1, <3>3, <3>5
    <3> QED  BY <3>4, <3>5
  <2> QED  BY <2>3, <2>4, <2>5, <2>6 DEF VisitSound
<1> QED  BY <1>1, <1>2 DEF IInv

LEMMA CreateItemKeeps ==
  ASSUME StorefrontAssumption, IInv, NEW i \in Items, NEW v \in Venues,
         NEW price \in Prices, NEW c \in Categories \cup {None}, CreateItem(i, v, price, c)
  PROVE  IInv'
<1> DEFINE row == [venue |-> v, price |-> price, available |-> TRUE]
<1>1. row \in Row
  BY DEF Row
<1>2. ~OnMenu(i) /\ menu' = [menu EXCEPT ![i] = row]
  BY DEF CreateItem, List
<1>3. /\ shelf' = [shelf EXCEPT ![i] = c] /\ Note(i)
      /\ UNCHANGED <<phase, wish, answer, sold, told, active, categories>>
  BY DEF CreateItem
<1>4. shelf' \in [Items -> Categories \cup {None}]
  BY <1>3 DEF IInv, Typed
<1> HIDE DEF row
<1> QED  BY <1>1, <1>2, <1>3, <1>4, WriteKeeps

LEMMA AlterKeeps ==
  ASSUME StorefrontAssumption, IInv, NEW i \in Items, NEW price \in Prices \cup {0},
         NEW available \in BOOLEAN, Alter(i, price, available), Note(i),
         UNCHANGED <<phase, wish, answer, sold, told, shop>>
  PROVE  IInv'
<1> DEFINE row == [menu[i] EXCEPT !.price = price, !.available = available]
<1>1. menu \in [Items -> Row] /\ shelf \in [Items -> Categories \cup {None}]
  BY DEF IInv, Typed
<1>2. menu' = [menu EXCEPT ![i] = row]
  BY <1>1 DEF Alter
<1>3. menu[i] \in Row
  BY <1>1
<1>4. row \in Row /\ row.venue = menu[i].venue
  BY <1>3 DEF Row
<1>5. /\ UNCHANGED <<phase, wish, answer, sold, told, active, categories>>
      /\ shelf' \in [Items -> Categories \cup {None}]
  BY <1>1 DEF shop
<1> HIDE DEF row
<1> QED  BY <1>2, <1>4, <1>5, WriteKeeps

LEMMA SetAvailabilityKeeps ==
  ASSUME StorefrontAssumption, IInv, NEW i \in Items, NEW available \in BOOLEAN,
         SetAvailability(i, available)
  PROVE  IInv'
<1>1. menu \in [Items -> Row]
  BY DEF IInv, Typed
<1>2. menu[i].price \in Prices \cup {0}
  BY <1>1 DEF Row
<1> QED  BY <1>2, AlterKeeps DEF SetAvailability

LEMMA UpdateItemKeeps ==
  ASSUME StorefrontAssumption, IInv, NEW i \in Items, NEW price \in Prices,
         UpdateItem(i, price)
  PROVE  IInv'
<1>1. menu \in [Items -> Row]
  BY DEF IInv, Typed
<1>2. menu[i].available \in BOOLEAN
  BY <1>1 DEF Row
<1> QED  BY <1>2, AlterKeeps DEF UpdateItem

LEMMA CreateCategoryKeeps ==
  ASSUME StorefrontAssumption, IInv, NEW c \in Categories, NEW v \in Venues,
         CreateCategory(c, v)
  PROVE  IInv'
<1>1. /\ ~Exists(c) /\ categories' = [categories EXCEPT ![c] = v]
      /\ UNCHANGED <<menu, phase, wish, answer, sold, active, shelf, visits>>
  BY DEF CreateCategory, sale
<1>2. Typed'
  BY <1>1 DEF IInv, Typed
<1>3. ASSUME NEW q \in Requests
      PROVE  VisitSound(visits[q])' /\ OrderSound(q)'
  <2>1. VisitSound(visits[q]) /\ OrderSound(q)
    BY DEF IInv
  <2>2. VisitTyped(visits[q])' /\ VenueSound(visits[q])'
    BY <1>1, <2>1 DEF VisitSound, VisitTyped, VenueSound
  <2>3. ItemsSound(visits[q])' /\ OrderSound(q)'
    BY <1>1, <2>1 DEF VisitSound, ItemsSound, OrderSound
  <2>4. CategoriesSound(visits[q])'
    <3> SUFFICES ASSUME NEW k \in visits[q].known
                 PROVE  /\ Exists(k)'
                        /\ categories'[k] = visits[q].venue => k \in visits[q].categories
      BY <1>1 DEF CategoriesSound
    <3>1. Exists(k) /\ (categories[k] = visits[q].venue => k \in visits[q].categories)
      BY <2>1 DEF VisitSound, CategoriesSound
    <3>2. k # c /\ k \in Categories
      BY <1>1, <2>1, <3>1 DEF VisitSound, VisitTyped
    <3>3. categories'[k] = categories[k]
      BY <1>1, <3>2 DEF IInv, Typed
    <3> QED  BY <3>1, <3>3 DEF Exists
  <2> QED  BY <2>2, <2>3, <2>4 DEF VisitSound
<1> QED  BY <1>2, <1>3 DEF IInv

LEMMA SetActiveKeeps ==
  ASSUME IInv, NEW vs \in SUBSET Venues, SetActive(vs)
  PROVE  IInv'
<1>1. active' = vs /\ UNCHANGED <<menu, phase, wish, answer, sold, categories, shelf, visits>>
  BY DEF SetActive, sale
<1>2. Typed'
  BY <1>1 DEF IInv, Typed
<1>3. ASSUME NEW q \in Requests
      PROVE  VisitSound(visits[q])' /\ OrderSound(q)'
  BY <1>1, SameVisit
<1> QED  BY <1>2, <1>3 DEF IInv
-----------------------------------------------------------------------------
LEMMA InitEstablishes == StorefrontAssumption /\ Init => IInv
<1> SUFFICES ASSUME StorefrontAssumption, Init PROVE IInv
  OBVIOUS
<1>1. menu \in [Items -> Row]
  <2>1. NoItem \in Row /\ [venue : Venues, price : Prices, available : {TRUE}] \subseteq Row
    BY DEF NoItem, Row
  <2>2. menu \in [Items -> {NoItem} \cup [venue : Venues, price : Prices, available : {TRUE}]]
    BY DEF Init, SaleInit
  <2> QED  BY <2>1, <2>2
<1>2. /\ phase = [r \in Requests |-> "new"] /\ answer = [r \in Requests |-> "none"]
      /\ DOMAIN wish = Requests /\ DOMAIN sold = Requests
  BY DEF Init, SaleInit
<1>3. "new" \in SalePhases /\ "none" \in Replies
  BY DEF SalePhases, Replies
<1>4. phase \in [Requests -> SalePhases] /\ answer \in [Requests -> Replies]
  BY <1>2, <1>3
<1>5. /\ active \subseteq Venues /\ categories \in [Categories -> Venues \cup {None}]
      /\ shelf \in [Items -> Categories \cup {None}]
      /\ visits = [r \in Requests |-> Outside]
  BY DEF Init
<1>6. Typed
  BY <1>1, <1>2, <1>4, <1>5 DEF Typed
<1>7. ASSUME NEW r \in Requests
      PROVE  VisitSound(visits[r]) /\ OrderSound(r)
  <2>1. visits[r] = Outside
    BY <1>5
  <2>2. OrderSound(r)
    BY <2>1 DEF OrderSound, Outside
  <2> QED  BY <2>1, <2>2, OutsideIsSound
<1> QED  BY <1>6, <1>7 DEF IInv

LEMMA NextKeeps == StorefrontAssumption /\ IInv /\ [Next]_vars => IInv'
<1> SUFFICES ASSUME StorefrontAssumption, IInv, [Next]_vars PROVE IInv'
  OBVIOUS
<1>1. CASE UNCHANGED vars
  <2>1. UNCHANGED <<menu, phase, wish, answer, sold, active, categories, shelf, visits>>
    BY <1>1 DEF vars, sale, shop
  <2>2. Typed'
    BY <2>1 DEF IInv, Typed
  <2> QED  BY <2>1, <2>2, SameVisit DEF IInv
<1>2. ASSUME NEW r \in Requests, Browse(r)
      PROVE  IInv'
  BY <1>2, ListVenuesKeeps, OpenMenuKeeps, ListCategoriesKeeps, ListItemsKeeps,
     VisitFailsKeeps DEF Browse
<1>3. ASSUME NEW r \in Requests, Order(r)
      PROVE  IInv'
  BY <1>3, OrderFromMenuKeeps, OrderUnseenKeeps DEF Order
<1>4. ASSUME NEW r \in Requests, Serve(r)
      PROVE  IInv'
  BY <1>4, ServeKeeps
<1>5. CASE Manage
  BY <1>5, CreateItemKeeps, SetAvailabilityKeeps, UpdateItemKeeps, CreateCategoryKeeps,
     SetActiveKeeps DEF Manage
<1> QED  BY <1>1, <1>2, <1>3, <1>4, <1>5 DEF Next

\* What was shown to a client keeps its meaning while the venue writes.
THEOREM Invariance == Spec => []IInv
<1>1. Init => IInv
  BY InitEstablishes, StorefrontAssumption
<1>2. IInv /\ [Next]_vars => IInv'
  BY NextKeeps, StorefrontAssumption
<1> QED  BY <1>1, <1>2, PTL DEF Spec

\* Every variable keeps its shape, and no page is longer than the limit.
THEOREM TypeCorrect == Spec => []TypeOK
<1>1. IInv => TypeOK
  <2> SUFFICES ASSUME IInv PROVE TypeOK
    OBVIOUS
  <2>1. Typed
    BY DEF IInv
  <2>2. ASSUME NEW r \in Requests
        PROVE  /\ phase[r] \in SalePhases /\ answer[r] \in Replies
               /\ visits[r].at \in Places /\ Cardinality(visits[r].page) <= PageSize
               /\ visits[r].venue \in Venues \cup {None}
    BY <2>1 DEF IInv, Typed, VisitSound, VisitTyped
  <2> QED  BY <2>1, <2>2 DEF TypeOK, Typed, Row, SalePhases, Replies, Places
<1> QED  BY <1>1, Invariance, PTL

\* The three statements of GetVenueMenu fit together, whatever the venue writes
\* between them: a category that was there when they were listed is on the menu
\* or another venue's for ever after.
THEOREM MenusFitTogether == Spec => []CategoriesExplainItems
<1>1. StorefrontAssumption /\ IInv => CategoriesExplainItems
  <2> SUFFICES ASSUME StorefrontAssumption, IInv, NEW r \in Requests, NEW i \in Items,
                      shelf[i] \in visits[r].known
               PROVE  shelf[i] \in visits[r].categories \/ categories[shelf[i]] # visits[r].venue
    BY DEF CategoriesExplainItems
  <2> QED  BY DEF IInv, VisitSound, CategoriesSound
<1> QED  BY <1>1, StorefrontAssumption, Invariance, PTL
-----------------------------------------------------------------------------
\* What a step may do to the order of a client that chose from its menu.
Touched(r) ==
  \E n \in DOMAIN wish[r].cart : wish[r].cart[n].item \in visits[r].since

AnsweredFairly(r) ==
  answer'[r] # answer[r] =>
    answer'[r] \in {"201", "500"} \/ (answer'[r] = "409" /\ Touched(r))

SoldAsSeen(r) ==
  sold'[r] # sold[r] /\ ~Touched(r) =>
    \A n \in DOMAIN sold'[r].lines :
      sold'[r].lines[n].price = visits[r].seen[sold'[r].lines[n].item].price

LEMMA OthersAreNotSurprised ==
  ASSUME IInv, NEW r \in Requests, visits[r].at = "ordering",
         NEW q \in Requests, Order(q) \/ (Serve(q) /\ q # r)
  PROVE  answer'[r] = answer[r] /\ sold'[r] = sold[r]
<1>1. CASE Order(q)
  <2>1. visits[q].at \in {"menu", "door"} /\ q # r
    BY <1>1 DEF Order, OrderFromMenu, OrderUnseen
  <2>2. ASSUME NEW v, NEW cart, Come(q, v, cart)
        PROVE  answer'[r] = answer[r] /\ sold'[r] = sold[r]
    BY <2>1, <2>2, ComeFields
  <2> QED  BY <1>1, <2>2 DEF Order, OrderFromMenu, OrderUnseen
<1>2. CASE Serve(q) /\ q # r
  BY <1>2, SettleFields DEF Serve
<1> QED  BY <1>1, <1>2

LEMMA ServedFairly ==
  ASSUME StorefrontAssumption, IInv, NEW r \in Requests, visits[r].at = "ordering",
         Settle(r)
  PROVE  AnsweredFairly(r) /\ SoldAsSeen(r)
<1>1. /\ ~NoVenue(r) /\ ~Doom(r) /\ ~Foreign(r)
      /\ Lacking(r) # {} => Touched(r)
  BY OnlyTouchedIsRefused DEF Touched
<1>2. phase[r] \in {"open", "sold"}
  BY OrderedItems
<1>3. answer \in [Requests -> Replies] /\ DOMAIN sold = Requests
  BY DEF IInv, Typed
<1>4. ASSUME NEW a, Answer(r, a)
      PROVE  answer'[r] = a
  BY <1>3, <1>4 DEF Answer
<1>5. CASE Refuse(r)
  <2>1. Lacking(r) # {} /\ Answer(r, "409") /\ sold' = sold
    BY <1>1, <1>2, <1>5 DEF Refuse
  <2> QED  BY <1>1, <1>4, <2>1 DEF AnsweredFairly, SoldAsSeen
<1>6. CASE Sell(r)
  <2>1. answer'[r] = answer[r] \/ answer'[r] = "500"
    BY <1>4, <1>6 DEF Sell, Turn
  <2>2. sold'[r] = Offer(r)
    BY <1>3, <1>6 DEF Sell
  <2>3. ASSUME ~Touched(r), NEW n \in DOMAIN sold'[r].lines
        PROVE  sold'[r].lines[n].price = visits[r].seen[sold'[r].lines[n].item].price
    <3>1. /\ n \in DOMAIN wish[r].cart
          /\ sold'[r].lines[n].item = wish[r].cart[n].item
          /\ sold'[r].lines[n].price = menu[wish[r].cart[n].item].price
      <4> DEFINE lines == [m \in DOMAIN wish[r].cart |->
                             [item |-> wish[r].cart[m].item,
                              price |-> menu[wish[r].cart[m].item].price,
                              quantity |-> wish[r].cart[m].quantity]]
      <4>1. sold'[r].lines = lines
        BY <2>2 DEF Offer
      <4>2. n \in DOMAIN lines
        BY <2>3, <4>1
      <4>3. n \in DOMAIN wish[r].cart
        BY <4>2
      <4>4. lines[n] = [item |-> wish[r].cart[n].item,
                        price |-> menu[wish[r].cart[n].item].price,
                        quantity |-> wish[r].cart[n].quantity]
        BY <4>3
      <4> HIDE DEF lines
      <4> QED  BY <4>1, <4>3, <4>4
    <3>2. wish[r].cart[n].item \notin visits[r].since
      BY <2>3, <3>1 DEF Touched
    <3>3. menu[wish[r].cart[n].item] = visits[r].seen[wish[r].cart[n].item]
      BY <3>1, <3>2, OrderedItems
    <3> QED  BY <3>1, <3>3
  <2>4. SoldAsSeen(r)
    BY <2>3 DEF SoldAsSeen
  <2>5. AnsweredFairly(r)
    BY <2>1 DEF AnsweredFairly
  <2> QED  BY <2>4, <2>5
<1>7. CASE Confirm(r)
  BY <1>4, <1>7 DEF Confirm, AnsweredFairly, SoldAsSeen
<1>8. CASE Lapse(r)
  BY <1>4, <1>8 DEF Lapse, AnsweredFairly, SoldAsSeen
<1> QED  BY <1>1, <1>5, <1>6, <1>7, <1>8 DEF Settle

LEMMA NobodySurprised ==
  ASSUME StorefrontAssumption, IInv, [Next]_vars, NEW r \in Requests,
         visits[r].at = "ordering"
  PROVE  AnsweredFairly(r) /\ SoldAsSeen(r)
<1>1. ASSUME answer'[r] = answer[r], sold'[r] = sold[r]
      PROVE  AnsweredFairly(r) /\ SoldAsSeen(r)
  BY <1>1 DEF AnsweredFairly, SoldAsSeen
<1>2. CASE UNCHANGED vars
  BY <1>1, <1>2 DEF vars, sale
<1>3. ASSUME NEW q \in Requests, Browse(q)
      PROVE  AnsweredFairly(r) /\ SoldAsSeen(r)
  <2>1. UNCHANGED <<answer, sold>>
    BY <1>3 DEF Browse, ListVenues, OpenMenu, ListCategories, ListItems, VisitFails, sale
  <2> QED  BY <1>1, <2>1
<1>4. ASSUME NEW q \in Requests, Order(q)
      PROVE  AnsweredFairly(r) /\ SoldAsSeen(r)
  BY <1>1, <1>4, OthersAreNotSurprised
<1>5. ASSUME NEW q \in Requests, Serve(q)
      PROVE  AnsweredFairly(r) /\ SoldAsSeen(r)
  <2>1. CASE q # r
    BY <1>1, <1>5, <2>1, OthersAreNotSurprised
  <2>2. CASE q = r
    BY <1>5, <2>2, ServedFairly DEF Serve
  <2> QED  BY <2>1, <2>2
<1>6. CASE Manage
  <2>1. UNCHANGED <<answer, sold>>
    BY <1>6 DEF Manage, CreateItem, SetAvailability, UpdateItem, CreateCategory,
                SetActive, sale
  <2> QED  BY <1>1, <2>1
<1> QED  BY <1>2, <1>3, <1>4, <1>5, <1>6 DEF Next

\* A client that orders what its menu showed as available is never told that its
\* items are of another venue or that the venue does not exist; it is refused,
\* or pays another price, only if the venue has written one of its items since.
THEOREM OnlyTheVenueSurprises == Spec => OnlyChangesSurprise
<1>1. StorefrontAssumption /\ IInv /\ [Next]_vars =>
        [\A r \in Requests : visits[r].at = "ordering" =>
           LET touched == \E n \in DOMAIN wish[r].cart :
                            wish[r].cart[n].item \in visits[r].since
           IN /\ answer'[r] # answer[r] =>
                   \/ answer'[r] \in {"201", "500"}
                   \/ answer'[r] = "409" /\ touched
              /\ sold'[r] # sold[r] /\ ~touched =>
                   \A n \in DOMAIN sold'[r].lines :
                     sold'[r].lines[n].price = visits[r].seen[sold'[r].lines[n].item].price]_vars
  BY NobodySurprised DEF AnsweredFairly, SoldAsSeen, Touched
<1> QED  BY <1>1, StorefrontAssumption, Invariance, PTL DEF Spec, OnlyChangesSurprise
==============================================================================
