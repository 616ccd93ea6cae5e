------------------------------ MODULE Storefront ------------------------------
(***************************************************************************)
(* A client's way from the list of venues to an order (CatalogUseCase and  *)
(* POST /orders), while venues change what it is shown (VenueMenuUseCase). *)
(*                                                                         *)
(* The list is one statement.  A menu is three: the venue, its categories, *)
(* its items, each on a connection of its own and without a transaction,   *)
(* so the venue can write between them.  Nothing is held from the menu to  *)
(* the order.  Orders are placed as Sale says, which Checkout implements.  *)
(*                                                                         *)
(* Categories and the active flag of venues have writers in the schema and *)
(* in the use cases, but no route: their actions are what an operator does. *)
(***************************************************************************)
EXTENDS Sale, FiniteSets, SequencesExt

CONSTANTS Categories,   \* ids of menu_categories
          Cities,       \* cities of venues
          CityOf,       \* Venues -> Cities
          VenuesByName, \* the venues in the order of their names
          PageSize      \* the limit of GET /venues

ASSUME StorefrontAssumption ==
  /\ None \notin Venues \cup Categories \cup Cities
  /\ CityOf \in [Venues -> Cities]
  /\ Range(VenuesByName) = Venues
  /\ Carts \subseteq Seq([item : Items, quantity : Int])
  /\ PageSize \in Nat \ {0}

VARIABLES active,     \* the venues that are active
          categories, \* Categories -> the venue of the category, None before it exists
          shelf,      \* Items -> the item's category, or None
          visits      \* Requests -> what the request's client has been shown

shop == <<active, categories, shelf>>
vars == <<sale, shop, visits>>

\* known and since are history variables: the categories there were when
\* ListCategories read them, and the items written since ListItems did.
Outside == [at |-> "door", page |-> {}, venue |-> None, categories |-> {},
            known |-> {}, seen |-> [i \in Items |-> NoItem], since |-> {}]
Gone == [Outside EXCEPT !.at = "gone"]

Exists(c) == c # None /\ categories[c] # None

Init ==
  /\ SaleInit
  /\ active = Venues
  /\ categories \in [Categories -> Venues \cup {None}]
  /\ shelf \in [Items -> Categories \cup {None}]
  /\ \A i \in Items : shelf[i] # None => OnMenu(i) /\ Exists(shelf[i])
  /\ visits = [r \in Requests |-> Outside]

Show(r, visit) == visits' = [visits EXCEPT ![r] = visit]
-----------------------------------------------------------------------------
\* Slips: no part of the specification, each breaks one of its properties.

\* SELECT ... FROM menu_items without its WHERE.
AllItems(v) == [i \in Items |-> menu[i]]

\* The categories come from a join with their items.
CategoriesInUse(v) == {c \in Categories : categories[c] = v /\ \E i \in Items : shelf[i] = c}

\* The list forgets its limit.
WholeList(city) == active
-----------------------------------------------------------------------------
\* CatalogUseCase, one action per statement.

\* List: of the active venues, in the city if one is given, the first by name.
\* The handler has no parameter but the city: the offset is always 0.
Page(city) ==
  LET Asked(v) == v \in active /\ (city # None => CityOf[v] = city)
      listed == SelectSeq(VenuesByName, Asked)
  IN  {listed[n] : n \in DOMAIN listed \cap 1..PageSize}

ListVenues(r, city) ==
  /\ visits[r].at = "door"
  /\ Show(r, [Outside EXCEPT !.at = "listed", !.page = Page(city)])
  /\ UNCHANGED <<sale, shop>>

\* GetVenueMenu reads the venue, one from the list or from an old link, by its
\* id alone: GetByID does not look at is_active.
OpenMenu(r, v) ==
  /\ \/ visits[r].at = "door"
     \/ visits[r].at = "listed" /\ v \in visits[r].page
  /\ Show(r, [Outside EXCEPT !.at = IF v \in Venues THEN "venue" ELSE "lost", !.venue = v])
  /\ UNCHANGED <<sale, shop>>

CategoriesOf(v) == {c \in Categories : categories[c] = v}

ListCategories(r) ==
  /\ visits[r].at = "venue"
  /\ Show(r, [visits[r] EXCEPT !.at = "categories",
                !.categories = CategoriesOf(visits[r].venue),
                !.known = {c \in Categories : Exists(c)}])
  /\ UNCHANGED <<sale, shop>>

\* Items that are not available are listed too, and say so.
ItemsOf(v) == [i \in Items |-> IF menu[i].venue = v THEN menu[i] ELSE NoItem]

ListItems(r) ==
  /\ visits[r].at = "categories"
  /\ Show(r, [visits[r] EXCEPT !.at = "menu", !.seen = ItemsOf(visits[r].venue)])
  /\ UNCHANGED <<sale, shop>>

\* A statement of the catalog fails, and the client starts again.
VisitFails(r) ==
  /\ visits[r].at \in {"venue", "categories"}
  /\ Show(r, Outside)
  /\ UNCHANGED <<sale, shop>>
-----------------------------------------------------------------------------
\* POST /orders.

\* Of items that the client was shown as available, at the venue it looked at.
OrderFromMenu(r, cart) ==
  /\ visits[r].at = "menu"
  /\ cart # <<>>
  /\ \A n \in DOMAIN cart : visits[r].seen[cart[n].item].available /\ cart[n].quantity > 0
  /\ Come(r, visits[r].venue, cart)
  /\ Show(r, [visits[r] EXCEPT !.at = "ordering", !.categories = {}, !.known = {}])
  /\ UNCHANGED shop

\* Of anything, by a client that has not looked.
OrderUnseen(r, v, cart) ==
  /\ visits[r].at = "door"
  /\ Come(r, v, cart)
  /\ Show(r, Gone)
  /\ UNCHANGED shop

\* Core works on the order; the client leaves with the answer.
Serve(r) ==
  /\ Settle(r)
  /\ Show(r, IF phase'[r] = "done" THEN Gone ELSE visits[r])
  /\ UNCHANGED shop
-----------------------------------------------------------------------------
\* VenueMenuUseCase and the operator.

Note(i) == visits' = [r \in Requests |->
  IF visits[r].at \in {"menu", "ordering"}
    THEN [visits[r] EXCEPT !.since = @ \cup {i}] ELSE visits[r]]

\* The category need only exist: the foreign key does not ask whose it is.
CreateItem(i, v, price, c) ==
  /\ c # None => Exists(c)
  /\ List(i, v, price)
  /\ shelf' = [shelf EXCEPT ![i] = c]
  /\ Note(i)
  /\ UNCHANGED <<phase, wish, answer, sold, told, active, categories>>

SetAvailability(i, available) ==
  /\ Alter(i, menu[i].price, available)
  /\ Note(i)
  /\ UNCHANGED <<phase, wish, answer, sold, told, shop>>

UpdateItem(i, price) ==
  /\ Alter(i, price, menu[i].available)
  /\ Note(i)
  /\ UNCHANGED <<phase, wish, answer, sold, told, shop>>

CreateCategory(c, v) ==
  /\ ~Exists(c)
  /\ categories' = [categories EXCEPT ![c] = v]
  /\ UNCHANGED <<sale, active, shelf, visits>>

SetActive(vs) ==
  /\ active' = vs
  /\ UNCHANGED <<sale, categories, shelf, visits>>
-----------------------------------------------------------------------------
Browse(r) ==
  \/ ListCategories(r) \/ ListItems(r) \/ VisitFails(r)
  \/ \E city \in Cities \cup {None} : ListVenues(r, city)
  \/ \E v \in Venues \cup {None} : OpenMenu(r, v)

Order(r) ==
  \E cart \in Carts :
    \/ OrderFromMenu(r, cart)
    \/ \E v \in Venues \cup {None} : OrderUnseen(r, v, cart)

Manage ==
  \/ \E i \in Items :
       \/ \E v \in Venues, price \in Prices, c \in Categories \cup {None} :
            CreateItem(i, v, price, c)
       \/ \E available \in BOOLEAN : SetAvailability(i, available)
       \/ \E price \in Prices : UpdateItem(i, price)
  \/ \E c \in Categories, v \in Venues : CreateCategory(c, v)
  \/ \E vs \in SUBSET Venues : SetActive(vs)

Next == (\E r \in Requests : Browse(r) \/ Order(r) \/ Serve(r)) \/ Manage

Spec == Init /\ [][Next]_vars
-----------------------------------------------------------------------------
\* Every variable keeps its shape.
TypeOK ==
  /\ menu \in [Items -> [venue : Venues \cup {None}, price : Prices \cup {0},
                         available : BOOLEAN]]
  /\ active \subseteq Venues
  /\ categories \in [Categories -> Venues \cup {None}]
  /\ shelf \in [Items -> Categories \cup {None}]
  /\ \A r \in Requests :
       /\ phase[r] \in {"new", "open", "doomed", "sold", "done"}
       /\ answer[r] \in {"none", "201", "400", "404", "409", "500"}
       /\ visits[r].at \in {"door", "listed", "venue", "categories", "menu",
                            "ordering", "gone", "lost"}
       /\ Cardinality(visits[r].page) <= PageSize
       /\ visits[r].venue \in Venues \cup {None}

\* A client that orders what its menu showed as available is surprised only by
\* what the venue has done since: it is never told that its items are of another
\* venue or that there is no such venue, "409" means that one of its items has
\* been written since the menu was read, and so does a price that is not the
\* one it was shown.
OnlyChangesSurprise ==
  [][\A r \in Requests : visits[r].at = "ordering" =>
       LET touched == \E n \in DOMAIN wish[r].cart :
                        wish[r].cart[n].item \in visits[r].since
       IN /\ answer'[r] # answer[r] =>
               \/ answer'[r] \in {"201", "500"}
               \/ answer'[r] = "409" /\ touched
          /\ sold'[r] # sold[r] /\ ~touched =>
               \A n \in DOMAIN sold'[r].lines :
                 sold'[r].lines[n].price = visits[r].seen[sold'[r].lines[n].item].price]_vars

\* The three statements of a menu fit together: an item whose category the menu
\* does not have was given a category of another venue, or one that did not
\* exist yet when the categories were read.
CategoriesExplainItems ==
  \A r \in Requests : visits[r].at = "menu" =>
    \A i \in Items : visits[r].seen[i] # NoItem /\ shelf[i] # None =>
      \/ shelf[i] \in visits[r].categories
      \/ categories[shelf[i]] # visits[r].venue
      \/ shelf[i] \notin visits[r].known
==============================================================================
