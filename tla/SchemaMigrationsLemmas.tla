----------------------- MODULE SchemaMigrationsLemmas -----------------------
(***************************************************************************)
(* What each migration of SchemaMigrations preserves.                      *)
(*                                                                         *)
(* A command passes through all the revisions up to its target, so that    *)
(* the invariant, Inv, is stated for every revision from 0 to 32, whether  *)
(* or not a deployment stops at it: SchemaAt, SeededAt, LookAt and CardsAt *)
(* are the tables of what an installation at a revision consists of.       *)
(* UpInv and DownInv say that a migration takes a database with Inv at its *)
(* own revision to one with Inv at the next; the lemmas before them go     *)
(* through the migrations, those that write rows of users one by one.      *)
(***************************************************************************)
EXTENDS SchemaMigrations, WellFoundedInduction, FiniteSetTheorems, TLAPS

Revisions == 0 .. Newest

SchemaAt(n) ==
    (IF n >= 1 THEN {"auctions", "bids"} ELSE {})
    \cup (IF n >= 2 THEN {"pages", "menu_items", "featured_auctions"} ELSE {})
    \cup (IF n >= 2 /\ n < 7 THEN {"featured.title"} ELSE {})
    \cup (IF n >= 3 THEN {"users", "tokens"} ELSE {})
    \cup (IF n >= 3 /\ n < 30 THEN {"users.role"} ELSE {})
    \cup (IF n >= 4 THEN {"menu.metadata"} ELSE {})
    \cup (IF n >= 5 THEN {"featured.tab"} ELSE {})
    \cup (IF n >= 5 /\ n < 7 THEN {"featured.card"} ELSE {})
    \cup (IF n >= 6 THEN {"vehicle_listings", "featured.listing"} ELSE {})
    \cup (IF n >= 8 THEN {"auctions.fk"} ELSE {})
    \cup (IF n >= 9 THEN {"bids.fk", "listings.seller"} ELSE {})
    \cup (IF n >= 10 THEN {"admin_nav_items", "admin_dashboard_cards"} ELSE {})
    \cup (IF n >= 11 THEN {"nav.parent"} ELSE {})
    \cup (IF n >= 12 THEN {"cards.image"} ELSE {})
    \cup (IF n >= 17 THEN {"vehicle_status_metrics"} ELSE {})
    \cup (IF n >= 18 THEN {"vehicle_payment_records"} ELSE {})
    \cup (IF n >= 19 THEN {"vehicle_lookups"} ELSE {})
    \cup (IF n >= 20 THEN {"listings.intake"} ELSE {})
    \cup (IF n >= 20 /\ n < 22 THEN {"listings.sub->users"} ELSE {})
    \cup (IF n >= 22 THEN {"sub_sellers", "listings.sub->subs"} ELSE {})
    \cup (IF n >= 29 THEN {"roles", "user_roles"} ELSE {})
    \cup (IF n = 29 THEN {"user_roles.is_primary"} ELSE {})
    \cup (IF n >= 30 THEN {"users.primary_role_id"} ELSE {})

SeededAt(n) ==
    (IF n >= 2 THEN {"pages", "menu"} ELSE {})
    \cup (IF n >= 4 THEN {"entries"} ELSE {})
    \cup (IF n >= 10 THEN {"nav", "sellers"} ELSE {})
    \cup (IF n = 10 THEN {"placeholders"} ELSE {})
    \cup (IF n >= 11 THEN {"children", "dashboard"} ELSE {})
    \cup (IF n >= 12 THEN {"operations"} ELSE {})
    \cup (IF n >= 13 THEN {"management"} ELSE {})
    \cup (IF n >= 14 THEN {"accountant"} ELSE {})
    \cup (IF n >= 15 THEN {"reports"} ELSE {})
    \cup (IF n >= 16 THEN {"admin"} ELSE {})
    \cup (IF n >= 17 THEN {"metrics"} ELSE {})
    \cup (IF n >= 18 THEN {"payments"} ELSE {})
    \cup (IF n >= 19 THEN {"lookups"} ELSE {})

CopiesAt(n) == [g \in SeedGroups |-> IF g \in SeededAt(n) THEN 1 ELSE 0]

LookAt(n) ==
    [l \in Looks |->
        CASE l = "home"        -> IF n >= 2 THEN "/" ELSE None
          [] l = "entryIcon"   -> IF n >= 4 /\ n < 28 THEN "user-shield" ELSE None
          [] l = "adminLabel"  -> IF n >= 10 THEN "Admin" ELSE None
          [] l = "adminIcon"   -> IF n >= 10 /\ n < 26 THEN "user-shield"
                                  ELSE IF n >= 32 THEN "border-all" ELSE None
          [] l = "childIcon"   -> IF n >= 32 THEN "own" ELSE None
          [] l = "childParent" -> IF n >= 11 THEN "/admin" ELSE None
          [] l = "sellerIcon"  -> IF n >= 10 /\ n < 25 THEN "own" ELSE None
          [] l = "sellerImage" -> IF n >= 24 THEN "own" ELSE None
          [] l = "published"   -> IF n >= 20 THEN "published" ELSE None]

CardsAt(n) ==
    IF n < 2 THEN {} ELSE IF n < 5 THEN {"public"} ELSE {"public", "personal"}

(* The titles of the cards are NOT NULL, or nullable after 0007 went.      *)
RestoredAt(n) ==
    (SchemaAt(n) \ {"featured.title"}) \cup {"featured.title?"}

SchemaInv(n, d) ==
    \/ d.schema = SchemaAt(n)
    \/ n \in 2 .. 6 /\ d.schema = RestoredAt(n)

CopiesInv(n, d) ==
    \A g \in SeedGroups :
        d.copies[g] = CopiesAt(n)[g] \/ (g = "placeholders" /\ n = 10)

LookInv(n, d) ==
    \A l \in Looks :
        \/ d.look[l] = LookAt(n)[l]
        \/ l = "home" /\ n \in 20 .. 26 /\ d.look[l] = "/seller-buyer/home"

FeaturedInv(n, d) ==
    /\ DOMAIN d.featured = CardsAt(n)
    /\ \A a \in DOMAIN d.featured :
          /\ n >= 6 => d.featured[a].listing
          /\ n < 7 => d.featured[a].title \/ "featured.title?" \in d.schema

RowsInv(n, d) ==
    /\ n >= 8 => "unlisted" \notin d.auctions
    /\ n >= 9 => d.bids \subseteq DOMAIN d.users
    /\ n < 20 => d.cars = {}
    /\ \A c \in d.cars : /\ c.by \in DOMAIN d.users
                         /\ c.client \in DOMAIN d.users \cup {None}

(* The collation takes the names of two roles in use for the same one.     *)
Collision(names) ==
    \E r \in names, s \in names \cup SeedRoles : r # s /\ Fold[r] = Fold[s]

AccountInv(n, d, account) ==
    /\ n < 30 => account.role \in RoleNames /\ account.primary = None
    /\ n < 29 => account.held = {} /\ account.flagged = {}
    /\ n = 29 => /\ \A r, s \in account.flagged : r = s
                 /\ account.flagged \subseteq account.held
                 /\ account.held # {} => account.flagged # {}
                 /\ account.held \subseteq d.roles
                 /\ \/ account.flagged \subseteq {account.role}
                    \/ Collision(RolesInUse(d))
    /\ n >= 30 => /\ account.role = None /\ account.flagged = {}
                  /\ account.primary \in account.held
                  /\ account.held \subseteq d.roles

UsersInv(n, d) ==
    /\ n < 3 => DOMAIN d.users = {}
    /\ IF n < 29 THEN d.roles = {} ELSE SeedRoles \subseteq d.roles
    /\ \A e \in DOMAIN d.users : AccountInv(n, d, d.users[e])

(* Nothing that an upgrade to the newest revision raises for is there.     *)
Passable(n, d) ==
    /\ n < 8 => "unlisted" \notin d.auctions
    /\ n < 9 => d.bids \subseteq DOMAIN d.users
    /\ n = 5 => \A a \in DOMAIN d.featured : d.featured[a].title
    /\ n = 10 => d.look["adminLabel"] = "Admin"
    /\ n < 29 => \A u \in RolesInUse(d) \ SeedRoles, s \in SeedRoles :
                    Fold[u] # Fold[s]
    /\ n = 29 => \A e \in DOMAIN d.users : d.users[e].flagged # {}

---------------------------------------------------------------------------
(* What the operators that the migrations are written in leave behind      *)

(* The rows that users own, and the account and menu tables around them.   *)
Rows(d) == <<d.users, d.roles, d.auctions, d.bids, d.cars, d.subs>>

(* Each operator changes its own part of the database and leaves the rest. *)
LEMMA OnCreate ==
    ASSUME NEW d \in Databases, NEW X \in SUBSET SchemaObjects
    PROVE  /\ Create(d, X) \in Databases
           /\ Create(d, X).schema = d.schema \cup X
           /\ Create(d, X).copies = d.copies
           /\ Create(d, X).look = d.look
           /\ Create(d, X).featured = d.featured
           /\ Rows(Create(d, X)) = Rows(d)
BY DEF Databases, Create, Rows

LEMMA OnDrop ==
    ASSUME NEW d \in Databases, NEW X
    PROVE  /\ Drop(d, X) \in Databases
           /\ Drop(d, X).schema = d.schema \ X
           /\ Drop(d, X).copies = d.copies
           /\ Drop(d, X).look = d.look
           /\ Drop(d, X).featured = d.featured
           /\ Rows(Drop(d, X)) = Rows(d)
BY DEF Databases, Drop, Rows

LEMMA OnSeed ==
    ASSUME NEW d \in Databases, NEW G
    PROVE  /\ Seed(d, G) \in Databases
           /\ Seed(d, G).schema = d.schema
           /\ \A g \in SeedGroups : Seed(d, G).copies[g] =
                 IF g \in G THEN d.copies[g] + 1 ELSE d.copies[g]
           /\ Seed(d, G).look = d.look
           /\ Seed(d, G).featured = d.featured
           /\ Rows(Seed(d, G)) = Rows(d)
BY DEF Databases, Seed, Rows

LEMMA OnClear ==
    ASSUME NEW d \in Databases, NEW G
    PROVE  /\ Clear(d, G) \in Databases
           /\ Clear(d, G).schema = d.schema
           /\ \A g \in SeedGroups : Clear(d, G).copies[g] =
                 IF g \in G THEN 0 ELSE d.copies[g]
           /\ Clear(d, G).look = d.look
           /\ Clear(d, G).featured = d.featured
           /\ Rows(Clear(d, G)) = Rows(d)
BY DEF Databases, Clear, Rows

LEMMA OnSet ==
    ASSUME NEW d \in Databases, NEW looks,
           \A l \in DOMAIN looks : looks[l] \in LookValues
    PROVE  /\ Set(d, looks) \in Databases
           /\ Set(d, looks).schema = d.schema
           /\ Set(d, looks).copies = d.copies
           /\ \A l \in Looks : Set(d, looks).look[l] =
                 IF l \in DOMAIN looks THEN looks[l] ELSE d.look[l]
           /\ Set(d, looks).featured = d.featured
           /\ Rows(Set(d, looks)) = Rows(d)
BY DEF Databases, Set, Rows

Repaired(d) == [d EXCEPT !.copies["children"] = IF @ = 0 THEN 1 ELSE @]

LEMMA OnRepaired ==
    ASSUME NEW d \in Databases
    PROVE  /\ Repaired(d) \in Databases
           /\ Repaired(d).schema = d.schema
           /\ \A g \in SeedGroups : Repaired(d).copies[g] =
                 IF g = "children" /\ d.copies[g] = 0 THEN 1 ELSE d.copies[g]
           /\ Repaired(d).look = d.look
           /\ Repaired(d).featured = d.featured
           /\ Rows(Repaired(d)) = Rows(d)
BY DEF Databases, Repaired, Rows, SeedGroups

Cards == [title : BOOLEAN, listing : BOOLEAN]

LEMMA OnFeatured ==
    ASSUME NEW d \in Databases, NEW f, f \in [DOMAIN f -> Cards],
           DOMAIN f \in SUBSET {"public", "personal"}
    PROVE  LET r == [d EXCEPT !.featured = f]
           IN  /\ r \in Databases
               /\ r.schema = d.schema
               /\ r.copies = d.copies
               /\ r.look = d.look
               /\ r.featured = f
               /\ Rows(r) = Rows(d)
<1>1. f \in UNION {[B -> [title : BOOLEAN, listing : BOOLEAN]] :
                      B \in SUBSET {"public", "personal"}}
  BY DEF Cards
<1> QED
  BY <1>1 DEF Databases, Rows

LEMMA FeaturedType ==
    ASSUME NEW d \in Databases
    PROVE  /\ DOMAIN d.featured \in SUBSET {"public", "personal"}
           /\ d.featured \in [DOMAIN d.featured -> Cards]
<1>1. PICK A \in SUBSET {"public", "personal"} : d.featured \in [A -> Cards]
  BY DEF Databases, Cards
<1> QED
  BY <1>1

LEMMA UsersType ==
    ASSUME NEW d \in Databases
    PROVE  /\ DOMAIN d.users \in SUBSET Emails
           /\ d.users \in [DOMAIN d.users -> Accounts]
<1>1. PICK E \in SUBSET Emails : d.users \in [E -> Accounts]
  BY DEF Databases
<1> QED
  BY <1>1

LEMMA OnUsers ==
    ASSUME NEW d \in Databases, NEW f, f \in [DOMAIN f -> Accounts],
           DOMAIN f \in SUBSET Emails
    PROVE  LET r == [d EXCEPT !.users = f]
           IN  /\ r \in Databases
               /\ r.schema = d.schema
               /\ r.copies = d.copies
               /\ r.look = d.look
               /\ r.featured = d.featured
               /\ Rows(r) = <<f, d.roles, d.auctions, d.bids, d.cars, d.subs>>
<1>1. f \in UNION {[X -> Accounts] : X \in SUBSET Emails}
  OBVIOUS
<1> QED
  BY <1>1 DEF Databases, Rows

---------------------------------------------------------------------------
(* The migrations, by number                                               *)

(* The migrations by number.                                               *)
LEMMA UpIs ==
    ASSUME NEW d
    PROVE  /\ Up(1, d) = Up_0001_initial(d)
           /\ Up(2, d) = Up_0002_content_tables(d)
           /\ Up(3, d) = Up_0003_auth_tables(d)
           /\ Up(4, d) = Up_0004_menu_item_metadata(d)
           /\ Up(5, d) = Up_0005_featured_auction_tabs(d)
           /\ Up(6, d) = Up_0006_vehicle_listings(d)
           /\ Up(7, d) = Up_0007_remove_featured_auction_card_columns(d)
           /\ Up(8, d) = Up_0008_auction_vehicle_fk(d)
           /\ Up(9, d) = Up_0009_vehicle_seller_and_bid_bidder_fk(d)
           /\ Up(10, d) = Up_0010_admin_dashboard(d)
           /\ Up(11, d) = Up_0011_admin_dashboard_submenus(d)
           /\ Up(12, d) = Up_0012_admin_operations_cards(d)
           /\ Up(13, d) = Up_0013_admin_management_cards(d)
           /\ Up(14, d) = Up_0014_admin_accountant_cards(d)
           /\ Up(15, d) = Up_0015_admin_reports_cards(d)
           /\ Up(16, d) = Up_0016_admin_home_cards(d)
           /\ Up(17, d) = Up_0017_vehicle_status_metrics(d)
           /\ Up(18, d) = Up_0018_vehicle_payment_records(d)
           /\ Up(19, d) = Up_0019_vehicle_lookup_tables(d)
           /\ Up(20, d) = Up_0020_vehicle_submissions(d)
           /\ Up(21, d) = Up_0021_seed_uat_seller_users(d)
           /\ Up(22, d) = Up_0022_sub_sellers(d)
           /\ Up(23, d) = Up_0023_seed_sub_sellers(d)
           /\ Up(24, d) = Up_0024_seller_card_images(d)
           /\ Up(25, d) = Up_0025_seller_card_icons_null(d)
           /\ Up(26, d) = Up_0026_admin_menu_icon_null(d)
           /\ Up(27, d) = Up_0027_home_menu_url(d)
           /\ Up(28, d) = Up_0028_menu_items_admin_icon_null(d)
           /\ Up(29, d) = Up_0029_roles(d)
           /\ Up(30, d) = Up_0030_users_primary_role_fk(d)
           /\ Up(31, d) = Up_0031_seed_role_demo_users(d)
           /\ Up(32, d) = Up_0032_admin_nav_overview_icons(d)
<1>1. Up(1, d) = Up_0001_initial(d)
  BY DEF Up
<1>2. Up(2, d) = Up_0002_content_tables(d)
  BY DEF Up
<1>3. Up(3, d) = Up_0003_auth_tables(d)
  BY DEF Up
<1>4. Up(4, d) = Up_0004_menu_item_metadata(d)
  BY DEF Up
<1>5. Up(5, d) = Up_0005_featured_auction_tabs(d)
  BY DEF Up
<1>6. Up(6, d) = Up_0006_vehicle_listings(d)
  BY DEF Up
<1>7. Up(7, d) = Up_0007_remove_featured_auction_card_columns(d)
  BY DEF Up
<1>8. Up(8, d) = Up_0008_auction_vehicle_fk(d)
  BY DEF Up
<1>9. Up(9, d) = Up_0009_vehicle_seller_and_bid_bidder_fk(d)
  BY DEF Up
<1>10. Up(10, d) = Up_0010_admin_dashboard(d)
  BY DEF Up
<1>11. Up(11, d) = Up_0011_admin_dashboard_submenus(d)
  BY DEF Up
<1>12. Up(12, d) = Up_0012_admin_operations_cards(d)
  BY DEF Up
<1>13. Up(13, d) = Up_0013_admin_management_cards(d)
  BY DEF Up
<1>14. Up(14, d) = Up_0014_admin_accountant_cards(d)
  BY DEF Up
<1>15. Up(15, d) = Up_0015_admin_reports_cards(d)
  BY DEF Up
<1>16. Up(16, d) = Up_0016_admin_home_cards(d)
  BY DEF Up
<1>17. Up(17, d) = Up_0017_vehicle_status_metrics(d)
  BY DEF Up
<1>18. Up(18, d) = Up_0018_vehicle_payment_records(d)
  BY DEF Up
<1>19. Up(19, d) = Up_0019_vehicle_lookup_tables(d)
  BY DEF Up
<1>20. Up(20, d) = Up_0020_vehicle_submissions(d)
  BY DEF Up
<1>21. Up(21, d) = Up_0021_seed_uat_seller_users(d)
  BY DEF Up
<1>22. Up(22, d) = Up_0022_sub_sellers(d)
  BY DEF Up
<1>23. Up(23, d) = Up_0023_seed_sub_sellers(d)
  BY DEF Up
<1>24. Up(24, d) = Up_0024_seller_card_images(d)
  BY DEF Up
<1>25. Up(25, d) = Up_0025_seller_card_icons_null(d)
  BY DEF Up
<1>26. Up(26, d) = Up_0026_admin_menu_icon_null(d)
  BY DEF Up
<1>27. Up(27, d) = Up_0027_home_menu_url(d)
  BY DEF Up
<1>28. Up(28, d) = Up_0028_menu_items_admin_icon_null(d)
  BY DEF Up
<1>29. Up(29, d) = Up_0029_roles(d)
  BY DEF Up
<1>30. Up(30, d) = Up_0030_users_primary_role_fk(d)
  BY DEF Up
<1>31. Up(31, d) = Up_0031_seed_role_demo_users(d)
  BY DEF Up
<1>32. Up(32, d) = Up_0032_admin_nav_overview_icons(d)
  BY DEF Up
<1> QED
  BY <1>1, <1>2, <1>3, <1>4, <1>5, <1>6, <1>7, <1>8, <1>9, <1>10, <1>11,
     <1>12, <1>13, <1>14, <1>15, <1>16, <1>17, <1>18, <1>19, <1>20, <1>21,
     <1>22, <1>23, <1>24, <1>25, <1>26, <1>27, <1>28, <1>29, <1>30, <1>31,
     <1>32

LEMMA DownIs ==
    ASSUME NEW d
    PROVE  /\ Down(1, d) = Down_0001_initial(d)
           /\ Down(2, d) = Down_0002_content_tables(d)
           /\ Down(3, d) = Down_0003_auth_tables(d)
           /\ Down(4, d) = Down_0004_menu_item_metadata(d)
           /\ Down(5, d) = Down_0005_featured_auction_tabs(d)
           /\ Down(6, d) = Down_0006_vehicle_listings(d)
           /\ Down(7, d) = Down_0007_remove_featured_auction_card_columns(d)
           /\ Down(8, d) = Down_0008_auction_vehicle_fk(d)
           /\ Down(9, d) = Down_0009_vehicle_seller_and_bid_bidder_fk(d)
           /\ Down(10, d) = Down_0010_admin_dashboard(d)
           /\ Down(11, d) = Down_0011_admin_dashboard_submenus(d)
           /\ Down(12, d) = Down_0012_admin_operations_cards(d)
           /\ Down(13, d) = Down_0013_admin_management_cards(d)
           /\ Down(14, d) = Down_0014_admin_accountant_cards(d)
           /\ Down(15, d) = Down_0015_admin_reports_cards(d)
           /\ Down(16, d) = Down_0016_admin_home_cards(d)
           /\ Down(17, d) = Down_0017_vehicle_status_metrics(d)
           /\ Down(18, d) = Down_0018_vehicle_payment_records(d)
           /\ Down(19, d) = Down_0019_vehicle_lookup_tables(d)
           /\ Down(20, d) = Down_0020_vehicle_submissions(d)
           /\ Down(21, d) = Down_0021_seed_uat_seller_users(d)
           /\ Down(22, d) = Down_0022_sub_sellers(d)
           /\ Down(23, d) = Down_0023_seed_sub_sellers(d)
           /\ Down(24, d) = Down_0024_seller_card_images(d)
           /\ Down(25, d) = Down_0025_seller_card_icons_null(d)
           /\ Down(26, d) = Down_0026_admin_menu_icon_null(d)
           /\ Down(27, d) = Down_0027_home_menu_url(d)
           /\ Down(28, d) = Down_0028_menu_items_admin_icon_null(d)
           /\ Down(29, d) = Down_0029_roles(d)
           /\ Down(30, d) = Down_0030_users_primary_role_fk(d)
           /\ Down(31, d) = Down_0031_seed_role_demo_users(d)
           /\ Down(32, d) = Down_0032_admin_nav_overview_icons(d)
<1>1. Down(1, d) = Down_0001_initial(d)
  BY DEF Down
<1>2. Down(2, d) = Down_0002_content_tables(d)
  BY DEF Down
<1>3. Down(3, d) = Down_0003_auth_tables(d)
  BY DEF Down
<1>4. Down(4, d) = Down_0004_menu_item_metadata(d)
  BY DEF Down
<1>5. Down(5, d) = Down_0005_featured_auction_tabs(d)
  BY DEF Down
<1>6. Down(6, d) = Down_0006_vehicle_listings(d)
  BY DEF Down
<1>7. Down(7, d) = Down_0007_remove_featured_auction_card_columns(d)
  BY DEF Down
<1>8. Down(8, d) = Down_0008_auction_vehicle_fk(d)
  BY DEF Down
<1>9. Down(9, d) = Down_0009_vehicle_seller_and_bid_bidder_fk(d)
  BY DEF Down
<1>10. Down(10, d) = Down_0010_admin_dashboard(d)
  BY DEF Down
<1>11. Down(11, d) = Down_0011_admin_dashboard_submenus(d)
  BY DEF Down
<1>12. Down(12, d) = Down_0012_admin_operations_cards(d)
  BY DEF Down
<1>13. Down(13, d) = Down_0013_admin_management_cards(d)
  BY DEF Down
<1>14. Down(14, d) = Down_0014_admin_accountant_cards(d)
  BY DEF Down
<1>15. Down(15, d) = Down_0015_admin_reports_cards(d)
  BY DEF Down
<1>16. Down(16, d) = Down_0016_admin_home_cards(d)
  BY DEF Down
<1>17. Down(17, d) = Down_0017_vehicle_status_metrics(d)
  BY DEF Down
<1>18. Down(18, d) = Down_0018_vehicle_payment_records(d)
  BY DEF Down
<1>19. Down(19, d) = Down_0019_vehicle_lookup_tables(d)
  BY DEF Down
<1>20. Down(20, d) = Down_0020_vehicle_submissions(d)
  BY DEF Down
<1>21. Down(21, d) = Down_0021_seed_uat_seller_users(d)
  BY DEF Down
<1>22. Down(22, d) = Down_0022_sub_sellers(d)
  BY DEF Down
<1>23. Down(23, d) = Down_0023_seed_sub_sellers(d)
  BY DEF Down
<1>24. Down(24, d) = Down_0024_seller_card_images(d)
  BY DEF Down
<1>25. Down(25, d) = Down_0025_seller_card_icons_null(d)
  BY DEF Down
<1>26. Down(26, d) = Down_0026_admin_menu_icon_null(d)
  BY DEF Down
<1>27. Down(27, d) = Down_0027_home_menu_url(d)
  BY DEF Down
<1>28. Down(28, d) = Down_0028_menu_items_admin_icon_null(d)
  BY DEF Down
<1>29. Down(29, d) = Down_0029_roles(d)
  BY DEF Down
<1>30. Down(30, d) = Down_0030_users_primary_role_fk(d)
  BY DEF Down
<1>31. Down(31, d) = Down_0031_seed_role_demo_users(d)
  BY DEF Down
<1>32. Down(32, d) = Down_0032_admin_nav_overview_icons(d)
  BY DEF Down
<1> QED
  BY <1>1, <1>2, <1>3, <1>4, <1>5, <1>6, <1>7, <1>8, <1>9, <1>10, <1>11,
     <1>12, <1>13, <1>14, <1>15, <1>16, <1>17, <1>18, <1>19, <1>20, <1>21,
     <1>22, <1>23, <1>24, <1>25, <1>26, <1>27, <1>28, <1>29, <1>30, <1>31,
     <1>32

(* From the schema and the seeded rows of n to those of m.                 *)
Decorated(n, d, m, r) ==
    /\ SchemaInv(n, d) => SchemaInv(m, r)
    /\ CopiesInv(n, d) => CopiesInv(m, r)
    /\ LookInv(n, d) => LookInv(m, r)

UpOnCards   == {2, 5, 6, 7}
UpOnRows    == {21, 22, 23, 29, 30, 31}
DownOnCards == {2, 5, 6}
DownOnRows  == {1, 3, 6, 21, 22, 23, 29, 30, 31}

(* What an upgrade raises for.                                             *)
UpRaises(n, d) ==
    \/ n = 6 /\ \E a \in DOMAIN d.featured : ~d.featured[a].title
    \/ n = 8 /\ "unlisted" \in d.auctions
    \/ n = 9 /\ ~(d.bids \subseteq DOMAIN d.users)
    \/ n = 11 /\ d.look["adminLabel"] # "Admin"
    \/ n = 29 /\ \E u \in RolesInUse(d) \ SeedRoles, s \in SeedRoles :
                     Fold[u] = Fold[s]
    \/ n = 30 /\ \E e \in DOMAIN d.users : d.users[e].flagged = {}

(* Most upgrades only add to the schema and to the rows that they seed.    *)
LEMMA UpDecorates ==
    ASSUME NEW n \in 1 .. Newest, n \notin UpOnCards \cup UpOnRows,
           NEW d \in Databases, NEW r \in Up(n, d), r # Failed \/ ~UpRaises(n, d)
    PROVE  /\ r \in Databases
           /\ Decorated(n - 1, d, n, r)
           /\ d.schema = SchemaAt(n - 1) => r.schema = SchemaAt(n)
           /\ "featured.title?" \in d.schema => "featured.title?" \in r.schema
           /\ r.featured = d.featured
           /\ Rows(r) = Rows(d)
<1>a. n \in {1, 3, 4, 8, 9, 10, 11, 12, 13, 14, 15, 16, 17, 18, 19, 20,
            24, 25, 26, 27, 28, 32}
  BY DEF Newest, UpOnCards, UpOnRows
<1>b. Up(32, d) = {Set(Repaired(d), [adminIcon |-> "border-all",
                     childIcon |-> "own", childParent |-> "/admin"])}
  BY UpIs DEF Up_0032_admin_nav_overview_icons, Repaired
<1> USE DEF SchemaInv, SchemaAt, RestoredAt, CopiesInv, CopiesAt, SeededAt,
            SeedGroups, LookInv, LookAt, Looks, SchemaObjects, LookValues,
            Decorated
<1>1. CASE n = 1
  BY <1>1, UpIs, OnCreate DEF Up_0001_initial
<1>3. CASE n = 3
  BY <1>3, UpIs, OnCreate DEF Up_0003_auth_tables
<1>4. CASE n = 4
  BY <1>4, UpIs, OnCreate, OnSeed, OnSet DEF Up_0004_menu_item_metadata
<1>8. CASE n = 8
  BY <1>8, UpIs, OnCreate DEF Up_0008_auction_vehicle_fk, UpRaises
<1>9. CASE n = 9
  BY <1>9, UpIs, OnCreate DEF Up_0009_vehicle_seller_and_bid_bidder_fk, UpRaises
<1>10. CASE n = 10
  BY <1>10, UpIs, OnCreate, OnSeed, OnSet DEF Up_0010_admin_dashboard
<1>11. CASE n = 11
  BY <1>11, UpIs, OnCreate, OnSeed, OnClear, OnSet DEF
     Up_0011_admin_dashboard_submenus, UpRaises
<1>12. CASE n = 12
  BY <1>12, UpIs, OnCreate, OnSeed DEF Up_0012_admin_operations_cards
<1>13. CASE n = 13
  BY <1>13, UpIs, OnSeed DEF Up_0013_admin_management_cards
<1>14. CASE n = 14
  BY <1>14, UpIs, OnSeed DEF Up_0014_admin_accountant_cards
<1>15. CASE n = 15
  BY <1>15, UpIs, OnSeed DEF Up_0015_admin_reports_cards
<1>16. CASE n = 16
  BY <1>16, UpIs, OnSeed DEF Up_0016_admin_home_cards
<1>17. CASE n = 17
  BY <1>17, UpIs, OnCreate, OnSeed DEF Up_0017_vehicle_status_metrics
<1>18. CASE n = 18
  BY <1>18, UpIs, OnCreate, OnSeed DEF Up_0018_vehicle_payment_records
<1>19. CASE n = 19
  BY <1>19, UpIs, OnCreate, OnSeed DEF Up_0019_vehicle_lookup_tables
<1>20. CASE n = 20
  BY <1>20, UpIs, OnCreate, OnSet DEF Up_0020_vehicle_submissions
<1>24. CASE n = 24
  BY <1>24, UpIs, OnSet DEF Up_0024_seller_card_images
<1>25. CASE n = 25
  BY <1>25, UpIs, OnSet DEF Up_0025_seller_card_icons_null
<1>26. CASE n = 26
  BY <1>26, UpIs, OnSet DEF Up_0026_admin_menu_icon_null
<1>27. CASE n = 27
  BY <1>27, UpIs, OnSet DEF Up_0027_home_menu_url
<1>28. CASE n = 28
  BY <1>28, UpIs, OnSet DEF Up_0028_menu_items_admin_icon_null
<1>32. CASE n = 32
  BY <1>32, <1>b, OnSet, OnRepaired
<1> QED
  BY <1>a, <1>1, <1>3, <1>4, <1>8, <1>9, <1>10, <1>11, <1>12, <1>13, <1>14,
     <1>15, <1>16, <1>17, <1>18, <1>19, <1>20, <1>24, <1>25, <1>26, <1>27,
     <1>28, <1>32

(* So do most downgrades, the other way.                                   *)
LEMMA DownDecorates ==
    ASSUME NEW n \in 1 .. Newest, n \notin DownOnCards \cup DownOnRows,
           NEW d \in Databases, NEW r \in Down(n, d), r # Failed
    PROVE  /\ r \in Databases
           /\ Decorated(n, d, n - 1, r)
           /\ n = 7 => "featured.title?" \in r.schema
           /\ "featured.title?" \in d.schema => "featured.title?" \in r.schema
           /\ r.featured = d.featured
           /\ Rows(r) = Rows(d)
<1>a. n \in {4, 7, 8, 9, 10, 11, 12, 13, 14, 15, 16, 17, 18, 19, 20,
            24, 25, 26, 27, 28, 32}
  BY DEF Newest, DownOnCards, DownOnRows
<1> USE DEF SchemaInv, SchemaAt, RestoredAt, CopiesInv, CopiesAt, SeededAt,
            SeedGroups, LookInv, LookAt, Looks, SchemaObjects, LookValues,
            Decorated
<1>4. CASE n = 4
  BY <1>4, DownIs, OnDrop, OnClear, OnSet DEF Down_0004_menu_item_metadata
<1>7. CASE n = 7
  BY <1>7, DownIs, OnCreate DEF
     Down_0007_remove_featured_auction_card_columns
<1>8. CASE n = 8
  BY <1>8, DownIs, OnDrop DEF Down_0008_auction_vehicle_fk
<1>9. CASE n = 9
  BY <1>9, DownIs, OnDrop DEF Down_0009_vehicle_seller_and_bid_bidder_fk
<1>10. CASE n = 10
  BY <1>10, DownIs, OnDrop, OnClear, OnSet DEF Down_0010_admin_dashboard
<1>11. CASE n = 11
  BY <1>11, DownIs, OnDrop, OnClear, OnSet DEF
     Down_0011_admin_dashboard_submenus
<1>12. CASE n = 12
  BY <1>12, DownIs, OnDrop, OnClear DEF Down_0012_admin_operations_cards
<1>13. CASE n = 13
  BY <1>13, DownIs, OnClear DEF Down_0013_admin_management_cards
<1>14. CASE n = 14
  BY <1>14, DownIs, OnClear DEF Down_0014_admin_accountant_cards
<1>15. CASE n = 15
  BY <1>15, DownIs, OnClear DEF Down_0015_admin_reports_cards
<1>16. CASE n = 16
  BY <1>16, DownIs, OnClear DEF Down_0016_admin_home_cards
<1>17. CASE n = 17
  BY <1>17, DownIs, OnDrop, OnClear DEF Down_0017_vehicle_status_metrics
<1>18. CASE n = 18
  BY <1>18, DownIs, OnDrop, OnClear DEF Down_0018_vehicle_payment_records
<1>19. CASE n = 19
  BY <1>19, DownIs, OnDrop, OnClear DEF Down_0019_vehicle_lookup_tables
<1>20. CASE n = 20
  BY <1>20, DownIs DEF Down_0020_vehicle_submissions
<1>24. CASE n = 24
  BY <1>24, DownIs, OnSet DEF Down_0024_seller_card_images
<1>25. CASE n = 25
  BY <1>25, DownIs, OnSet DEF Down_0025_seller_card_icons_null
<1>26. CASE n = 26
  BY <1>26, DownIs, OnSet DEF Down_0026_admin_menu_icon_null
<1>27. CASE n = 27
  BY <1>27, DownIs, OnSet DEF Down_0027_home_menu_url
<1>28. CASE n = 28
  BY <1>28, DownIs, OnSet DEF Down_0028_menu_items_admin_icon_null
<1>32. CASE n = 32
  BY <1>32, DownIs, OnSet DEF Down_0032_admin_nav_overview_icons
<1> QED
  BY <1>a, <1>4, <1>7, <1>8, <1>9, <1>10, <1>11, <1>12, <1>13, <1>14, <1>15,
     <1>16, <1>17, <1>18, <1>19, <1>20, <1>24, <1>25, <1>26, <1>27, <1>28,
     <1>32

---------------------------------------------------------------------------
(* The migrations of the home page                                         *)

(* New cards for the home page leave everything else as it is.             *)
LEMMA CardsChange ==
    ASSUME NEW n, NEW d, NEW m, NEW t \in Databases, Decorated(n, d, m, t),
           NEW f, f \in [DOMAIN f -> Cards],
           DOMAIN f \in SUBSET {"public", "personal"},
           NEW r, r = [t EXCEPT !.featured = f]
    PROVE  /\ r \in Databases
           /\ Decorated(n, d, m, r)
           /\ r.schema = t.schema
           /\ r.featured = f
           /\ Rows(r) = Rows(t)
<1>1. /\ r \in Databases /\ Rows(r) = Rows(t) /\ r.featured = f
      /\ r.schema = t.schema /\ r.copies = t.copies /\ r.look = t.look
  BY OnFeatured
<1> QED
  BY <1>1 DEF Decorated, SchemaInv, CopiesInv, LookInv

(* 0002 and 0005 write cards of their own.                                 *)
NewCard == [title |-> TRUE, listing |-> FALSE]

LEMMA NewCards ==
    /\ [public |-> NewCard] \in [{"public"} -> Cards]
    /\ [public |-> NewCard, personal |-> NewCard]
          \in [{"public", "personal"} -> Cards]
    /\ [public |-> NewCard]["public"].title
    /\ \A a \in {"public", "personal"} :
          [public |-> NewCard, personal |-> NewCard][a].title
<1>1. NewCard \in Cards /\ NewCard.title
  BY DEF NewCard, Cards
<1> QED
  BY <1>1

(* 0002, 0005, 0006 and 0007 on the way up, and on the way down.           *)
LEMMA UpCards ==
    ASSUME NEW n \in UpOnCards, NEW d \in Databases,
           SchemaInv(n - 1, d), FeaturedInv(n - 1, d),
           NEW r \in Up(n, d), r # Failed \/ ~UpRaises(n, d)
    PROVE  /\ r \in Databases
           /\ Decorated(n - 1, d, n, r)
           /\ d.schema = SchemaAt(n - 1) => r.schema = SchemaAt(n)
           /\ FeaturedInv(n, r)
           /\ n = 5 => \A a \in DOMAIN r.featured : r.featured[a].title
           /\ Rows(r) = Rows(d)
<1>t. /\ DOMAIN d.featured = CardsAt(n - 1)
      /\ d.featured \in [CardsAt(n - 1) -> Cards]
      /\ CardsAt(n - 1) \in SUBSET {"public", "personal"}
  BY FeaturedType DEF FeaturedInv
<1>2. CASE n = 2
  <2> DEFINE f == [public |-> NewCard]
  <2>0. /\ DOMAIN d.featured = CardsAt(1)
        /\ d.featured \in [CardsAt(1) -> Cards]
        /\ CardsAt(1) \in SUBSET {"public", "personal"}
    BY <1>t, <1>2
  <2>1. PICK t : t = Set(Seed(Create(d, {"pages", "menu_items", "featured_auctions",
                                         "featured.title"}),
                              {"pages", "menu"}), [home |-> "/"])
    OBVIOUS
  <2>2. /\ t \in Databases /\ Rows(t) = Rows(d)
        /\ Decorated(1, d, 2, t)
        /\ d.schema = SchemaAt(1) => t.schema = SchemaAt(2)
    BY <2>1, OnCreate, OnSeed, OnSet
       DEF Decorated, SchemaInv, SchemaAt, RestoredAt, SchemaObjects,
           CopiesInv, CopiesAt, SeededAt, SeedGroups, LookInv, LookAt, Looks,
           LookValues
  <2>3. r = [t EXCEPT !.featured = f]
    BY <1>2, <2>0, <2>1, <2>2, UpIs DEF Up_0002_content_tables, NewCard
  <2>4. /\ f \in [DOMAIN f -> Cards] /\ DOMAIN f = {"public"}
        /\ f["public"].title
    BY NewCards
  <2> HIDE DEF f
  <2>5. /\ r \in Databases /\ Rows(r) = Rows(t) /\ r.featured = f
        /\ r.schema = t.schema /\ Decorated(1, d, 2, r)
    BY <2>0, <2>2, <2>3, <2>4, CardsChange
  <2> QED
    BY <1>2, <2>2, <2>4, <2>5 DEF FeaturedInv, CardsAt
<1>5. CASE n = 5
  <2> DEFINE f == [public |-> NewCard, personal |-> NewCard]
  <2>0. /\ DOMAIN d.featured = CardsAt(4)
        /\ d.featured \in [CardsAt(4) -> Cards]
        /\ CardsAt(4) \in SUBSET {"public", "personal"}
    BY <1>t, <1>5
  <2>1. PICK t : t = Create(d, {"featured.tab", "featured.card"})
    OBVIOUS
  <2>2. /\ t \in Databases /\ Rows(t) = Rows(d) /\ t.featured = d.featured
        /\ Decorated(4, d, 5, t)
        /\ d.schema = SchemaAt(4) => t.schema = SchemaAt(5)
    BY <2>1, OnCreate
       DEF Decorated, SchemaInv, SchemaAt, RestoredAt, SchemaObjects,
           CopiesInv, CopiesAt, SeededAt, SeedGroups, LookInv, LookAt, Looks,
           LookValues
  <2>3. r = [t EXCEPT !.featured = f]
    BY <1>5, <2>0, <2>1, <2>2, UpIs DEF Up_0005_featured_auction_tabs, NewCard
  <2>4. /\ f \in [DOMAIN f -> Cards] /\ DOMAIN f = {"public", "personal"}
        /\ \A a \in {"public", "personal"} : f[a].title
    BY NewCards
  <2> HIDE DEF f
  <2>5. /\ r \in Databases /\ Rows(r) = Rows(t) /\ r.featured = f
        /\ r.schema = t.schema /\ Decorated(4, d, 5, r)
    BY <2>0, <2>2, <2>3, <2>4, CardsChange
  <2> QED
    BY <1>5, <2>2, <2>4, <2>5 DEF FeaturedInv, CardsAt
<1>6. CASE n = 6
  <2> DEFINE f == [a \in CardsAt(5) |-> [d.featured[a] EXCEPT !.listing = TRUE]]
  <2>0. /\ DOMAIN d.featured = CardsAt(5)
        /\ d.featured \in [CardsAt(5) -> Cards]
        /\ CardsAt(5) \in SUBSET {"public", "personal"}
    BY <1>t, <1>6
  <2>1. PICK t : t = Create(d, {"vehicle_listings", "featured.listing"})
    OBVIOUS
  <2>2. /\ t \in Databases /\ Rows(t) = Rows(d) /\ t.featured = d.featured
        /\ Decorated(5, d, 6, t)
        /\ d.schema = SchemaAt(5) => t.schema = SchemaAt(6)
    BY <2>1, OnCreate
       DEF Decorated, SchemaInv, SchemaAt, RestoredAt, SchemaObjects,
           CopiesInv, CopiesAt, SeededAt, SeedGroups, LookInv, LookAt, Looks,
           LookValues
  <2>3. r = [t EXCEPT !.featured = f]
    BY <1>6, <2>0, <2>1, <2>2, UpIs DEF Up_0006_vehicle_listings, UpRaises
  <2>4. /\ f \in [DOMAIN f -> Cards] /\ DOMAIN f = CardsAt(5)
        /\ \A a \in CardsAt(5) : f[a].listing /\ f[a].title
    <3>1. \A a \in CardsAt(5) : d.featured[a].title
      BY <1>6, <2>0, UpIs DEF Up_0006_vehicle_listings, UpRaises
    <3> QED
      BY <2>0, <3>1 DEF Cards
  <2> HIDE DEF f
  <2>5. /\ r \in Databases /\ Rows(r) = Rows(t) /\ r.featured = f
        /\ r.schema = t.schema /\ Decorated(5, d, 6, r)
    BY <2>0, <2>2, <2>3, <2>4, CardsChange
  <2> QED
    BY <1>6, <2>2, <2>4, <2>5 DEF FeaturedInv, CardsAt
<1>7. CASE n = 7
  <2> DEFINE f == [a \in CardsAt(6) |-> [d.featured[a] EXCEPT !.title = FALSE]]
  <2>0. /\ DOMAIN d.featured = CardsAt(6)
        /\ d.featured \in [CardsAt(6) -> Cards]
        /\ CardsAt(6) \in SUBSET {"public", "personal"}
    BY <1>t, <1>7
  <2>1. PICK t : t = Drop(d, {"featured.title", "featured.title?", "featured.card"})
    OBVIOUS
  <2>2. /\ t \in Databases /\ Rows(t) = Rows(d) /\ t.featured = d.featured
        /\ Decorated(6, d, 7, t)
        /\ d.schema = SchemaAt(6) => t.schema = SchemaAt(7)
    BY <2>1, OnDrop
       DEF Decorated, SchemaInv, SchemaAt, RestoredAt, SchemaObjects,
           CopiesInv, CopiesAt, SeededAt, SeedGroups, LookInv, LookAt, Looks,
           LookValues
  <2>3. r = [t EXCEPT !.featured = f]
    BY <1>7, <2>0, <2>1, <2>2,
       UpIs DEF Up_0007_remove_featured_auction_card_columns
  <2>4. /\ f \in [DOMAIN f -> Cards] /\ DOMAIN f = CardsAt(6)
        /\ \A a \in CardsAt(6) : f[a].listing
    <3>1. \A a \in CardsAt(6) : d.featured[a].listing
      BY <1>7, <2>0 DEF FeaturedInv
    <3> QED
      BY <2>0, <3>1 DEF Cards
  <2> HIDE DEF f
  <2>5. /\ r \in Databases /\ Rows(r) = Rows(t) /\ r.featured = f
        /\ r.schema = t.schema /\ Decorated(6, d, 7, r)
    BY <2>0, <2>2, <2>3, <2>4, CardsChange
  <2> QED
    BY <1>7, <2>2, <2>4, <2>5 DEF FeaturedInv, CardsAt
<1> QED
  BY <1>2, <1>5, <1>6, <1>7 DEF UpOnCards

LEMMA DownCards ==
    ASSUME NEW n \in DownOnCards, NEW d \in Databases,
           SchemaInv(n, d), FeaturedInv(n, d), NEW r \in Down(n, d)
    PROVE  /\ r \in Databases
           /\ Decorated(n, d, n - 1, r)
           /\ FeaturedInv(n - 1, r)
           /\ n # 6 => Rows(r) = Rows(d)
           /\ n = 6 => Rows(r) = <<d.users, d.roles,
                                   IF d.auctions = {} THEN {} ELSE {"unlisted"},
                                   d.bids, d.cars, d.subs>>
<1>t. /\ DOMAIN d.featured = CardsAt(n)
      /\ d.featured \in [CardsAt(n) -> Cards]
      /\ CardsAt(n) \in SUBSET {"public", "personal"}
  BY FeaturedType DEF FeaturedInv
<1>2. CASE n = 2
  <2>1. PICK t : t = Set(Clear(Drop(d, {"pages", "menu_items", "featured_auctions",
                                       "featured.title", "featured.title?"}),
                              {"pages", "menu"}), [home |-> None])
    OBVIOUS
  <2>2. t \in Databases /\ Rows(t) = Rows(d) /\ Decorated(2, d, 1, t)
    BY <2>1, OnDrop, OnClear, OnSet
       DEF Decorated, SchemaInv, SchemaAt, RestoredAt, SchemaObjects,
           CopiesInv, CopiesAt, SeededAt, SeedGroups, LookInv, LookAt, Looks,
           LookValues
  <2>3. r = [t EXCEPT !.featured = <<>>]
    BY <1>2, <2>1, DownIs DEF Down_0002_content_tables
  <2>4. <<>> \in [DOMAIN <<>> -> Cards] /\ DOMAIN <<>> = {}
    OBVIOUS
  <2>5. /\ r \in Databases /\ Rows(r) = Rows(t) /\ r.featured = <<>>
        /\ r.schema = t.schema /\ r.copies = t.copies /\ r.look = t.look
    BY <2>2, <2>3, <2>4, OnFeatured
  <2>6. Decorated(2, d, 1, r)
    BY <2>2, <2>5 DEF Decorated, SchemaInv, CopiesInv, LookInv
  <2> QED
    BY <1>2, <2>2, <2>4, <2>5, <2>6 DEF FeaturedInv, CardsAt
<1>5. CASE n = 5
  <2> DEFINE f == [a \in {"public"} |-> d.featured[a]]
  <2>1. PICK t : t = Drop(d, {"featured.tab", "featured.card"})
    OBVIOUS
  <2>2. /\ t \in Databases /\ Rows(t) = Rows(d) /\ t.featured = d.featured
        /\ t.schema = d.schema \ {"featured.tab", "featured.card"}
        /\ Decorated(5, d, 4, t)
    BY <2>1, OnDrop
       DEF Decorated, SchemaInv, SchemaAt, RestoredAt, SchemaObjects,
           CopiesInv, CopiesAt, SeededAt, SeedGroups, LookInv, LookAt, Looks,
           LookValues
  <2>3. f \in [DOMAIN f -> Cards] /\ DOMAIN f = {"public"}
    BY <1>t, <1>5 DEF CardsAt
  <2>4. r = [t EXCEPT !.featured = f]
    <3>1. Without(d.featured, "personal") = f
      BY <1>t, <1>5 DEF Without, CardsAt
    <3> HIDE DEF f
    <3> QED
      BY <1>5, <2>1, <2>2, <3>1, DownIs DEF Down_0005_featured_auction_tabs
  <2>5. \A a \in {"public"} : f[a].title \/ "featured.title?" \in t.schema
    BY <1>5, <2>2 DEF FeaturedInv, CardsAt
  <2> HIDE DEF f
  <2>6. /\ r \in Databases /\ Rows(r) = Rows(t) /\ r.featured = f
        /\ r.schema = t.schema /\ Decorated(5, d, 4, r)
    BY <2>2, <2>3, <2>4, CardsChange
  <2> QED
    BY <1>5, <2>2, <2>3, <2>5, <2>6 DEF FeaturedInv, CardsAt
<1>6. CASE n = 6
  <2> DEFINE f == [a \in DOMAIN d.featured |->
                      [d.featured[a] EXCEPT !.listing = FALSE]]
             b == IF d.auctions = {} THEN {} ELSE {"unlisted"}
  <2>1. PICK t : t = Drop(d, {"vehicle_listings", "featured.listing"})
    OBVIOUS
  <2>2. /\ t \in Databases /\ Rows(t) = Rows(d) /\ t.featured = d.featured
        /\ t.auctions = d.auctions
        /\ t.schema = d.schema \ {"vehicle_listings", "featured.listing"}
        /\ Decorated(6, d, 5, t)
    BY <2>1, OnDrop
       DEF Rows, Decorated, SchemaInv, SchemaAt, RestoredAt, SchemaObjects,
           CopiesInv, CopiesAt, SeededAt, SeedGroups, LookInv, LookAt, Looks,
           LookValues
  <2>3. f \in [DOMAIN f -> Cards] /\ DOMAIN f = DOMAIN d.featured
    BY <1>t DEF Cards
  <2>4. \A a \in DOMAIN d.featured :
           f[a].title \/ "featured.title?" \in t.schema
    <3>1. \A a \in DOMAIN d.featured :
             d.featured[a].title \/ "featured.title?" \in t.schema
      BY <1>6, <2>2 DEF FeaturedInv
    <3> QED
      BY <1>t, <3>1 DEF Cards
  <2>5. PICK u : u = [t EXCEPT !.featured = f]
    OBVIOUS
  <2>6. r = [u EXCEPT !.auctions = b]
    <3>1. r \in Down_0006_vehicle_listings(d)
      BY <1>6, DownIs
    <3>2. r = [t EXCEPT !.featured = [a \in DOMAIN @ |->
                                         [@[a] EXCEPT !.listing = FALSE]],
                        !.auctions = IF @ = {} THEN {} ELSE {"unlisted"}]
      BY <2>1, <3>1 DEF Down_0006_vehicle_listings
    <3>3. r = [t EXCEPT !.featured = f, !.auctions = b]
      BY <2>2, <3>2
    <3> HIDE DEF f, b
    <3> QED
      BY <2>2, <2>5, <3>3 DEF Databases
  <2> HIDE DEF f
  <2>7. /\ u \in Databases /\ Rows(u) = Rows(t) /\ u.featured = f
        /\ u.schema = t.schema /\ Decorated(6, d, 5, u)
    BY <1>t, <1>6, <2>2, <2>3, <2>5, CardsChange
  <2>8. /\ r \in Databases /\ r.featured = f /\ r.schema = u.schema
        /\ r.copies = u.copies /\ r.look = u.look
        /\ Rows(r) = <<d.users, d.roles, b, d.bids, d.cars, d.subs>>
    BY <2>2, <2>6, <2>7 DEF Databases, Rows
  <2>9. Decorated(6, d, 5, r)
    BY <2>7, <2>8 DEF Decorated, SchemaInv, CopiesInv, LookInv
  <2>10. FeaturedInv(5, r)
    BY <1>t, <1>6, <2>2, <2>3, <2>4, <2>7, <2>8 DEF FeaturedInv, CardsAt
  <2> QED
    BY <1>6, <2>8, <2>9, <2>10
<1> QED
  BY <1>2, <1>5, <1>6 DEF DownOnCards

---------------------------------------------------------------------------
(* The migrations of accounts, bids and cars                               *)

Decor(d) == <<d.schema, d.copies, d.look, d.featured>>

LEMMA AccountType ==
    \A own \in BOOLEAN, role \in RoleNames \cup {None} :
        Account(own, role) \in Accounts
BY DEF Account, Accounts

(* One account is added or written, or one is removed.                     *)
LEMMA OnWith ==
    ASSUME NEW d \in Databases, NEW e \in Emails, NEW a \in Accounts,
           NEW f, f = With(d.users, e, a)
    PROVE  /\ DOMAIN f = DOMAIN d.users \cup {e}
           /\ f \in [DOMAIN f -> Accounts]
           /\ DOMAIN f \in SUBSET Emails
           /\ f[e] = a
           /\ \A x \in DOMAIN d.users \ {e} : f[x] = d.users[x]
<1>1. PICK u : u = d.users
  OBVIOUS
<1>2. u \in [DOMAIN u -> Accounts] /\ DOMAIN u \in SUBSET Emails
  BY <1>1, UsersType
<1>3. /\ DOMAIN f = DOMAIN u \cup {e} /\ f[e] = a
      /\ \A x \in DOMAIN f : f[x] = IF x = e THEN a ELSE u[x]
      /\ f = [x \in DOMAIN f |-> f[x]]
  BY <1>1 DEF With
<1>4. \A x \in DOMAIN f : f[x] \in Accounts
  BY <1>2, <1>3
<1> QED
  BY <1>1, <1>2, <1>3, <1>4

LEMMA OnWithout ==
    ASSUME NEW d \in Databases, NEW e, NEW f, f = Without(d.users, e)
    PROVE  /\ DOMAIN f = DOMAIN d.users \ {e}
           /\ f \in [DOMAIN f -> Accounts]
           /\ DOMAIN f \in SUBSET Emails
           /\ \A x \in DOMAIN f : f[x] = d.users[x]
<1>1. PICK u : u = d.users
  OBVIOUS
<1>2. u \in [DOMAIN u -> Accounts] /\ DOMAIN u \in SUBSET Emails
  BY <1>1, UsersType
<1>3. /\ DOMAIN f = DOMAIN u \ {e}
      /\ \A x \in DOMAIN f : f[x] = u[x]
      /\ f = [x \in DOMAIN f |-> f[x]]
  BY <1>1 DEF Without
<1>4. \A x \in DOMAIN f : f[x] \in Accounts
  BY <1>2, <1>3
<1> QED
  BY <1>1, <1>2, <1>3, <1>4

(* A car outlives its client, and the clerk who entered it outlives it.    *)
CarsAfter(d, e) ==
    {[c EXCEPT !.client = IF @ = e THEN None ELSE @] : c \in d.cars}

LEMMA OnDeleted ==
    ASSUME NEW d \in Databases, NEW e
    PROVE  /\ Deleted(d, e) \in Databases
           /\ Decor(Deleted(d, e)) = Decor(d)
           /\ Rows(Deleted(d, e)) = <<Without(d.users, e), d.roles, d.auctions,
                                      d.bids, CarsAfter(d, e), d.subs>>
<1>1. PICK f : f = Without(d.users, e)
  OBVIOUS
<1>2. f \in UNION {[E -> Accounts] : E \in SUBSET Emails}
  <2>1. f \in [DOMAIN f -> Accounts] /\ DOMAIN f \in SUBSET Emails
    BY <1>1, OnWithout
  <2> QED
    BY <2>1
<1>3. PICK cars : cars = CarsAfter(d, e)
  OBVIOUS
<1>4. cars \in SUBSET [client : Emails \cup {None}, by : Emails, sub : BOOLEAN]
  BY <1>3 DEF CarsAfter, Databases
<1>5. Deleted(d, e) = [d EXCEPT !.users = f, !.cars = cars]
  BY <1>1, <1>3 DEF Deleted, CarsAfter
<1> QED
  BY <1>1, <1>2, <1>3, <1>4, <1>5 DEF Databases, Decor, Rows

(* Nothing refers to an account whose row is gone.                         *)
LEMMA DeletedRows ==
    ASSUME NEW d \in Databases, NEW e, NEW n \in 20 .. Newest,
    NEW m \in 20 .. Newest,
           RowsInv(n, d), ~Referenced(d, e)
    PROVE  RowsInv(m, Deleted(d, e))
<1>1. PICK r : r = Deleted(d, e)
  OBVIOUS
<1>2. /\ r.users = Without(d.users, e) /\ r.auctions = d.auctions
      /\ r.bids = d.bids /\ r.cars = CarsAfter(d, e)
  BY <1>1, OnDeleted DEF Rows
<1>3. DOMAIN r.users = DOMAIN d.users \ {e}
  BY <1>2, OnWithout
<1>4. d.bids \subseteq DOMAIN d.users /\ e \notin d.bids /\ "unlisted" \notin d.auctions
  BY DEF RowsInv, Referenced, Newest
<1>5. ASSUME NEW c \in r.cars
      PROVE  c.by \in DOMAIN r.users /\ c.client \in DOMAIN r.users \cup {None}
  <2>1. PICK k \in d.cars :
           c = [k EXCEPT !.client = IF k.client = e THEN None ELSE k.client]
    BY <1>2, <1>5 DEF CarsAfter
  <2>2. /\ k.by \in DOMAIN d.users /\ k.by # e
        /\ k.client \in DOMAIN d.users \cup {None}
    BY DEF RowsInv, Referenced
  <2>3. k \in [client : Emails \cup {None}, by : Emails, sub : BOOLEAN]
    BY DEF Databases
  <2>4. /\ c.by = k.by
        /\ c.client = IF k.client = e THEN None ELSE k.client
    BY <2>1, <2>3
  <2> QED
    BY <1>3, <2>2, <2>4
<1>6. RowsInv(m, r)
  BY <1>2, <1>3, <1>4, <1>5 DEF RowsInv, Newest
<1> QED
  BY <1>1, <1>6

LEMMA Down1 ==
    ASSUME NEW d \in Databases, NEW r \in Down(1, d), SchemaInv(1, d)
    PROVE  /\ r \in Databases
           /\ Decorated(1, d, 0, r)
           /\ r.featured = d.featured
           /\ Rows(r) = <<d.users, d.roles, {}, {}, d.cars, d.subs>>
<1>1. PICK t : t = Drop(d, {"auctions", "bids"})
  OBVIOUS
<1>2. r = [t EXCEPT !.auctions = {}, !.bids = {}]
  BY <1>1, DownIs DEF Down_0001_initial
<1>3. /\ t \in Databases /\ Rows(t) = Rows(d) /\ t.featured = d.featured
      /\ Decorated(1, d, 0, t)
  BY <1>1, OnDrop
     DEF Decorated, SchemaInv, SchemaAt, RestoredAt, SchemaObjects, CopiesInv,
         CopiesAt, SeededAt, SeedGroups, LookInv, LookAt, Looks, LookValues
<1>4. /\ r \in Databases /\ r.schema = t.schema /\ r.copies = t.copies
      /\ r.look = t.look /\ r.featured = d.featured
      /\ Rows(r) = <<d.users, d.roles, {}, {}, d.cars, d.subs>>
  BY <1>2, <1>3 DEF Databases, Rows
<1> QED
  BY <1>3, <1>4 DEF Decorated, SchemaInv, CopiesInv, LookInv

LEMMA Down3 ==
    ASSUME NEW d \in Databases, NEW r \in Down(3, d), SchemaInv(3, d)
    PROVE  /\ r \in Databases
           /\ Decorated(3, d, 2, r)
           /\ "featured.title?" \in d.schema => "featured.title?" \in r.schema
           /\ r.featured = d.featured
           /\ Rows(r) = << <<>>, d.roles, d.auctions,
                           IF d.bids = {} THEN {} ELSE {Stranger}, d.cars, d.subs>>
<1> DEFINE b == IF d.bids = {} THEN {} ELSE {Stranger}
<1>1. PICK t : t = Drop(d, {"users", "tokens", "users.role"})
  OBVIOUS
<1>3. /\ t \in Databases /\ Rows(t) = Rows(d) /\ t.featured = d.featured
      /\ Decorated(3, d, 2, t) /\ t.bids = d.bids
      /\ t.schema = d.schema \ {"users", "tokens", "users.role"}
  BY <1>1, OnDrop
     DEF Decorated, SchemaInv, SchemaAt, RestoredAt, SchemaObjects, CopiesInv,
         CopiesAt, SeededAt, SeedGroups, LookInv, LookAt, Looks, LookValues,
         Rows
<1>2. r = [t EXCEPT !.users = <<>>, !.bids = b]
  <2>1. r \in Down_0003_auth_tables(d)
    BY DownIs
  <2>2. r = [t EXCEPT !.users = <<>>, !.bids = IF @ = {} THEN {} ELSE {Stranger}]
    BY <1>1, <2>1 DEF Down_0003_auth_tables
  <2> QED
    BY <1>3, <2>2
<1>4. <<>> \in UNION {[E -> Accounts] : E \in SUBSET Emails}
  <2>1. <<>> \in [{} -> Accounts]
    OBVIOUS
  <2> QED
    BY <2>1
<1>5. b \in SUBSET (Emails \cup {Stranger})
  OBVIOUS
<1> HIDE DEF b
<1>6. /\ r \in Databases /\ r.schema = t.schema /\ r.copies = t.copies
      /\ r.look = t.look /\ r.featured = d.featured
      /\ Rows(r) = << <<>>, d.roles, d.auctions, b, d.cars, d.subs>>
  BY <1>2, <1>3, <1>4, <1>5 DEF Databases, Rows
<1> QED
  BY <1>3, <1>6 DEF Decorated, SchemaInv, CopiesInv, LookInv, b

(* Migrations that change neither the schema nor seeded rows.              *)
LEMMA Undecorated ==
    ASSUME NEW d, NEW r, Decor(r) = Decor(d),
           NEW n, NEW m,
           <<n, m>> \in {<<20, 21>>, <<21, 20>>, <<22, 23>>, <<23, 22>>,
                         <<30, 31>>, <<31, 30>>}
    PROVE  /\ Decorated(n, d, m, r)
           /\ d.schema = SchemaAt(n) => r.schema = SchemaAt(m)
<1>1. /\ r.schema = d.schema /\ r.copies = d.copies /\ r.look = d.look
  BY DEF Decor
<1>2. SchemaAt(n) = SchemaAt(m)
  BY DEF SchemaAt
<1>3. SchemaInv(n, d) => SchemaInv(m, r)
  BY <1>1, <1>2 DEF SchemaInv
<1>4. SeededAt(n) = SeededAt(m)
  BY DEF SeededAt
<1>5. CopiesInv(n, d) => CopiesInv(m, r)
  BY <1>1, <1>4 DEF CopiesInv, CopiesAt
<1>6. LookInv(n, d) => LookInv(m, r)
  BY <1>1 DEF LookInv, LookAt, Looks
<1> QED
  BY <1>1, <1>2, <1>3, <1>5, <1>6 DEF Decorated

(* 0021 inserts the sellers that are missing.                              *)
LEMMA Up21 ==
    ASSUME NEW d \in Databases, RowsInv(20, d), UsersInv(20, d), NEW r \in Up(21, d)
    PROVE  /\ r \in Databases /\ Decor(r) = Decor(d)
           /\ RowsInv(21, r) /\ UsersInv(21, r)
           /\ \A e \in DOMAIN d.users : e \in DOMAIN r.users /\ r.users[e] = d.users[e]
           /\ \A e \in DOMAIN r.users \ DOMAIN d.users : r.users[e].role = "Seller"
<1>1. CASE SellerEmail \in DOMAIN d.users
  <2>1. r = d
    BY <1>1, UpIs DEF Up_0021_seed_uat_seller_users
  <2>2. RowsInv(21, d)
    BY DEF RowsInv
  <2>3. UsersInv(21, d)
    BY DEF UsersInv, AccountInv
  <2> QED
    BY <2>1, <2>2, <2>3
<1>2. CASE SellerEmail \notin DOMAIN d.users
  <2>1. PICK a : a = Account(FALSE, "Seller")
    OBVIOUS
  <2>2. /\ a \in Accounts /\ a.role = "Seller" /\ a.primary = None
        /\ a.held = {} /\ a.flagged = {} /\ "Seller" \in RoleNames
    BY <2>1, AccountType DEF Account, RoleNames, SeedRoles
  <2>3. PICK f : f = With(d.users, SellerEmail, a)
    OBVIOUS
  <2>4. /\ DOMAIN f = DOMAIN d.users \cup {SellerEmail}
        /\ f[SellerEmail] = a
        /\ \A x \in DOMAIN d.users \ {SellerEmail} : f[x] = d.users[x]
    BY <2>3 DEF With
  <2>9. f \in [DOMAIN f -> Accounts] /\ DOMAIN f \in SUBSET Emails
    BY <2>2, <2>3, OnWith, MigrationAssumption
  <2>5. r = [d EXCEPT !.users = f]
    <3>1. r \in Up_0021_seed_uat_seller_users(d)
      BY UpIs
    <3> QED
      BY <1>2, <2>1, <2>3, <3>1 DEF Up_0021_seed_uat_seller_users
  <2>6. /\ r \in Databases /\ Decor(r) = Decor(d)
        /\ r.users = f /\ r.roles = d.roles /\ r.auctions = d.auctions
        /\ r.bids = d.bids /\ r.cars = d.cars
    BY <2>5, <2>9, OnUsers DEF Decor, Rows
  <2>7. RowsInv(21, r)
    BY <2>4, <2>6 DEF RowsInv
  <2>8. UsersInv(21, r)
    BY <1>2, <2>2, <2>4, <2>6 DEF UsersInv, AccountInv
  <2> QED
    BY <1>2, <2>2, <2>4, <2>6, <2>7, <2>8
<1> QED
  BY <1>1, <1>2

(* It is undone for rows that are still as it has inserted them.           *)
LEMMA Down21 ==
    ASSUME NEW d \in Databases, RowsInv(21, d), UsersInv(21, d),
           NEW r \in Down(21, d), r # Failed
    PROVE  /\ r \in Databases /\ Decor(r) = Decor(d)
           /\ RowsInv(20, r) /\ UsersInv(20, r)
           /\ \A e \in DOMAIN r.users : e \in DOMAIN d.users /\ r.users[e] = d.users[e]
           /\ \A e \in DOMAIN d.users \ DOMAIN r.users : ~d.users[e].own
<1>1. CASE r = d
  <2>1. RowsInv(20, d)
    BY DEF RowsInv
  <2>2. UsersInv(20, d)
    BY DEF UsersInv, AccountInv
  <2> QED
    BY <1>1, <2>1, <2>2
<1>2. CASE r # d
  <2>1. /\ r = Deleted(d, SellerEmail) /\ ~Referenced(d, SellerEmail)
        /\ ~d.users[SellerEmail].own
    BY <1>2, DownIs DEF Down_0021_seed_uat_seller_users
  <2>2. /\ r \in Databases /\ Decor(r) = Decor(d) /\ r.roles = d.roles
        /\ r.users = Without(d.users, SellerEmail)
    BY <2>1, OnDeleted DEF Rows
  <2>3. /\ DOMAIN r.users = DOMAIN d.users \ {SellerEmail}
        /\ \A e \in DOMAIN r.users : r.users[e] = d.users[e]
    BY <2>2 DEF Without
  <2>4. RowsInv(20, r)
    BY <2>1, DeletedRows DEF Newest
  <2>5. UsersInv(20, r)
    BY <2>2, <2>3 DEF UsersInv, AccountInv
  <2> QED
    BY <2>1, <2>2, <2>3, <2>4, <2>5
<1> QED
  BY <1>1, <1>2

(* 0022 and 0023, the sub-sellers, leave cars with their clerk and client. *)
SubsOnly(d, r) ==
    /\ r.featured = d.featured /\ r.users = d.users /\ r.roles = d.roles
    /\ r.auctions = d.auctions /\ r.bids = d.bids
    /\ \A c \in r.cars : \E k \in d.cars : c.by = k.by /\ c.client = k.client

LEMMA SubSellers ==
    ASSUME NEW n \in {22, 23}, NEW up \in BOOLEAN, NEW d \in Databases,
           NEW r \in IF up THEN Up(n, d) ELSE Down(n, d), up \/ r # Failed
    PROVE  /\ r \in Databases
           /\ Decorated(IF up THEN n - 1 ELSE n, d, IF up THEN n ELSE n - 1, r)
           /\ up /\ d.schema = SchemaAt(n - 1) => r.schema = SchemaAt(n)
           /\ SubsOnly(d, r)
<1> DEFINE Plain == {[c EXCEPT !.sub = FALSE] : c \in d.cars}
<1>0. /\ Plain \in SUBSET [client : Emails \cup {None}, by : Emails, sub : BOOLEAN]
      /\ \A c \in Plain : \E k \in d.cars : c.by = k.by /\ c.client = k.client
  <2>1. \A c \in d.cars :
           c \in [client : Emails \cup {None}, by : Emails, sub : BOOLEAN]
    BY DEF Databases
  <2> QED
    BY <2>1
<1>1. CASE n = 22 /\ up
  <2>1. PICK t : t = Drop(Create(d, {"sub_sellers", "listings.sub->subs"}),
                          {"listings.sub->users"})
    OBVIOUS
  <2>2. /\ t \in Databases /\ Decorated(21, d, 22, t) /\ Rows(t) = Rows(d)
        /\ d.schema = SchemaAt(21) => t.schema = SchemaAt(22)
        /\ t.featured = d.featured
    BY <2>1, OnCreate, OnDrop
       DEF Decorated, SchemaInv, SchemaAt, RestoredAt, SchemaObjects, CopiesInv,
           CopiesAt, SeededAt, SeedGroups, LookInv, LookAt, Looks, LookValues
  <2>3. r = [t EXCEPT !.cars = Plain]
    BY <1>1, <2>1, <2>2, UpIs DEF Up_0022_sub_sellers, Rows
  <2> HIDE DEF Plain
  <2>4. /\ r \in Databases /\ r.schema = t.schema /\ r.copies = t.copies
        /\ r.look = t.look /\ r.featured = t.featured
        /\ Rows(r) = <<t.users, t.roles, t.auctions, t.bids, Plain, t.subs>>
    BY <1>0, <2>2, <2>3 DEF Databases, Rows
  <2>5. Decorated(21, d, 22, r)
    BY <2>2, <2>4 DEF Decorated, SchemaInv, CopiesInv, LookInv
  <2> QED
    BY <1>0, <1>1, <2>2, <2>4, <2>5 DEF SubsOnly, Rows
<1>2. CASE n = 22 /\ ~up
  <2>1. PICK t : t = Create(Drop(d, {"sub_sellers", "listings.sub->subs"}),
                            {"listings.sub->users"})
    OBVIOUS
  <2>2. /\ t \in Databases /\ Decorated(22, d, 21, t) /\ Rows(t) = Rows(d)
        /\ t.featured = d.featured
    BY <2>1, OnCreate, OnDrop
       DEF Decorated, SchemaInv, SchemaAt, RestoredAt, SchemaObjects, CopiesInv,
           CopiesAt, SeededAt, SeedGroups, LookInv, LookAt, Looks, LookValues
  <2>3. r = [t EXCEPT !.cars = Plain, !.subs = FALSE]
    <3>1. r \in Down_0022_sub_sellers(d)
      BY <1>2, DownIs
    <3>2. t.cars = d.cars
      BY <2>2 DEF Rows
    <3>3. r = [t EXCEPT !.cars = {[c EXCEPT !.sub = FALSE] : c \in @}, !.subs = FALSE]
      BY <2>1, <3>1 DEF Down_0022_sub_sellers
    <3> QED
      BY <3>2, <3>3
  <2> HIDE DEF Plain
  <2>4. /\ r \in Databases /\ r.schema = t.schema /\ r.copies = t.copies
        /\ r.look = t.look /\ r.featured = t.featured
        /\ Rows(r) = <<t.users, t.roles, t.auctions, t.bids, Plain, FALSE>>
    BY <1>0, <2>2, <2>3 DEF Databases, Rows
  <2>5. Decorated(22, d, 21, r)
    BY <2>2, <2>4 DEF Decorated, SchemaInv, CopiesInv, LookInv
  <2> QED
    BY <1>0, <1>2, <2>2, <2>4, <2>5 DEF SubsOnly, Rows
<1>3. CASE n = 23
  <2>1. PICK s \in BOOLEAN : r = [d EXCEPT !.subs = s]
    <3>1. CASE up
      <4>1. r \in Up_0023_seed_sub_sellers(d)
        BY <1>3, <3>1, UpIs
      <4>2. PICK s : s = (d.subs \/ ( /\ SellerEmail \in DOMAIN d.users
                                      /\ d.users[SellerEmail].seeded ))
        OBVIOUS
      <4>3. r = [d EXCEPT !.subs = s]
        BY <4>1, <4>2 DEF Up_0023_seed_sub_sellers
      <4> QED
        BY <4>2, <4>3
    <3>2. CASE ~up
      BY <1>3, <3>2, DownIs DEF Down_0023_seed_sub_sellers
    <3> QED
      BY <3>1, <3>2
  <2>2. /\ r \in Databases /\ Decor(r) = Decor(d) /\ SubsOnly(d, r)
    BY <2>1 DEF Databases, Decor, SubsOnly
  <2>3. /\ Decorated(22, d, 23, r) /\ Decorated(23, d, 22, r)
        /\ d.schema = SchemaAt(22) => r.schema = SchemaAt(23)
    BY <2>2, Undecorated
  <2> QED
    BY <1>3, <2>2, <2>3
<1> QED
  BY <1>1, <1>2, <1>3

---------------------------------------------------------------------------
(* Roles: 0029, 0030 and 0031                                              *)

(* The roles that every database has.                                      *)
LEMMA RoleNamesFacts ==
    /\ SeedRoles \subseteq RoleNames /\ None \notin RoleNames
    /\ "Buyer" \in SeedRoles /\ "Seller" \in SeedRoles
    /\ \A r, s \in SeedRoles : Fold[r] = Fold[s] => r = s
BY MigrationAssumption DEF RoleNames, SeedRoles

(* A name that SELECT DISTINCT has merged with another one collides.       *)
LEMMA Merged ==
    ASSUME NEW names, NEW legacy \in Distinct(names),
           NEW role \in names, role \notin SeedRoles \cup Unseeded(legacy)
    PROVE  Collision(names)
<1>1. legacy \subseteq names /\ \E s \in legacy : Fold[s] = Fold[role]
  BY DEF Distinct
<1>2. role \notin legacy
  BY DEF Unseeded
<1> QED
  BY <1>1, <1>2 DEF Collision

(* What 0029 does to an account: the row of user_roles is its role, or the *)
(* one of Buyer.                                                           *)
LEMMA Up29 ==
    ASSUME NEW d \in Databases, RowsInv(28, d), UsersInv(28, d),
           NEW r \in Up(29, d), r # Failed \/ ~UpRaises(29, d)
    PROVE  /\ r \in Databases
           /\ Decorated(28, d, 29, r)
           /\ d.schema = SchemaAt(28) => r.schema = SchemaAt(29)
           /\ r.featured = d.featured
           /\ RowsInv(29, r) /\ UsersInv(29, r)
           /\ DOMAIN r.users = DOMAIN d.users
           /\ \A e \in DOMAIN r.users :
                 /\ r.users[e].own = d.users[e].own
                 /\ r.users[e].role = d.users[e].role
                 /\ r.users[e].primary = d.users[e].primary
                 /\ r.users[e].flagged # {}
<1>1. PICK legacy \in Distinct(RolesInUse(d)) :
        LET names == SeedRoles \cup Unseeded(legacy)
            RoleFor(role) == IF role \in names THEN role ELSE "Buyer"
        IN  r = [Create(d, {"roles", "user_roles", "user_roles.is_primary"})
                   EXCEPT !.roles = names,
                          !.users = [e \in DOMAIN @ |->
                              [@[e] EXCEPT !.held = {RoleFor(d.users[e].role)},
                                           !.flagged = {RoleFor(d.users[e].role)}]]]
  <2>1. r \in Up_0029_roles(d)
    BY UpIs
  <2> QED
    BY <2>1 DEF Up_0029_roles, RolesMadeOf, UpRaises, Unseeded, Distinct
<1> DEFINE names == SeedRoles \cup Unseeded(legacy)
           RoleFor(role) == IF role \in names THEN role ELSE "Buyer"
           f == [e \in DOMAIN d.users |->
                    [d.users[e] EXCEPT !.held = {RoleFor(d.users[e].role)},
                                       !.flagged = {RoleFor(d.users[e].role)}]]
<1>2. PICK t : t = Create(d, {"roles", "user_roles", "user_roles.is_primary"})
  OBVIOUS
<1>3. /\ t \in Databases /\ t.featured = d.featured /\ Rows(t) = Rows(d)
      /\ Decorated(28, d, 29, t)
      /\ d.schema = SchemaAt(28) => t.schema = SchemaAt(29)
  BY <1>2, OnCreate
     DEF Decorated, SchemaInv, SchemaAt, RestoredAt, SchemaObjects, CopiesInv,
         CopiesAt, SeededAt, SeedGroups, LookInv, LookAt, Looks
<1>4. t.users = d.users
  BY <1>3 DEF Rows
<1>5. r = [t EXCEPT !.roles = names, !.users = f]
  BY <1>1, <1>2, <1>4
<1>6. \A e \in DOMAIN d.users : /\ d.users[e] \in Accounts
                                /\ d.users[e].role \in RoleNames
                                /\ d.users[e].primary = None
  BY UsersType DEF UsersInv, AccountInv
<1>7. names \in SUBSET RoleNames
  <2>1. RolesInUse(d) \subseteq RoleNames
    BY <1>6 DEF RolesInUse
  <2> QED
    BY <1>1, <2>1, RoleNamesFacts DEF Distinct, Unseeded
<1>8. \A e \in DOMAIN d.users : RoleFor(d.users[e].role) \in names
  BY RoleNamesFacts
<1>9. \A e \in DOMAIN d.users :
         \/ RoleFor(d.users[e].role) = d.users[e].role
         \/ Collision(RolesInUse(d))
  <2>1. \A e \in DOMAIN d.users : d.users[e].role \in RolesInUse(d)
    BY DEF RolesInUse
  <2> QED
    BY <2>1, Merged
<1> HIDE DEF names, RoleFor
<1>10. /\ DOMAIN f = DOMAIN d.users
       /\ \A e \in DOMAIN f :
             /\ f[e] \in Accounts
             /\ f[e].own = d.users[e].own
             /\ f[e].role = d.users[e].role
             /\ f[e].primary = d.users[e].primary
             /\ f[e].held = {RoleFor(d.users[e].role)}
             /\ f[e].flagged = {RoleFor(d.users[e].role)}
  <2>1. ASSUME NEW e \in DOMAIN d.users
        PROVE  /\ f[e] \in Accounts
               /\ f[e].own = d.users[e].own
               /\ f[e].role = d.users[e].role
               /\ f[e].primary = d.users[e].primary
               /\ f[e].held = {RoleFor(d.users[e].role)}
               /\ f[e].flagged = {RoleFor(d.users[e].role)}
    <3>1. PICK x : x = RoleFor(d.users[e].role)
      OBVIOUS
    <3>2. x \in RoleNames /\ d.users[e] \in Accounts
      BY <1>6, <1>7, <1>8, <3>1
    <3>3. f[e] = [d.users[e] EXCEPT !.held = {x}, !.flagged = {x}]
      BY <3>1
    <3> QED
      BY <3>1, <3>2, <3>3 DEF Accounts
  <2> QED
    BY <2>1
<1>11. f \in [DOMAIN f -> Accounts] /\ DOMAIN f \in SUBSET Emails
  BY <1>10, UsersType
<1> HIDE DEF f
<1>12. PICK u : u = [t EXCEPT !.users = f]
  OBVIOUS
<1>13. /\ u \in Databases /\ u.schema = t.schema /\ u.copies = t.copies
       /\ u.look = t.look /\ u.featured = t.featured
       /\ Rows(u) = <<f, t.roles, t.auctions, t.bids, t.cars, t.subs>>
  BY <1>3, <1>11, <1>12, OnUsers
<1>14. r = [u EXCEPT !.roles = names]
  BY <1>3, <1>5, <1>12 DEF Databases
<1>15. /\ r \in Databases /\ r.schema = t.schema /\ r.copies = t.copies
       /\ r.look = t.look /\ r.featured = d.featured
       /\ Rows(r) = <<f, names, d.auctions, d.bids, d.cars, d.subs>>
  BY <1>3, <1>7, <1>13, <1>14 DEF Databases, Rows
<1>16. Decorated(28, d, 29, r)
  BY <1>3, <1>15 DEF Decorated, SchemaInv, CopiesInv, LookInv
<1>17. RowsInv(29, r)
  BY <1>10, <1>15 DEF RowsInv, Rows
<1>18. RolesInUse(r) = RolesInUse(d)
  BY <1>10, <1>15 DEF RolesInUse, Rows
<1>19. UsersInv(29, r)
  <2>1. SeedRoles \subseteq r.roles /\ r.users = f /\ r.roles = names
    BY <1>15 DEF names, Rows
  <2>2. ASSUME NEW e \in DOMAIN r.users
        PROVE  AccountInv(29, r, r.users[e])
    BY <1>6, <1>8, <1>9, <1>10, <1>18, <2>1 DEF AccountInv
  <2> QED
    BY <2>1, <2>2 DEF UsersInv
<1> QED
  BY <1>3, <1>10, <1>15, <1>16, <1>17, <1>19 DEF Rows

(* 0030 makes the flagged role the primary one.                            *)
LEMMA Up30 ==
    ASSUME NEW d \in Databases, RowsInv(29, d), UsersInv(29, d),
           NEW r \in Up(30, d), r # Failed \/ ~UpRaises(30, d)
    PROVE  /\ r \in Databases
           /\ Decorated(29, d, 30, r)
           /\ d.schema = SchemaAt(29) => r.schema = SchemaAt(30)
           /\ r.featured = d.featured
           /\ RowsInv(30, r) /\ UsersInv(30, r)
           /\ DOMAIN r.users = DOMAIN d.users
           /\ \A e \in DOMAIN r.users :
                 /\ r.users[e].own = d.users[e].own
                 /\ r.users[e].primary \in d.users[e].flagged
<1> DEFINE f == [e \in DOMAIN d.users |->
                    [d.users[e] EXCEPT
                        !.role = None, !.flagged = {},
                        !.primary = CHOOSE x \in d.users[e].flagged : TRUE]]
<1>1. /\ \A e \in DOMAIN d.users : d.users[e].flagged # {}
      /\ r \in {[Drop(Create(d, {"users.primary_role_id"}),
                      {"users.role", "user_roles.is_primary"})
                   EXCEPT !.users = [e \in DOMAIN @ |->
                       [@[e] EXCEPT !.role = None, !.flagged = {},
                           !.primary = CHOOSE x \in d.users[e].flagged : TRUE]]]}
  <2>1. r \in Up_0030_users_primary_role_fk(d)
    BY UpIs
  <2> QED
    BY <2>1 DEF Up_0030_users_primary_role_fk, UpRaises
<1>2. PICK t : t = Drop(Create(d, {"users.primary_role_id"}),
                        {"users.role", "user_roles.is_primary"})
  OBVIOUS
<1>3. /\ t \in Databases /\ t.featured = d.featured /\ Rows(t) = Rows(d)
      /\ Decorated(29, d, 30, t)
      /\ d.schema = SchemaAt(29) => t.schema = SchemaAt(30)
  BY <1>2, OnCreate, OnDrop
     DEF Decorated, SchemaInv, SchemaAt, RestoredAt, SchemaObjects, CopiesInv,
         CopiesAt, SeededAt, SeedGroups, LookInv, LookAt, Looks
<1>4. t.users = d.users
  BY <1>3 DEF Rows
<1>5. r = [t EXCEPT !.users = f]
  BY <1>1, <1>2, <1>4
<1>6. \A e \in DOMAIN d.users :
         /\ d.users[e] \in Accounts
         /\ d.users[e].flagged \subseteq d.users[e].held
         /\ d.users[e].held \subseteq d.roles
  BY UsersType DEF UsersInv, AccountInv
<1>7. d.roles \subseteq RoleNames
  BY DEF Databases
<1>8. /\ DOMAIN f = DOMAIN d.users
      /\ \A e \in DOMAIN f :
            /\ f[e] \in Accounts
            /\ f[e].own = d.users[e].own
            /\ f[e].role = None
            /\ f[e].flagged = {}
            /\ f[e].held = d.users[e].held
            /\ f[e].primary \in d.users[e].flagged
  <2>1. ASSUME NEW e \in DOMAIN d.users
        PROVE  (CHOOSE x \in d.users[e].flagged : TRUE) \in d.users[e].flagged
    BY <1>1
  <2> QED
    BY <1>6, <1>7, <2>1 DEF Accounts
<1>9. f \in [DOMAIN f -> Accounts] /\ DOMAIN f \in SUBSET Emails
  BY <1>8, UsersType
<1> HIDE DEF f
<1>10. /\ r \in Databases /\ r.schema = t.schema /\ r.copies = t.copies
       /\ r.look = t.look /\ r.featured = t.featured
       /\ Rows(r) = <<f, t.roles, t.auctions, t.bids, t.cars, t.subs>>
  BY <1>3, <1>5, <1>9, OnUsers
<1>11. Decorated(29, d, 30, r)
  BY <1>3, <1>10 DEF Decorated, SchemaInv, CopiesInv, LookInv
<1>12. /\ r.users = f /\ r.roles = d.roles /\ r.auctions = d.auctions
       /\ r.bids = d.bids /\ r.cars = d.cars
  BY <1>3, <1>10 DEF Rows
<1>13. RowsInv(30, r)
  BY <1>8, <1>12 DEF RowsInv
<1>14. UsersInv(30, r)
  BY <1>6, <1>8, <1>12 DEF UsersInv, AccountInv
<1> QED
  BY <1>3, <1>8, <1>10, <1>11, <1>12, <1>13, <1>14

LEMMA Down29 ==
    ASSUME NEW d \in Databases, RowsInv(29, d), UsersInv(29, d),
    NEW r \in Down(29, d)
    PROVE  /\ r \in Databases
           /\ Decorated(29, d, 28, r)
           /\ r.featured = d.featured
           /\ RowsInv(28, r) /\ UsersInv(28, r)
           /\ DOMAIN r.users = DOMAIN d.users
           /\ \A e \in DOMAIN r.users :
                 /\ r.users[e].own = d.users[e].own
                 /\ r.users[e].role = d.users[e].role
                 /\ r.users[e].primary = d.users[e].primary
<1> DEFINE f == [e \in DOMAIN d.users |->
                    [d.users[e] EXCEPT !.held = {}, !.flagged = {}]]
<1>1. PICK t : t = Drop(d, {"roles", "user_roles", "user_roles.is_primary"})
  OBVIOUS
<1>2. /\ t \in Databases /\ t.featured = d.featured /\ Rows(t) = Rows(d)
      /\ Decorated(29, d, 28, t)
  BY <1>1, OnDrop
     DEF Decorated, SchemaInv, SchemaAt, RestoredAt, SchemaObjects, CopiesInv,
         CopiesAt, SeededAt, SeedGroups, LookInv, LookAt, Looks
<1>3. r = [t EXCEPT !.roles = {}, !.users = f]
  <2>1. r \in Down_0029_roles(d)
    BY DownIs
  <2>2. t.users = d.users
    BY <1>2 DEF Rows
  <2>3. r = [t EXCEPT !.roles = {},
                      !.users = [e \in DOMAIN @ |->
                          [@[e] EXCEPT !.held = {}, !.flagged = {}]]]
    BY <1>1, <2>1 DEF Down_0029_roles
  <2> QED
    BY <2>2, <2>3
<1>4. \A e \in DOMAIN d.users : /\ d.users[e] \in Accounts
                                /\ d.users[e].role \in RoleNames
                                /\ d.users[e].primary = None
  BY UsersType DEF UsersInv, AccountInv
<1>5. /\ DOMAIN f = DOMAIN d.users
      /\ \A e \in DOMAIN f :
            /\ f[e] \in Accounts
            /\ f[e].own = d.users[e].own
            /\ f[e].role = d.users[e].role
            /\ f[e].primary = d.users[e].primary
            /\ f[e].held = {}
            /\ f[e].flagged = {}
  BY <1>4 DEF Accounts
<1>6. f \in [DOMAIN f -> Accounts] /\ DOMAIN f \in SUBSET Emails
  BY <1>5, UsersType
<1> HIDE DEF f
<1>7. PICK u : u = [t EXCEPT !.users = f]
  OBVIOUS
<1>8. /\ u \in Databases /\ u.schema = t.schema /\ u.copies = t.copies
      /\ u.look = t.look /\ u.featured = t.featured
      /\ Rows(u) = <<f, t.roles, t.auctions, t.bids, t.cars, t.subs>>
  BY <1>2, <1>6, <1>7, OnUsers
<1>9. r = [u EXCEPT !.roles = {}]
  BY <1>2, <1>3, <1>7 DEF Databases
<1>10. /\ r \in Databases /\ r.schema = t.schema /\ r.copies = t.copies
       /\ r.look = t.look /\ r.featured = d.featured
       /\ Rows(r) = <<f, {}, d.auctions, d.bids, d.cars, d.subs>>
  BY <1>2, <1>8, <1>9 DEF Databases, Rows
<1>11. Decorated(29, d, 28, r)
  BY <1>2, <1>10 DEF Decorated, SchemaInv, CopiesInv, LookInv
<1>12. /\ r.users = f /\ r.roles = {} /\ r.auctions = d.auctions
       /\ r.bids = d.bids /\ r.cars = d.cars
  BY <1>10 DEF Rows
<1>13. RowsInv(28, r)
  BY <1>5, <1>12 DEF RowsInv
<1>14. UsersInv(28, r)
  BY <1>4, <1>5, <1>12 DEF UsersInv, AccountInv
<1> QED
  BY <1>5, <1>10, <1>11, <1>12, <1>13, <1>14

(* Back to a string and a flag.                                            *)
LEMMA Down30 ==
    ASSUME NEW d \in Databases, RowsInv(30, d), UsersInv(30, d), NEW r \in Down(30, d)
    PROVE  /\ r \in Databases
           /\ Decorated(30, d, 29, r)
           /\ r.featured = d.featured
           /\ RowsInv(29, r) /\ UsersInv(29, r)
           /\ DOMAIN r.users = DOMAIN d.users
           /\ \A e \in DOMAIN r.users :
                 /\ r.users[e].own = d.users[e].own
                 /\ r.users[e].role = d.users[e].primary
                 /\ r.users[e].primary = None
<1> DEFINE f == [e \in DOMAIN d.users |->
                    [d.users[e] EXCEPT
                        !.role = d.users[e].primary, !.primary = None,
                        !.flagged = d.users[e].held \cap {d.users[e].primary}]]
<1>1. PICK t : t = Drop(Create(d, {"users.role", "user_roles.is_primary"}),
                        {"users.primary_role_id"})
  OBVIOUS
<1>2. /\ t \in Databases /\ t.featured = d.featured /\ Rows(t) = Rows(d)
      /\ Decorated(30, d, 29, t)
  BY <1>1, OnCreate, OnDrop
     DEF Decorated, SchemaInv, SchemaAt, RestoredAt, SchemaObjects, CopiesInv,
         CopiesAt, SeededAt, SeedGroups, LookInv, LookAt, Looks
<1>3. r = [t EXCEPT !.users = f]
  <2>1. r \in Down_0030_users_primary_role_fk(d)
    BY DownIs
  <2>2. t.users = d.users
    BY <1>2 DEF Rows
  <2>3. r = [t EXCEPT !.users = [e \in DOMAIN @ |->
                [@[e] EXCEPT !.role = d.users[e].primary, !.primary = None,
                             !.flagged = d.users[e].held \cap {d.users[e].primary}]]]
    BY <1>1, <2>1 DEF Down_0030_users_primary_role_fk
  <2> QED
    BY <2>2, <2>3
<1>4. \A e \in DOMAIN d.users : /\ d.users[e] \in Accounts
                                /\ d.users[e].primary \in d.users[e].held
                                /\ d.users[e].held \subseteq d.roles
  BY UsersType DEF UsersInv, AccountInv
<1>5. d.roles \subseteq RoleNames
  BY DEF Databases
<1>6. /\ DOMAIN f = DOMAIN d.users
      /\ \A e \in DOMAIN f :
            /\ f[e] \in Accounts
            /\ f[e].own = d.users[e].own
            /\ f[e].role = d.users[e].primary
            /\ f[e].primary = None
            /\ f[e].held = d.users[e].held
            /\ f[e].flagged = {d.users[e].primary}
  BY <1>4, <1>5 DEF Accounts
<1>7. f \in [DOMAIN f -> Accounts] /\ DOMAIN f \in SUBSET Emails
  BY <1>6, UsersType
<1> HIDE DEF f
<1>8. /\ r \in Databases /\ r.schema = t.schema /\ r.copies = t.copies
      /\ r.look = t.look /\ r.featured = t.featured
      /\ Rows(r) = <<f, t.roles, t.auctions, t.bids, t.cars, t.subs>>
  BY <1>2, <1>3, <1>7, OnUsers
<1>9. Decorated(30, d, 29, r)
  BY <1>2, <1>8 DEF Decorated, SchemaInv, CopiesInv, LookInv
<1>10. /\ r.users = f /\ r.roles = d.roles /\ r.auctions = d.auctions
       /\ r.bids = d.bids /\ r.cars = d.cars
  BY <1>2, <1>8 DEF Rows
<1>11. RowsInv(29, r)
  BY <1>6, <1>10 DEF RowsInv
<1>12. UsersInv(29, r)
  BY <1>4, <1>5, <1>6, <1>10 DEF UsersInv, AccountInv
<1> QED
  BY <1>2, <1>6, <1>8, <1>9, <1>10, <1>11, <1>12

(* The demo users: an account that is there keeps its primary role.        *)
LEMMA Up31 ==
    ASSUME NEW d \in Databases, RowsInv(30, d), UsersInv(30, d), NEW r \in Up(31, d)
    PROVE  /\ r \in Databases /\ Decor(r) = Decor(d)
           /\ RowsInv(31, r) /\ UsersInv(31, r)
           /\ \A e \in DOMAIN d.users :
                 /\ e \in DOMAIN r.users
                 /\ r.users[e].primary = d.users[e].primary
                 /\ r.users[e].role = d.users[e].role
<1> DEFINE there == DemoEmail \in DOMAIN d.users
           fresh == [Account(FALSE, None) EXCEPT !.primary = "Buyer"]
           before == IF there THEN d.users[DemoEmail] ELSE fresh
<1>1. /\ fresh \in Accounts /\ fresh.primary = "Buyer"
      /\ fresh.role = None /\ fresh.flagged = {} /\ fresh.held = {}
  <2>1. PICK a : a = Account(FALSE, None)
    OBVIOUS
  <2>2. a \in Accounts /\ a.role = None /\ a.flagged = {} /\ a.held = {}
    BY <2>1, AccountType DEF Account
  <2> QED
    BY <2>1, <2>2, RoleNamesFacts DEF Accounts
<1>2. \A e \in DOMAIN d.users :
         /\ d.users[e] \in Accounts /\ d.users[e].role = None
         /\ d.users[e].flagged = {} /\ d.users[e].primary \in d.users[e].held
         /\ d.users[e].held \subseteq d.roles
  BY UsersType DEF UsersInv, AccountInv
<1>3. SeedRoles \subseteq d.roles /\ d.roles \subseteq RoleNames
  BY DEF UsersInv, Databases
<1> HIDE DEF fresh
<1>4. /\ before \in Accounts /\ before.role = None /\ before.flagged = {}
      /\ before.held \subseteq d.roles /\ before.primary \in before.held \cup {"Buyer"}
  BY <1>1, <1>2
<1>5. PICK a : a = [before EXCEPT !.held = @ \cup {"Buyer", "Seller"}]
  OBVIOUS
<1>6. PICK f : f = With(d.users, DemoEmail, a)
  OBVIOUS
<1>7. r = [d EXCEPT !.users = f]
  <2>1. r \in Up_0031_seed_role_demo_users(d)
    BY UpIs
  <2> QED
    BY <1>5, <1>6, <2>1 DEF Up_0031_seed_role_demo_users, fresh
<1>8. /\ there => before = d.users[DemoEmail]
      /\ DOMAIN f = DOMAIN d.users \cup {DemoEmail} /\ f[DemoEmail] = a
      /\ \A x \in DOMAIN d.users \ {DemoEmail} : f[x] = d.users[x]
  BY <1>6 DEF With
<1> HIDE DEF before, there
<1>9. /\ a \in Accounts /\ a.role = None /\ a.flagged = {}
      /\ a.held \subseteq d.roles /\ a.primary \in a.held
      /\ a.primary = before.primary
  BY <1>3, <1>4, <1>5, RoleNamesFacts DEF Accounts
<1>10. f \in [DOMAIN f -> Accounts] /\ DOMAIN f \in SUBSET Emails
  BY <1>6, <1>9, OnWith, MigrationAssumption
<1>11. /\ r \in Databases /\ Decor(r) = Decor(d)
       /\ r.users = f /\ r.roles = d.roles /\ r.auctions = d.auctions
       /\ r.bids = d.bids /\ r.cars = d.cars
  BY <1>7, <1>10, OnUsers DEF Decor, Rows
<1>12. RowsInv(31, r)
  BY <1>8, <1>11 DEF RowsInv
<1>13. UsersInv(31, r)
  <2>1. \A e \in DOMAIN r.users : AccountInv(31, r, r.users[e])
    BY <1>2, <1>8, <1>9, <1>11 DEF AccountInv
  <2> QED
    BY <1>3, <1>11, <2>1 DEF UsersInv
<1>14. ASSUME NEW e \in DOMAIN d.users
       PROVE  /\ e \in DOMAIN r.users
              /\ r.users[e].primary = d.users[e].primary
              /\ r.users[e].role = d.users[e].role
  BY <1>2, <1>8, <1>9, <1>11 DEF there
<1> QED
  BY <1>11, <1>12, <1>13, <1>14

LEMMA Down31 ==
    ASSUME NEW d \in Databases, RowsInv(31, d), UsersInv(31, d),
           NEW r \in Down(31, d), r # Failed
    PROVE  /\ r \in Databases /\ Decor(r) = Decor(d)
           /\ RowsInv(30, r) /\ UsersInv(30, r)
           /\ \A e \in DOMAIN r.users : e \in DOMAIN d.users /\ r.users[e] = d.users[e]
           /\ DOMAIN d.users \ DOMAIN r.users \subseteq {DemoEmail}
<1>1. CASE r = d
  <2>1. RowsInv(30, d)
    BY DEF RowsInv
  <2>2. UsersInv(30, d)
    BY DEF UsersInv, AccountInv
  <2> QED
    BY <1>1, <2>1, <2>2
<1>2. CASE r # d
  <2>1. r = Deleted(d, DemoEmail) /\ ~Referenced(d, DemoEmail)
    BY <1>2, DownIs DEF Down_0031_seed_role_demo_users
  <2>2. /\ r \in Databases /\ Decor(r) = Decor(d) /\ r.roles = d.roles
        /\ r.users = Without(d.users, DemoEmail)
    BY <2>1, OnDeleted DEF Rows
  <2>3. /\ DOMAIN r.users = DOMAIN d.users \ {DemoEmail}
        /\ \A e \in DOMAIN r.users : r.users[e] = d.users[e]
    BY <2>2 DEF Without
  <2>4. RowsInv(30, r)
    BY <2>1, DeletedRows DEF Newest
  <2>5. UsersInv(30, r)
    BY <2>2, <2>3 DEF UsersInv, AccountInv
  <2> QED
    BY <2>2, <2>3, <2>4, <2>5
<1> QED
  BY <1>1, <1>2

---------------------------------------------------------------------------
(* The invariant of the databases at a revision, and each migration        *)

Inv(n, ed, d) ==
    /\ d \in Databases
    /\ SchemaInv(n, d)
    /\ ~ed => CopiesInv(n, d) /\ LookInv(n, d)
    /\ FeaturedInv(n, d)
    /\ RowsInv(n, d)
    /\ UsersInv(n, d)

(* Migrations that write no row of users keep what is known of those rows. *)
LEMMA UpRowsKept ==
    ASSUME NEW n \in 1 .. Newest, n \notin UpOnRows,
           NEW d, NEW r, Rows(r) = Rows(d),
           RowsInv(n - 1, d), UsersInv(n - 1, d),
           n = 8 => "unlisted" \notin d.auctions,
           n = 9 => d.bids \subseteq DOMAIN d.users
    PROVE  RowsInv(n, r) /\ UsersInv(n, r)
<1>1. /\ r.users = d.users /\ r.roles = d.roles /\ r.auctions = d.auctions
      /\ r.bids = d.bids /\ r.cars = d.cars
  BY DEF Rows
<1>2. RowsInv(n, r)
  BY <1>1 DEF RowsInv, Newest
<1>3. (n < 30 /\ n < 29) \/ n - 1 >= 30
  BY DEF UpOnRows, Newest
<1>4. UsersInv(n, r)
  BY <1>1, <1>3 DEF UsersInv, AccountInv, Newest
<1> QED
  BY <1>2, <1>4

LEMMA DownRowsKept ==
    ASSUME NEW n \in 1 .. Newest, n \notin DownOnRows \cup {20},
           NEW d, NEW r, Rows(r) = Rows(d), RowsInv(n, d), UsersInv(n, d)
    PROVE  RowsInv(n - 1, r) /\ UsersInv(n - 1, r)
<1>1. /\ r.users = d.users /\ r.roles = d.roles /\ r.auctions = d.auctions
      /\ r.bids = d.bids /\ r.cars = d.cars
  BY DEF Rows
<1>2. RowsInv(n - 1, r)
  BY <1>1 DEF RowsInv, Newest
<1>3. n < 29 \/ n - 1 >= 30
  BY DEF DownOnRows, Newest
<1>4. UsersInv(n - 1, r)
  BY <1>1, <1>3 DEF UsersInv, AccountInv, Newest, DownOnRows
<1> QED
  BY <1>2, <1>4

(* Migrations that write no card keep what is known of the cards.          *)
LEMMA FeaturedKept ==
    ASSUME NEW n \in 0 .. Newest, NEW m \in 0 .. Newest, NEW d, NEW r,
           FeaturedInv(n, d), r.featured = d.featured,
           CardsAt(n) = CardsAt(m), m >= 6 => n >= 6,
           m < 7 => \/ "featured.title?" \in r.schema
                    \/ /\ n < 7
                       /\ "featured.title?" \in d.schema => "featured.title?" \in r.schema
    PROVE  FeaturedInv(m, r)
BY DEF FeaturedInv, Newest

(* An upgrade by one revision keeps the invariant, and the exact schema.   *)
LEMMA UpInv ==
    ASSUME NEW n \in 1 .. Newest, NEW ed, NEW d, Inv(n - 1, ed, d),
           NEW r \in Up(n, d), r # Failed \/ ~UpRaises(n, d)
    PROVE  /\ Inv(n, ed, r)
           /\ d.schema = SchemaAt(n - 1) => r.schema = SchemaAt(n)
<1> USE DEF Inv
<1>1. CASE n \notin UpOnCards \cup UpOnRows
  <2>1. /\ r \in Databases /\ Decorated(n - 1, d, n, r)
        /\ d.schema = SchemaAt(n - 1) => r.schema = SchemaAt(n)
        /\ "featured.title?" \in d.schema => "featured.title?" \in r.schema
        /\ r.featured = d.featured /\ Rows(r) = Rows(d)
    BY <1>1, UpDecorates
  <2>2. /\ n = 8 => "unlisted" \notin d.auctions
        /\ n = 9 => d.bids \subseteq DOMAIN d.users
    BY UpIs DEF Up_0008_auction_vehicle_fk,
       Up_0009_vehicle_seller_and_bid_bidder_fk,
                UpRaises
  <2>3. RowsInv(n, r) /\ UsersInv(n, r)
    BY <1>1, <2>1, <2>2, UpRowsKept
  <2>4. FeaturedInv(n, r)
    <3>1. CardsAt(n - 1) = CardsAt(n) /\ (n >= 6 => n - 1 >= 6) /\ n - 1 \in 0 .. Newest
      BY <1>1 DEF CardsAt, UpOnCards, Newest
    <3> QED
      BY <2>1, <3>1, FeaturedKept DEF Newest
  <2> QED
    BY <2>1, <2>3, <2>4 DEF Decorated
<1>2. CASE n \in UpOnCards
  <2>1. /\ r \in Databases /\ Decorated(n - 1, d, n, r)
        /\ d.schema = SchemaAt(n - 1) => r.schema = SchemaAt(n)
        /\ FeaturedInv(n, r) /\ Rows(r) = Rows(d)
    BY <1>2, UpCards
  <2>2. RowsInv(n, r) /\ UsersInv(n, r)
    BY <1>2, <2>1, UpRowsKept DEF UpOnCards, UpOnRows
  <2> QED
    BY <2>1, <2>2 DEF Decorated
<1>3. CASE n \in {21, 31}
  <2>1. /\ r \in Databases /\ Decor(r) = Decor(d) /\ RowsInv(n, r) /\ UsersInv(n, r)
    BY <1>3, Up21, Up31
  <2>2. /\ Decorated(n - 1, d, n, r)
        /\ d.schema = SchemaAt(n - 1) => r.schema = SchemaAt(n)
    BY <1>3, <2>1, Undecorated
  <2>3. FeaturedInv(n, r)
    BY <1>3, <2>1 DEF FeaturedInv, CardsAt, Decor
  <2> QED
    BY <2>1, <2>2, <2>3 DEF Decorated
<1>4. CASE n \in {22, 23}
  <2>1. /\ r \in Databases /\ Decorated(n - 1, d, n, r)
        /\ d.schema = SchemaAt(n - 1) => r.schema = SchemaAt(n)
        /\ SubsOnly(d, r)
    BY <1>4, SubSellers
  <2>2. RowsInv(n, r) /\ FeaturedInv(n, r)
    BY <1>4, <2>1 DEF RowsInv, FeaturedInv, CardsAt, SubsOnly
  <2>3. UsersInv(n, r)
    BY <1>4, <2>1 DEF UsersInv, AccountInv, SubsOnly
  <2> QED
    BY <2>1, <2>2, <2>3 DEF Decorated
<1>5. CASE n \in {29, 30}
  <2>1. /\ r \in Databases /\ Decorated(n - 1, d, n, r)
        /\ d.schema = SchemaAt(n - 1) => r.schema = SchemaAt(n)
        /\ r.featured = d.featured /\ RowsInv(n, r) /\ UsersInv(n, r)
    BY <1>5, Up29, Up30
  <2>2. FeaturedInv(n, r)
    BY <1>5, <2>1 DEF FeaturedInv, CardsAt
  <2> QED
    BY <2>1, <2>2 DEF Decorated
<1> QED
  BY <1>1, <1>2, <1>3, <1>4, <1>5 DEF UpOnCards, UpOnRows

(* A downgrade by one revision keeps the invariant, where it succeeds.     *)
LEMMA DownInv ==
    ASSUME NEW n \in 1 .. Newest, NEW ed, NEW d, Inv(n, ed, d),
           NEW r \in Down(n, d), r # Failed
    PROVE  Inv(n - 1, ed, r)
<1> USE DEF Inv
<1>1. CASE n \notin DownOnCards \cup DownOnRows
  <2>1. /\ r \in Databases /\ Decorated(n, d, n - 1, r)
        /\ n = 7 => "featured.title?" \in r.schema
        /\ "featured.title?" \in d.schema => "featured.title?" \in r.schema
        /\ r.featured = d.featured /\ Rows(r) = Rows(d)
    BY <1>1, DownDecorates
  <2>2. n # 20
    BY DownIs DEF Down_0020_vehicle_submissions
  <2>3. RowsInv(n - 1, r) /\ UsersInv(n - 1, r)
    BY <1>1, <2>1, <2>2, DownRowsKept
  <2>4. FeaturedInv(n - 1, r)
    <3>1. /\ CardsAt(n) = CardsAt(n - 1) /\ (n - 1 >= 6 => n >= 6)
          /\ n - 1 \in 0 .. Newest /\ n \in 0 .. Newest
          /\ n - 1 < 7 => n < 7 \/ n = 7
      BY <1>1 DEF CardsAt, DownOnCards, Newest
    <3> QED
      BY <2>1, <3>1, FeaturedKept
  <2> QED
    BY <2>1, <2>3, <2>4 DEF Decorated
<1>2. CASE n \in {2, 5}
  <2>1. /\ r \in Databases /\ Decorated(n, d, n - 1, r)
        /\ FeaturedInv(n - 1, r) /\ Rows(r) = Rows(d)
    BY <1>2, DownCards DEF DownOnCards
  <2>2. RowsInv(n - 1, r) /\ UsersInv(n - 1, r)
    BY <1>2, <2>1, DownRowsKept DEF DownOnRows
  <2> QED
    BY <2>1, <2>2 DEF Decorated
<1>3. CASE n = 6
  <2>1. /\ r \in Databases /\ Decorated(6, d, 5, r) /\ FeaturedInv(5, r)
        /\ r.users = d.users /\ r.roles = d.roles /\ r.bids = d.bids
        /\ r.cars = d.cars
    BY <1>3, DownCards DEF DownOnCards, Rows
  <2>2. RowsInv(5, r) /\ UsersInv(5, r)
    BY <1>3, <2>1 DEF RowsInv, UsersInv, AccountInv
  <2> QED
    BY <1>3, <2>1, <2>2 DEF Decorated
<1>4. CASE n = 1
  <2>1. /\ r \in Databases /\ Decorated(1, d, 0, r) /\ r.featured = d.featured
        /\ r.users = d.users /\ r.roles = d.roles /\ r.cars = d.cars
    BY <1>4, Down1 DEF Rows
  <2>2. RowsInv(0, r) /\ UsersInv(0, r) /\ FeaturedInv(0, r)
    BY <1>4, <2>1 DEF RowsInv, UsersInv, AccountInv, FeaturedInv, CardsAt
  <2> QED
    BY <1>4, <2>1, <2>2 DEF Decorated
<1>5. CASE n = 3
  <2>1. /\ r \in Databases /\ Decorated(3, d, 2, r) /\ r.featured = d.featured
        /\ "featured.title?" \in d.schema => "featured.title?" \in r.schema
        /\ r.users = <<>> /\ r.roles = d.roles /\ r.cars = d.cars
    BY <1>5, Down3 DEF Rows
  <2>2. RowsInv(2, r) /\ UsersInv(2, r)
    BY <1>5, <2>1 DEF RowsInv, UsersInv, AccountInv
  <2>3. FeaturedInv(2, r)
    BY <1>5, <2>1 DEF FeaturedInv, CardsAt
  <2> QED
    BY <1>5, <2>1, <2>2, <2>3 DEF Decorated
<1>6. CASE n \in {21, 31}
  <2>1. /\ r \in Databases /\ Decor(r) = Decor(d)
        /\ RowsInv(n - 1, r) /\ UsersInv(n - 1, r)
    BY <1>6, Down21, Down31
  <2>2. Decorated(n, d, n - 1, r)
    BY <1>6, <2>1, Undecorated
  <2>3. FeaturedInv(n - 1, r)
    BY <1>6, <2>1 DEF FeaturedInv, CardsAt, Decor
  <2> QED
    BY <2>1, <2>2, <2>3 DEF Decorated
<1>7. CASE n \in {22, 23}
  <2>1. /\ r \in Databases /\ Decorated(n, d, n - 1, r) /\ SubsOnly(d, r)
    BY <1>7, SubSellers
  <2>2. RowsInv(n - 1, r) /\ FeaturedInv(n - 1, r)
    BY <1>7, <2>1 DEF RowsInv, FeaturedInv, CardsAt, SubsOnly
  <2>3. UsersInv(n - 1, r)
    BY <1>7, <2>1 DEF UsersInv, AccountInv, SubsOnly
  <2> QED
    BY <2>1, <2>2, <2>3 DEF Decorated
<1>8. CASE n \in {29, 30}
  <2>1. /\ r \in Databases /\ Decorated(n, d, n - 1, r)
        /\ r.featured = d.featured /\ RowsInv(n - 1, r) /\ UsersInv(n - 1, r)
    BY <1>8, Down29, Down30
  <2>2. FeaturedInv(n - 1, r)
    BY <1>8, <2>1 DEF FeaturedInv, CardsAt
  <2> QED
    BY <2>1, <2>2 DEF Decorated
<1> QED
  BY <1>1, <1>2, <1>3, <1>4, <1>5, <1>6, <1>7, <1>8 DEF DownOnCards, DownOnRows

=============================================================================
