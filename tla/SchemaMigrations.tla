-------------------------- MODULE SchemaMigrations --------------------------
(***************************************************************************)
(* The thirty-two migrations of alembic/versions as functions on the       *)
(* database, and the database as deployments, releases and users see it.   *)
(* "alembic upgrade" and "alembic downgrade" run all the migrations up to  *)
(* their target in one transaction (alembic/env.py).                       *)
(*                                                                         *)
(* A table or a group of columns is an object of the schema; the rows that *)
(* a migration seeds together are counted by copies; of the cards of the   *)
(* home page one of each audience stands for all.                          *)
(***************************************************************************)
EXTENDS Naturals, FiniteSets

CONSTANTS
    Emails,       \* accounts, by e-mail address
    SellerEmail,  \* the one that stands for the sellers of 0021
    DemoEmail,    \* the one that stands for the demo users of 0031
    Stranger,     \* a bidder that is not in users
    LegacyRoles,  \* strings found in users.role beside "Buyer" and "Seller"
    Fold,         \* how the collation of the database compares names
    Failed,       \* a migration that raises: everything is rolled back
    None,         \* NULL
    Stops,        \* revisions that deployments stop at
    MaxWrites     \* bound: writes by users and curators

Newest == 32
SeedRoles == {"Buyer", "Seller", "Admin"}
RoleNames == SeedRoles \cup LegacyRoles

ASSUME MigrationAssumption ==
    /\ SellerEmail \in Emails /\ DemoEmail \in Emails /\ Stranger \notin Emails
    /\ LegacyRoles \cap SeedRoles = {} /\ None \notin RoleNames
    /\ RoleNames \subseteq DOMAIN Fold
    /\ \A r, s \in SeedRoles : Fold[r] = Fold[s] => r = s
    /\ Stops \subseteq 0 .. Newest
    /\ MaxWrites \in Nat

VARIABLES
    db,      \* the database
    rev,     \* its revision, alembic_version
    writes,  \* writes so far
    edited   \* curators have changed seeded rows

vars == <<db, rev, writes, edited>>

---------------------------------------------------------------------------
(* The database                                                            *)

SeedGroups ==
    {"pages", "menu", "entries", "nav", "children", "placeholders",
     "dashboard", "sellers", "operations", "management", "accountant",
     "reports", "admin", "metrics", "payments", "lookups"}

Looks == {"home", "entryIcon", "adminLabel", "adminIcon", "childIcon",
          "childParent", "sellerIcon", "sellerImage", "published"}

EmptyDatabase ==
    [ schema   |-> {},
      copies   |-> [g \in SeedGroups |-> 0],
      look     |-> [l \in Looks |-> None],
      featured |-> <<>>,     \* audience -> card of the home page
      users    |-> <<>>,     \* e-mail -> account
      roles    |-> {},       \* names in roles
      auctions |-> {},       \* "listed": of a row of vehicle_listings
      bids     |-> {},       \* bidders
      cars     |-> {},       \* cars entered by staff
      subs     |-> FALSE ]   \* the sub-sellers of 0023

SchemaObjects ==
    {"auctions", "bids", "pages", "menu_items", "featured_auctions",
     "featured.title", "featured.title?", "users", "tokens", "users.role",
     "menu.metadata", "featured.tab", "featured.card", "vehicle_listings",
     "featured.listing", "auctions.fk", "bids.fk", "listings.seller",
     "admin_nav_items", "admin_dashboard_cards", "nav.parent", "cards.image",
     "vehicle_status_metrics", "vehicle_payment_records", "vehicle_lookups",
     "listings.intake", "listings.sub->users", "listings.sub->subs",
     "sub_sellers", "roles", "user_roles", "user_roles.is_primary",
     "users.primary_role_id"}

LookValues ==
    {None, "/", "/seller-buyer/home", "user-shield", "border-all", "Admin",
     "Overview", "/admin", "own", "published"}

(* What the tables hold; a failed command leaves no database behind.       *)
Accounts ==
    [own : BOOLEAN, seeded : BOOLEAN, role : RoleNames \cup {None},
     held : SUBSET RoleNames, flagged : SUBSET RoleNames,
     primary : RoleNames \cup {None}]

Databases ==
    [ schema   : SUBSET SchemaObjects,
      copies   : [SeedGroups -> Nat],
      look     : [Looks -> LookValues],
      featured : UNION {[A -> [title : BOOLEAN, listing : BOOLEAN]] :
                           A \in SUBSET {"public", "personal"}},
      users    : UNION {[E -> Accounts] : E \in SUBSET Emails},
      roles    : SUBSET RoleNames,
      auctions : SUBSET {"listed", "unlisted"},
      bids     : SUBSET (Emails \cup {Stranger}),
      cars     : SUBSET [client : Emails \cup {None}, by : Emails, sub : BOOLEAN],
      subs     : BOOLEAN ]

ASSUME FailureAssumption == Failed \notin Databases

Create(d, objects) == [d EXCEPT !.schema = @ \cup objects]
Drop(d, objects)   == [d EXCEPT !.schema = @ \ objects]
Seed(d, groups) ==
    [d EXCEPT !.copies = [g \in SeedGroups |->
        IF g \in groups THEN @[g] + 1 ELSE @[g]]]
Clear(d, groups) ==
    [d EXCEPT !.copies = [g \in SeedGroups |->
        IF g \in groups THEN 0 ELSE @[g]]]
Set(d, looks) ==
    [d EXCEPT !.look = [l \in Looks |->
        IF l \in DOMAIN looks THEN looks[l] ELSE @[l]]]

Without(f, x) == [y \in DOMAIN f \ {x} |-> f[y]]
With(f, x, v) == [y \in DOMAIN f \cup {x} |-> IF y = x THEN v ELSE f[y]]

(* An account.  role is the string of 0003 to 0029, flagged the roles with *)
(* is_primary of 0029, primary the column of 0030; seeded tells an account *)
(* that a migration has inserted, own one whose user chose the password.   *)
Account(own, role) ==
    [own |-> own, seeded |-> ~own, role |-> role,
     held |-> {}, flagged |-> {}, primary |-> None]

(* Faulty: the cars that the account has entered are forgotten.            *)
Referenced_ByBidsOnly(d, e) == e \in d.bids

(* Rows that no foreign key lets go: bids and entered cars of the user.    *)
(* (At 0020 and 0021 sub_seller_id refers to users too; 0022 notes that it *)
(* has never held data.)                                                   *)
Referenced(d, e) == e \in d.bids \/ \E c \in d.cars : c.by = e

(* DELETE FROM users: SET NULL for the client of a car, CASCADE for roles. *)
Deleted(d, e) ==
    [d EXCEPT !.users = Without(@, e),
              !.cars = {[c EXCEPT !.client = IF @ = e THEN None ELSE @] : c \in @}]

---------------------------------------------------------------------------
(* 0001 to 0009: auctions, pages, users, menu, home page cards, listings   *)

Up_0001_initial(d) == {Create(d, {"auctions", "bids"})}
Down_0001_initial(d) ==
    {[Drop(d, {"auctions", "bids"}) EXCEPT !.auctions = {}, !.bids = {}]}

Up_0002_content_tables(d) ==
    {[Set(Seed(Create(d, {"pages", "menu_items", "featured_auctions",
                          "featured.title"}),
               {"pages", "menu"}), [home |-> "/"])
        EXCEPT !.featured = [public |-> [title |-> TRUE, listing |-> FALSE]]]}
Down_0002_content_tables(d) ==
    {[Set(Clear(Drop(d, {"pages", "menu_items", "featured_auctions",
                         "featured.title", "featured.title?"}),
                {"pages", "menu"}), [home |-> None])
        EXCEPT !.featured = <<>>]}

Up_0003_auth_tables(d) == {Create(d, {"users", "tokens", "users.role"})}
Down_0003_auth_tables(d) ==
    {[Drop(d, {"users", "tokens", "users.role"})
        EXCEPT !.users = <<>>,
               !.bids = IF @ = {} THEN {} ELSE {Stranger}]}

Up_0004_menu_item_metadata(d) ==
    {Set(Seed(Create(d, {"menu.metadata"}), {"entries"}),
         [entryIcon |-> "user-shield"])}
Down_0004_menu_item_metadata(d) ==
    {Set(Clear(Drop(d, {"menu.metadata"}), {"entries"}), [entryIcon |-> None])}

(* The public cards get their titles by badge, the personal ones are new.  *)
Up_0005_featured_auction_tabs(d) ==
    LET card == [title |-> TRUE, listing |-> FALSE]
    IN  {[Create(d, {"featured.tab", "featured.card"})
            EXCEPT !.featured = [public |-> card, personal |-> card]]}
Down_0005_featured_auction_tabs(d) ==
    {[Drop(d, {"featured.tab", "featured.card"})
        EXCEPT !.featured = Without(@, "personal")]}

(* Faulty: only the cards that every visitor sees get a listing.           *)
Up_0006_PublicOnly(d) ==
    {[Create(d, {"vehicle_listings", "featured.listing"})
        EXCEPT !.featured =
            [a \in DOMAIN @ |-> [@[a] EXCEPT !.listing = a = "public"]]]}

(* Every card gets a listing with its title, which may not be NULL.        *)
Up_0006_vehicle_listings(d) ==
    IF \E a \in DOMAIN d.featured : ~d.featured[a].title
    THEN {Failed}
    ELSE {[Create(d, {"vehicle_listings", "featured.listing"})
             EXCEPT !.featured =
                 [a \in DOMAIN @ |-> [@[a] EXCEPT !.listing = TRUE]]]}
Down_0006_vehicle_listings(d) ==
    {[Drop(d, {"vehicle_listings", "featured.listing"})
        EXCEPT !.featured = [a \in DOMAIN @ |-> [@[a] EXCEPT !.listing = FALSE]],
               !.auctions = IF @ = {} THEN {} ELSE {"unlisted"}]}

(* The columns of the cards go, and come back empty and nullable.          *)
Up_0007_remove_featured_auction_card_columns(d) ==
    {[Drop(d, {"featured.title", "featured.title?", "featured.card"})
        EXCEPT !.featured = [a \in DOMAIN @ |-> [@[a] EXCEPT !.title = FALSE]]]}
Down_0007_remove_featured_auction_card_columns(d) ==
    {Create(d, {"featured.title?", "featured.card"})}

Up_0008_auction_vehicle_fk(d) ==
    IF "unlisted" \in d.auctions THEN {Failed} ELSE {Create(d, {"auctions.fk"})}
Down_0008_auction_vehicle_fk(d) == {Drop(d, {"auctions.fk"})}

Up_0009_vehicle_seller_and_bid_bidder_fk(d) ==
    IF d.bids \subseteq DOMAIN d.users
    THEN {Create(d, {"bids.fk", "listings.seller"})}
    ELSE {Failed}
Down_0009_vehicle_seller_and_bid_bidder_fk(d) ==
    {Drop(d, {"bids.fk", "listings.seller"})}

---------------------------------------------------------------------------
(* 0010 to 0019: the admin area and the reference tables                   *)

Up_0010_admin_dashboard(d) ==
    {Set(Seed(Create(d, {"admin_nav_items", "admin_dashboard_cards"}),
              {"nav", "placeholders", "sellers"}),
         [adminLabel |-> "Admin", adminIcon |-> "user-shield",
          sellerIcon |-> "own"])}
Down_0010_admin_dashboard(d) ==
    {Set(Clear(Drop(d, {"admin_nav_items", "admin_dashboard_cards"}),
               {"nav", "children", "placeholders", "dashboard", "sellers"}),
         [adminLabel |-> None, adminIcon |-> None, sellerIcon |-> None])}

(* The parent of the new rows is found by its label, scalar_one().         *)
Up_0011_admin_dashboard_submenus(d) ==
    IF d.look["adminLabel"] # "Admin"
    THEN {Failed}
    ELSE {Set(Seed(Clear(Create(d, {"nav.parent"}), {"placeholders", "dashboard"}),
                   {"children", "dashboard"}),
              [childParent |-> "/admin"])}
Down_0011_admin_dashboard_submenus(d) ==
    {Set(Clear(Drop(d, {"nav.parent"}), {"placeholders", "dashboard", "children"}),
         [childParent |-> None, childIcon |-> None])}

Up_0012_admin_operations_cards(d) ==
    {Seed(Create(d, {"cards.image"}), {"operations"})}
(* Faulty: the column image_url stays.                                     *)
Down_0012_KeepsColumn(d) == {Clear(d, {"operations"})}

Down_0012_admin_operations_cards(d) ==
    {Clear(Drop(d, {"cards.image"}), {"operations"})}

Up_0013_admin_management_cards(d)   == {Seed(d, {"management"})}
Down_0013_admin_management_cards(d) == {Clear(d, {"management"})}

Up_0014_admin_accountant_cards(d)   == {Seed(d, {"accountant"})}
Down_0014_admin_accountant_cards(d) == {Clear(d, {"accountant"})}

Up_0015_admin_reports_cards(d)   == {Seed(d, {"reports"})}
Down_0015_admin_reports_cards(d) == {Clear(d, {"reports"})}

Up_0016_admin_home_cards(d) == {Seed(d, {"admin"})}
Down_0016_admin_home_cards(d) == {Clear(d, {"admin"})}

Up_0017_vehicle_status_metrics(d) ==
    {Seed(Create(d, {"vehicle_status_metrics"}), {"metrics"})}
Down_0017_vehicle_status_metrics(d) ==
    {Clear(Drop(d, {"vehicle_status_metrics"}), {"metrics"})}

Up_0018_vehicle_payment_records(d) ==
    {Seed(Create(d, {"vehicle_payment_records"}), {"payments"})}
Down_0018_vehicle_payment_records(d) ==
    {Clear(Drop(d, {"vehicle_payment_records"}), {"payments"})}

Up_0019_vehicle_lookup_tables(d) ==
    {Seed(Create(d, {"vehicle_lookups"}), {"lookups"})}
Down_0019_vehicle_lookup_tables(d) ==
    {Clear(Drop(d, {"vehicle_lookups"}), {"lookups"})}

---------------------------------------------------------------------------
(* 0020 to 0028: entered cars, sellers, icons                              *)

Up_0020_vehicle_submissions(d) ==
    {Set(Create(d, {"listings.intake", "listings.sub->users"}),
         [published |-> "published"])}
(* Columns are dropped before their default and foreign key constraints.   *)
Down_0020_vehicle_submissions(d) == {Failed}

Up_0021_seed_uat_seller_users(d) ==
    IF SellerEmail \in DOMAIN d.users
    THEN {d}
    ELSE {[d EXCEPT !.users = With(@, SellerEmail, Account(FALSE, "Seller"))]}

(* Faulty: the account goes whoever it belongs to.                         *)
Down_0021_ByEmail(d) ==
    IF SellerEmail \in DOMAIN d.users /\ ~Referenced(d, SellerEmail)
    THEN {Deleted(d, SellerEmail)} ELSE {d}

(* By the id and the placeholder password that the upgrade has given it.   *)
Down_0021_seed_uat_seller_users(d) ==
    IF /\ SellerEmail \in DOMAIN d.users
       /\ d.users[SellerEmail].seeded /\ ~d.users[SellerEmail].own
    THEN IF Referenced(d, SellerEmail) THEN {Failed} ELSE {Deleted(d, SellerEmail)}
    ELSE {d}

(* The column that named a sub-seller is dropped and created again.        *)
Up_0022_sub_sellers(d) ==
    {[Drop(Create(d, {"sub_sellers", "listings.sub->subs"}),
           {"listings.sub->users"})
        EXCEPT !.cars = {[c EXCEPT !.sub = FALSE] : c \in @}]}
Down_0022_sub_sellers(d) ==
    {[Create(Drop(d, {"sub_sellers", "listings.sub->subs"}),
             {"listings.sub->users"})
        EXCEPT !.cars = {[c EXCEPT !.sub = FALSE] : c \in @}, !.subs = FALSE]}

(* Sub-sellers belong to the account with the id that 0021 has given it.   *)
Up_0023_seed_sub_sellers(d) ==
    {[d EXCEPT !.subs = @ \/ ( /\ SellerEmail \in DOMAIN d.users
                               /\ d.users[SellerEmail].seeded )]}
Down_0023_seed_sub_sellers(d) ==
    IF \E c \in d.cars : c.sub THEN {Failed} ELSE {[d EXCEPT !.subs = FALSE]}

Up_0024_seller_card_images(d)   == {Set(d, [sellerImage |-> "own"])}
Down_0024_seller_card_images(d) == {Set(d, [sellerImage |-> None])}

Up_0025_seller_card_icons_null(d)   == {Set(d, [sellerIcon |-> None])}
Down_0025_seller_card_icons_null(d) == {Set(d, [sellerIcon |-> "own"])}

Up_0026_admin_menu_icon_null(d) ==
    {Set(d, [adminLabel |-> "Admin", adminIcon |-> None])}
Down_0026_admin_menu_icon_null(d) ==
    {Set(d, [adminLabel |-> "Admin", adminIcon |-> "user-shield"])}

Up_0027_home_menu_url(d) ==
    {IF d.look["home"] = "/seller-buyer/home" THEN Set(d, [home |-> "/"]) ELSE d}
Down_0027_home_menu_url(d) ==
    {IF d.look["home"] = "/" THEN Set(d, [home |-> "/seller-buyer/home"]) ELSE d}

Up_0028_menu_items_admin_icon_null(d) ==
    {IF d.look["entryIcon"] = "user-shield"
     THEN Set(d, [entryIcon |-> None]) ELSE d}
Down_0028_menu_items_admin_icon_null(d) ==
    {IF d.look["entryIcon"] = None
     THEN Set(d, [entryIcon |-> "user-shield"]) ELSE d}

---------------------------------------------------------------------------
(* 0029 to 0032: roles, demo users, the sidebar                            *)

RolesInUse(d) == {d.users[e].role : e \in DOMAIN d.users}

(* SELECT DISTINCT: of the names that the collation takes for the same one *)
(* is returned.                                                            *)
Distinct(names) ==
    {S \in SUBSET names : /\ \A r \in names : \E s \in S : Fold[s] = Fold[r]
                          /\ \A r, s \in S : Fold[r] = Fold[s] => r = s}

Unseeded(legacy) == legacy \ SeedRoles

(* The index uq_roles_name compares by the collation, the dictionary from  *)
(* names to rows does not.                                                 *)
RolesMadeOf(legacy, d) ==
    LET unseeded == Unseeded(legacy)
        names    == SeedRoles \cup unseeded
        RoleFor(role) == IF role \in names THEN role ELSE "Buyer"
    IN  IF \E u \in unseeded, s \in SeedRoles : Fold[u] = Fold[s]
        THEN Failed
        ELSE [Create(d, {"roles", "user_roles", "user_roles.is_primary"})
                EXCEPT !.roles = names,
                       !.users = [e \in DOMAIN @ |->
                           [@[e] EXCEPT !.held = {RoleFor(d.users[e].role)},
                                        !.flagged = {RoleFor(d.users[e].role)}]]]
Up_0029_roles(d) ==
    {RolesMadeOf(legacy, d) : legacy \in Distinct(RolesInUse(d))}
Down_0029_roles(d) ==
    {[Drop(d, {"roles", "user_roles", "user_roles.is_primary"})
        EXCEPT !.roles = {},
               !.users = [e \in DOMAIN @ |->
                   [@[e] EXCEPT !.held = {}, !.flagged = {}]]]}

(* primary_role_id is filled from is_primary and may not be NULL.          *)
Up_0030_users_primary_role_fk(d) ==
    IF \E e \in DOMAIN d.users : d.users[e].flagged = {}
    THEN {Failed}
    ELSE {[Drop(Create(d, {"users.primary_role_id"}),
                {"users.role", "user_roles.is_primary"})
             EXCEPT !.users = [e \in DOMAIN @ |->
                 [@[e] EXCEPT !.role = None, !.flagged = {},
                     !.primary = CHOOSE r \in d.users[e].flagged : TRUE]]]}
Down_0030_users_primary_role_fk(d) ==
    {[Drop(Create(d, {"users.role", "user_roles.is_primary"}),
           {"users.primary_role_id"})
        EXCEPT !.users = [e \in DOMAIN @ |->
            [@[e] EXCEPT !.role = d.users[e].primary, !.primary = None,
                         !.flagged = d.users[e].held \cap {d.users[e].primary}]]]}

(* Faulty: the row of user_roles for the primary role is forgotten.        *)
Up_0031_SecondaryOnly(d) ==
    LET there  == DemoEmail \in DOMAIN d.users
        before == IF there
                  THEN d.users[DemoEmail]
                  ELSE [Account(FALSE, None) EXCEPT !.primary = "Buyer"]
    IN  {[d EXCEPT !.users = With(@, DemoEmail,
            [before EXCEPT !.held = @ \cup {"Seller"}])]}

(* Faulty: the address is not looked up, the unique index refuses it.      *)
Up_0031_PlainInsert(d) ==
    IF DemoEmail \in DOMAIN d.users
    THEN {Failed}
    ELSE {[d EXCEPT !.users = With(@, DemoEmail,
            [Account(FALSE, None)
                EXCEPT !.primary = "Buyer", !.held = {"Buyer", "Seller"}])]}

(* A demo user is a buyer who also sells; an account that is there already *)
(* keeps its primary role and gets these two.                              *)
Up_0031_seed_role_demo_users(d) ==
    LET there  == DemoEmail \in DOMAIN d.users
        before == IF there
                  THEN d.users[DemoEmail]
                  ELSE [Account(FALSE, None) EXCEPT !.primary = "Buyer"]
    IN  {[d EXCEPT !.users = With(@, DemoEmail,
            [before EXCEPT !.held = @ \cup {"Buyer", "Seller"}])]}
Down_0031_seed_role_demo_users(d) ==
    IF DemoEmail \notin DOMAIN d.users
    THEN {d}
    ELSE IF Referenced(d, DemoEmail) THEN {Failed} ELSE {Deleted(d, DemoEmail)}

(* Rows of the sidebar are found by url, repaired, or inserted if missing. *)
Up_0032_admin_nav_overview_icons(d) ==
    {Set([d EXCEPT !.copies["children"] = IF @ = 0 THEN 1 ELSE @],
         [adminIcon |-> "border-all", childIcon |-> "own",
          childParent |-> "/admin"])}
Down_0032_admin_nav_overview_icons(d) ==
    {Set(d, [adminIcon |-> None, childIcon |-> None])}

---------------------------------------------------------------------------
(* A command: all migrations to its target, in one transaction             *)

Up(n, d) ==
    CASE n = 1  -> Up_0001_initial(d)
      [] n = 2  -> Up_0002_content_tables(d)
      [] n = 3  -> Up_0003_auth_tables(d)
      [] n = 4  -> Up_0004_menu_item_metadata(d)
      [] n = 5  -> Up_0005_featured_auction_tabs(d)
      [] n = 6  -> Up_0006_vehicle_listings(d)
      [] n = 7  -> Up_0007_remove_featured_auction_card_columns(d)
      [] n = 8  -> Up_0008_auction_vehicle_fk(d)
      [] n = 9  -> Up_0009_vehicle_seller_and_bid_bidder_fk(d)
      [] n = 10 -> Up_0010_admin_dashboard(d)
      [] n = 11 -> Up_0011_admin_dashboard_submenus(d)
      [] n = 12 -> Up_0012_admin_operations_cards(d)
      [] n = 13 -> Up_0013_admin_management_cards(d)
      [] n = 14 -> Up_0014_admin_accountant_cards(d)
      [] n = 15 -> Up_0015_admin_reports_cards(d)
      [] n = 16 -> Up_0016_admin_home_cards(d)
      [] n = 17 -> Up_0017_vehicle_status_metrics(d)
      [] n = 18 -> Up_0018_vehicle_payment_records(d)
      [] n = 19 -> Up_0019_vehicle_lookup_tables(d)
      [] n = 20 -> Up_0020_vehicle_submissions(d)
      [] n = 21 -> Up_0021_seed_uat_seller_users(d)
      [] n = 22 -> Up_0022_sub_sellers(d)
      [] n = 23 -> Up_0023_seed_sub_sellers(d)
      [] n = 24 -> Up_0024_seller_card_images(d)
      [] n = 25 -> Up_0025_seller_card_icons_null(d)
      [] n = 26 -> Up_0026_admin_menu_icon_null(d)
      [] n = 27 -> Up_0027_home_menu_url(d)
      [] n = 28 -> Up_0028_menu_items_admin_icon_null(d)
      [] n = 29 -> Up_0029_roles(d)
      [] n = 30 -> Up_0030_users_primary_role_fk(d)
      [] n = 31 -> Up_0031_seed_role_demo_users(d)
      [] n = 32 -> Up_0032_admin_nav_overview_icons(d)

Down(n, d) ==
    CASE n = 1  -> Down_0001_initial(d)
      [] n = 2  -> Down_0002_content_tables(d)
      [] n = 3  -> Down_0003_auth_tables(d)
      [] n = 4  -> Down_0004_menu_item_metadata(d)
      [] n = 5  -> Down_0005_featured_auction_tabs(d)
      [] n = 6  -> Down_0006_vehicle_listings(d)
      [] n = 7  -> Down_0007_remove_featured_auction_card_columns(d)
      [] n = 8  -> Down_0008_auction_vehicle_fk(d)
      [] n = 9  -> Down_0009_vehicle_seller_and_bid_bidder_fk(d)
      [] n = 10 -> Down_0010_admin_dashboard(d)
      [] n = 11 -> Down_0011_admin_dashboard_submenus(d)
      [] n = 12 -> Down_0012_admin_operations_cards(d)
      [] n = 13 -> Down_0013_admin_management_cards(d)
      [] n = 14 -> Down_0014_admin_accountant_cards(d)
      [] n = 15 -> Down_0015_admin_reports_cards(d)
      [] n = 16 -> Down_0016_admin_home_cards(d)
      [] n = 17 -> Down_0017_vehicle_status_metrics(d)
      [] n = 18 -> Down_0018_vehicle_payment_records(d)
      [] n = 19 -> Down_0019_vehicle_lookup_tables(d)
      [] n = 20 -> Down_0020_vehicle_submissions(d)
      [] n = 21 -> Down_0021_seed_uat_seller_users(d)
      [] n = 22 -> Down_0022_sub_sellers(d)
      [] n = 23 -> Down_0023_seed_sub_sellers(d)
      [] n = 24 -> Down_0024_seller_card_images(d)
      [] n = 25 -> Down_0025_seller_card_icons_null(d)
      [] n = 26 -> Down_0026_admin_menu_icon_null(d)
      [] n = 27 -> Down_0027_home_menu_url(d)
      [] n = 28 -> Down_0028_menu_items_admin_icon_null(d)
      [] n = 29 -> Down_0029_roles(d)
      [] n = 30 -> Down_0030_users_primary_role_fk(d)
      [] n = 31 -> Down_0031_seed_role_demo_users(d)
      [] n = 32 -> Down_0032_admin_nav_overview_icons(d)

(* The results of migration n; a command that has failed goes no further.  *)
UpFrom(n, results) ==
    UNION {IF r = Failed THEN {Failed} ELSE Up(n, r) : r \in results}
DownFrom(n, results) ==
    UNION {IF r = Failed THEN {Failed} ELSE Down(n, r) : r \in results}

Upgraded(d, from, to) ==
    LET reached[n \in from .. to] ==
            IF n = from THEN {d} ELSE UpFrom(n, reached[n - 1])
    IN  reached[to]

Downgraded(d, from, to) ==
    LET reached[n \in to .. from] ==
            IF n = from THEN {d} ELSE DownFrom(n + 1, reached[n + 1])
    IN  reached[to]

---------------------------------------------------------------------------

Init ==
    /\ db = EmptyDatabase
    /\ rev = 0
    /\ writes = 0
    /\ edited = FALSE

(* A command that raises changes nothing and is no step.                   *)
Upgrade(to) ==
    /\ to > rev
    /\ db' \in Upgraded(db, rev, to) \ {Failed}
    /\ rev' = to
    /\ UNCHANGED <<writes, edited>>

Downgrade(to) ==
    /\ to < rev
    /\ db' \in Downgraded(db, rev, to) \ {Failed}
    /\ rev' = to
    /\ UNCHANGED <<writes, edited>>

Write(d) ==
    /\ writes < MaxWrites
    /\ writes' = writes + 1
    /\ db' = d
    /\ UNCHANGED rev

(* A sign-up.  A release older than the database fills users.role only, so *)
(* at revision 29 the row of user_roles may be missing.                    *)
SignUp(e, role) ==
    /\ rev >= 3 /\ e \notin DOMAIN db.users
    /\ rev >= 29 => role = "Buyer"
    /\ \E account \in
          IF rev < 29 THEN {Account(TRUE, role)}
          ELSE IF rev = 29
          THEN {Account(TRUE, role),
                [Account(TRUE, role) EXCEPT !.held = {role}, !.flagged = {role}]}
          ELSE {[Account(TRUE, None) EXCEPT !.held = {role}, !.primary = role]} :
            Write([db EXCEPT !.users = With(@, e, account)])
    /\ UNCHANGED edited

(* A forgotten password is reset, from 0003 on for every account there is. *)
ResetPassword(e) ==
    /\ e \in DOMAIN db.users /\ ~db.users[e].own
    /\ Write([db EXCEPT !.users[e].own = TRUE])
    /\ UNCHANGED edited

(* role_service: another role, as the primary one or not.                  *)
Grant(e, role, isPrimary) ==
    /\ rev >= 30 /\ e \in DOMAIN db.users /\ role \in db.roles
    /\ Write([db EXCEPT !.users[e].held = @ \cup {role},
                        !.users[e].primary = IF isPrimary THEN role ELSE @])
    /\ UNCHANGED edited

(* Auctions and bids; what they refer to is checked from 0008 and 0009 on. *)
OpenAuction(kind) ==
    /\ rev >= 1
    /\ kind = "listed" => "vehicle_listings" \in db.schema
    /\ kind = "unlisted" => "auctions.fk" \notin db.schema
    /\ Write([db EXCEPT !.auctions = @ \cup {kind}])
    /\ UNCHANGED edited

Bid(bidder) ==
    /\ db.auctions # {}
    /\ "bids.fk" \in db.schema => bidder \in DOMAIN db.users
    /\ bidder \in DOMAIN db.users \cup {Stranger}
    /\ Write([db EXCEPT !.bids = @ \cup {bidder}])
    /\ UNCHANGED edited

(* Staff enter a car of a seller, of one of the sub-sellers of 0023.       *)
EnterCar(client, by, sub) ==
    /\ "listings.intake" \in db.schema
    /\ {client, by} \subseteq DOMAIN db.users
    /\ sub => client = SellerEmail /\ db.subs
    /\ Write([db EXCEPT !.cars = @ \cup {[client |-> client, by |-> by, sub |-> sub]}])
    /\ UNCHANGED edited

(* Curators rename the row "Admin" of the sidebar or remove its children.  *)
RenameAdmin ==
    /\ rev >= 10 /\ db.look["adminLabel"] = "Admin"
    /\ Write(Set(db, [adminLabel |-> "Overview"]))
    /\ edited' = TRUE

RemoveChildren ==
    /\ db.copies["children"] > 0
    /\ Write(Set(Clear(db, {"children"}), [childParent |-> None, childIcon |-> None]))
    /\ edited' = TRUE

Next ==
    \/ \E to \in Stops : Upgrade(to) \/ Downgrade(to)
    \/ \E e \in Emails, role \in {"Buyer"} \cup LegacyRoles : SignUp(e, role)
    \/ \E e \in Emails : ResetPassword(e)
    \/ \E e \in Emails, role \in RoleNames, p \in BOOLEAN : Grant(e, role, p)
    \/ \E kind \in {"listed", "unlisted"} : OpenAuction(kind)
    \/ \E bidder \in Emails \cup {Stranger} : Bid(bidder)
    \/ \E client, by \in Emails, sub \in BOOLEAN : EnterCar(client, by, sub)
    \/ RenameAdmin \/ RemoveChildren

Spec == Init /\ [][Next]_vars

---------------------------------------------------------------------------
(* Properties                                                              *)

(* Rows are where there is a table for them, and refer to rows that exist  *)
(* (alembic/versions/0001, 0003, 0008, 0009, 0020, 0029, ForeignKey).      *)
TypeOK ==
    /\ rev \in Stops \cup {0} /\ writes \in 0 .. MaxWrites /\ edited \in BOOLEAN
    /\ DOMAIN db.users \subseteq IF "users" \in db.schema THEN Emails ELSE {}
    /\ db.bids \subseteq IF "bids.fk" \in db.schema
                         THEN DOMAIN db.users ELSE Emails \cup {Stranger}
    /\ db.auctions \subseteq IF "auctions.fk" \in db.schema
                             THEN {"listed"} ELSE {"listed", "unlisted"}
    /\ db.roles \subseteq IF "roles" \in db.schema THEN RoleNames ELSE {}
    /\ \A c \in db.cars : /\ c.by \in DOMAIN db.users
                          /\ c.client \in DOMAIN db.users \cup {None}
    /\ DOMAIN db.featured \subseteq {"public", "personal"}

(* What a new installation at this revision looks like.                    *)
Installation ==
    [to \in Stops \cup {0} |-> CHOOSE d \in Upgraded(EmptyDatabase, 0, to) : TRUE]
Installed == Installation[rev]

(* Whatever order of upgrades and downgrades led here, the schema is that  *)
(* of the revision; only the titles that 0007 brings back are nullable     *)
(* (alembic/versions/*.py, downgrade).                                     *)
SchemaOfRevision ==
    \/ db.schema = Installed.schema
    \/ /\ rev \in 2 .. 6
       /\ db.schema \ {"featured.title?"} = Installed.schema \ {"featured.title"}

(* So are the seeded rows: none is seeded twice, none is missing, and      *)
(* their icons, urls and parents are those of the revision, but for rows   *)
(* that curators have changed and for two downgrades that are no inverses: *)
(* 0011 does not restore the cards it has replaced, and 0027 gives the     *)
(* home page a url it never had.  Every card of the home page has a        *)
(* listing from 0006 on, and a title before unless 0007 was downgraded     *)
(* (alembic/versions/0006:61-144, 0011:157, 0027:34).                      *)
SeedsOfRevision ==
    /\ ~edited =>
        /\ \A g \in SeedGroups :
              db.copies[g] = Installed.copies[g] \/ (g = "placeholders" /\ rev = 10)
        /\ \A l \in Looks :
              db.look[l] = Installed.look[l] \/ (l = "home" /\ rev \in 20 .. 26)
    /\ DOMAIN db.featured = DOMAIN Installed.featured
    /\ \A a \in DOMAIN db.featured :
          IF rev >= 6
          THEN db.featured[a].listing
          ELSE db.featured[a].title \/ "featured.title?" \in db.schema

(* The data that an upgrade to the newest revision cannot cope with: an    *)
(* auction or a bid of nothing known, titles lost to 0007, a role that     *)
(* differs from a seeded one in the eyes of Python only, an account that   *)
(* an older release has created at 29, a renamed menu                      *)
(* (alembic/versions/0006, 0008, 0009, 0011, 0029, 0030).                  *)
UpgradeBlocked ==
    \/ rev < 8 /\ "unlisted" \in db.auctions
    \/ rev < 9 /\ ~(db.bids \subseteq DOMAIN db.users)
    \/ rev = 5 /\ "featured.title?" \in db.schema
    \/ rev = 10 /\ db.look["adminLabel"] # "Admin"
    \/ rev < 29 /\ \E u \in RolesInUse(db) \ SeedRoles, s \in SeedRoles :
                      Fold[u] = Fold[s]
    \/ rev = 29 /\ \E e \in DOMAIN db.users : db.users[e].flagged = {}

(* Nothing else makes "alembic upgrade head", which every start of the     *)
(* stack runs, fail (docker-compose.yml:84-87).                            *)
HeadReachable == Failed \in Upgraded(db, rev, Newest) => UpgradeBlocked

(* From 0029 on an account has exactly one primary role, and holds it; at  *)
(* 0029 itself, where rows of user_roles are flagged, one that an older    *)
(* release has created may hold no role at all, but never roles of which   *)
(* none or two are primary (alembic/versions/0030:12-29).                  *)
PrimaryRoleHeld ==
    \A e \in DOMAIN db.users :
        LET account == db.users[e] IN
        /\ rev >= 30 => account.primary \in account.held
        /\ rev = 29 => /\ account.flagged \subseteq account.held
                       /\ account.held # {} => Cardinality(account.flagged) = 1
        /\ account.held \subseteq db.roles

PrimaryRole(account) == IF account.primary = None THEN account.role ELSE account.primary

Migrated == rev' # rev

(* A migration neither changes the primary role of an account nor deletes  *)
(* one whose user chose its password.  Except: legacy names that are the   *)
(* same one to the collation, the downgrade below 0003, which drops the    *)
(* table, and the one below 0031, which deletes by e-mail address whoever  *)
(* the account belongs to                                                  *)
(* (alembic/versions/0021:134-138, 0029:33-37, 0030:18, 0031:134-138).     *)
AccountsSurvive ==
    [][Migrated => \A e \in DOMAIN db.users :
          IF e \in DOMAIN db'.users
          THEN \/ PrimaryRole(db'.users[e]) = PrimaryRole(db.users[e])
               \/ /\ rev < 30
                  /\ \E r \in RolesInUse(db), s \in RolesInUse(db) \cup SeedRoles :
                        r # s /\ Fold[r] = Fold[s]
          ELSE \/ ~db.users[e].own
               \/ rev' < 3
               \/ e = DemoEmail /\ rev >= 31 /\ rev' < 31]_vars

============================================================================
