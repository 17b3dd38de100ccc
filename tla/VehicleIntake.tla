--------------------------- MODULE VehicleIntake ---------------------------
(***************************************************************************)
(* Staff enter cars on behalf of sellers: one by a form, whose cells are   *)
(* ids chosen from dropdowns, or up to 500 by a sheet, whose cells are     *)
(* labels (services/vehicle_intake_service.py, api/v1/vehicle_intake.py).  *)
(* A sheet is one transaction per row.  The queries of a row are four      *)
(* steps and its commit is a fifth, so that other requests and the         *)
(* curators of the reference data come in between.                         *)
(***************************************************************************)
EXTENDS Naturals, Sequences, FiniteSets

CONSTANTS
    Requests,    \* requests of staff members
    Makes, Models, Users, SubSellers,  \* rows of the reference tables
    MakeOf,      \* the make a model belongs to
    SellerOf,    \* the client a sub-seller is a contact of
    Bearing,     \* the rows that a label of a sheet names, in any language
    Chassis,     \* chassis numbers that are not blank
    Forms,       \* single submissions staff may send
    Sheets,      \* bulk submissions staff may send
    Blank,       \* a cell left empty
    NoRow,       \* a query that finds nothing
    Idle,        \* a request not sent yet
    Curated,     \* bound: the reference rows that change
    MaxChanges,  \* bound: how often they do
    MaxFaults    \* bound: database calls that fail

Lookups == Makes \cup Models \cup Users \cup SubSellers

(* A form, or a row of a sheet, whose lookup cells hold one of the names:  *)
(* "unknown" is another cell that names nothing, "unstorable" a number or  *)
(* plate that its column cannot hold.                                      *)
Cells(names) ==
    [chassis : Chassis \cup {Blank}, make : names, model : names,
     client : names, sub : names, rest : {"valid", "unknown", "unstorable"}]

Labels == DOMAIN Bearing

ASSUME IntakeAssumption ==
    /\ MakeOf \in [Models -> Makes]
    /\ SellerOf \in [SubSellers -> Users]
    /\ \A label \in Labels : Bearing[label] \subseteq Lookups
    /\ Curated \subseteq Lookups
    /\ Blank \notin Chassis \cup Lookups /\ NoRow \notin Lookups
    /\ Forms \subseteq Cells(Lookups \cup {Blank})
    /\ Sheets \subseteq Seq(Cells(Labels \cup {Blank})) \ {<<>>}
    /\ MaxChanges \in Nat /\ MaxFaults \in Nat

(* What a request has found, the result of a row, and a listing.           *)
Finds ==
    [make : Makes \cup {NoRow}, model : Models \cup {NoRow},
     client : Users \cup {NoRow}, sub : SubSellers \cup {NoRow}]

WrongCells == {"make", "model", "client", "chassis", "rest", "sub"}

Results == [status : {"created", "error"}, errors : SUBSET WrongCells]

Listings ==
    [chassis : Chassis \cup {Blank}, make : Makes, model : Models,
     client : Users, sub : SubSellers \cup {NoRow},
     request : Requests, row : Nat]

Answers == {0, 200, 201, 404, 409, 500}

OpenSteps == {"make", "model", "client", "sub", "insert"}

Rows == UNION {{<<form>> : form \in Forms}, Sheets}

Jobs ==
    [kind : {"form", "sheet"}, rows : Rows, at : Nat,
     pc : OpenSteps \cup {"answered"}, found : Finds, results : Seq(Results),
     answer : Answers, offered : BOOLEAN, changed : SUBSET Curated]

ASSUME SlotAssumption == Idle \notin Jobs

VARIABLES
    live,      \* rows of the reference tables with is_active
    sellers,   \* users that hold the role "Seller"
    listings,  \* vehicle_listings entered by staff
    req,       \* per request: what it was sent and how far it is
    changes, faults

vars == <<live, sellers, listings, req, changes, faults>>

---------------------------------------------------------------------------
(* What the dropdowns and searches of the form offer.                      *)

OfferedModels(make)    == {m \in Models \cap live : MakeOf[m] = make}
OfferedClients         == Users \cap live \cap sellers
OfferedSubs(client)    == {s \in SubSellers \cap live : SellerOf[s] = client}

OfferedForm(row) ==
    /\ row.make \in live
    /\ row.model \in OfferedModels(row.make)
    /\ row.client \in OfferedClients
    /\ row.sub # Blank => row.sub \in OfferedSubs(row.client)
    /\ row.rest # "unknown"

---------------------------------------------------------------------------

Nothing == [make |-> NoRow, model |-> NoRow, client |-> NoRow, sub |-> NoRow]

Init ==
    /\ live = Lookups
    /\ sellers \in SUBSET Users
    /\ listings = {}
    /\ req = [q \in Requests |-> Idle]
    /\ changes = 0
    /\ faults = 0

Open(q)  == req[q] # Idle /\ req[q].pc # "answered"
Bulk(q)  == req[q].kind = "sheet"
Row(q)   == req[q].rows[req[q].at]
Found(q) == req[q].found

(* Staff send a form or a sheet; "offered" and "changed" are history: the  *)
(* form's cells were on offer, and the reference data that was edited      *)
(* while the row at hand was read.                                         *)
Submit(q, kind, rows) ==
    /\ req[q] = Idle
    /\ req' = [req EXCEPT ![q] =
            [kind |-> kind, rows |-> rows, at |-> 1, pc |-> "make",
             found |-> Nothing, results |-> <<>>, answer |-> 0,
             offered |-> OfferedForm(rows[1]), changed |-> {}]]
    /\ UNCHANGED <<live, sellers, listings, changes, faults>>

Answered(q, code) ==
    req' = [req EXCEPT ![q].pc = "answered", ![q].answer = code]

(* scalars().first(): one of the rows found, in no particular order.       *)
AnyOf(S) == IF S = {} THEN {NoRow} ELSE S

(* A form names its rows by id, a sheet by labels of one or more rows.     *)
Named(q, cell) ==
    IF cell = Blank THEN {}
    ELSE live \cap IF Bulk(q) THEN Bearing[cell] ELSE {cell}

MakesFor(q) == Makes \cap Named(q, Row(q).make)

(* Faulty: the cascade of model under make is forgotten.                   *)
ModelsFor_AnyMake(q) == Models \cap Named(q, Row(q).model)

(* A sheet's model is looked up under its make, a form's is not.           *)
ModelsFor(q) ==
    {m \in Models \cap Named(q, Row(q).model) :
        Bulk(q) => MakeOf[m] = Found(q).make}

(* A sheet's client must hold the role "Seller", a form's need not.        *)
ClientsFor(q) ==
    {u \in Users \cap Named(q, Row(q).client) : Bulk(q) => u \in sellers}

SubsFor(q) ==
    {s \in SubSellers \cap Named(q, Row(q).sub) :
        SellerOf[s] = Found(q).client}

(* The form stops at the first cell that names nothing; the sheet goes on  *)
(* and reports all of them.                                                *)
Read(q, found, missing, next) ==
    IF missing /\ ~Bulk(q)
    THEN Answered(q, 404)
    ELSE req' = [req EXCEPT ![q].found = found, ![q].pc = next]

ReadMake(q) ==
    /\ Open(q) /\ req[q].pc = "make"
    /\ \E make \in AnyOf(MakesFor(q)) :
          Read(q, [Found(q) EXCEPT !.make = make], make = NoRow, "model")
    /\ UNCHANGED <<live, sellers, listings, changes, faults>>

(* The lookups after the model (branch, color, ...) are not edited here.   *)
ReadModel(q) ==
    /\ Open(q) /\ req[q].pc = "model"
    /\ \E model \in AnyOf(ModelsFor(q)) :
          Read(q, [Found(q) EXCEPT !.model = model],
               model = NoRow \/ Row(q).rest = "unknown", "client")
    /\ UNCHANGED <<live, sellers, listings, changes, faults>>

ReadClient(q) ==
    /\ Open(q) /\ req[q].pc = "client"
    /\ \E client \in AnyOf(ClientsFor(q)) :
          Read(q, [Found(q) EXCEPT !.client = client], client = NoRow, "sub")
    /\ UNCHANGED <<live, sellers, listings, changes, faults>>

(* Faulty: a form without a sub-seller is looked up too.                   *)
ReadSub_Always(q) ==
    /\ Open(q) /\ req[q].pc = "sub"
    /\ \E sub \in AnyOf(SubsFor(q)) :
          Read(q, [Found(q) EXCEPT !.sub = sub], sub = NoRow, "insert")
    /\ UNCHANGED <<live, sellers, listings, changes, faults>>

ReadSub(q) ==
    /\ Open(q) /\ req[q].pc = "sub"
    /\ \E sub \in AnyOf(SubsFor(q)) :
          Read(q, [Found(q) EXCEPT !.sub = sub],
               Row(q).sub # Blank /\ sub = NoRow, "insert")
    /\ UNCHANGED <<live, sellers, listings, changes, faults>>

(* Faulty: an unknown model is not an error.                               *)
Errors_ModelOptional(q) ==
    {f \in {"make", "client"} : Found(q)[f] = NoRow}

(* The cells of a sheet's row that are reported as wrong.                  *)
Errors(q) ==
    {f \in {"make", "model", "client"} : Found(q)[f] = NoRow}
        \cup {f \in {"chassis"} : Row(q).chassis = Blank}
        \cup {f \in {"rest"} : Row(q).rest = "unknown"}
        \cup {f \in {"sub"} : /\ Row(q).sub # Blank
                              /\ Found(q).client # NoRow
                              /\ Found(q).sub = NoRow}

Taken(chassis) == \E l \in listings : l.chassis = chassis

ListingOf(q) ==
    [chassis |-> Row(q).chassis, make |-> Found(q).make,
     model |-> Found(q).model, client |-> Found(q).client,
     sub |-> Found(q).sub, request |-> q, row |-> req[q].at]

(* The result of a row of a sheet, and the next row or the answer.         *)
Report(q, result) ==
    req' = [req EXCEPT
        ![q].results = Append(@, result),
        ![q].at = IF @ < Len(req[q].rows) THEN @ + 1 ELSE @,
        ![q].pc = IF req[q].at < Len(req[q].rows) THEN "make" ELSE "answered",
        ![q].answer = IF req[q].at < Len(req[q].rows) THEN 0 ELSE 200,
        ![q].found = Nothing,
        ![q].changed = {}]

Created == [status |-> "created", errors |-> {}]
Wrong(errors) == [status |-> "error", errors |-> errors]

(* Faulty: the first bad row ends the sheet.                               *)
Reject_EndsSheet(q) ==
    /\ Open(q) /\ req[q].pc = "insert"
    /\ Bulk(q) /\ Errors(q) # {}
    /\ Answered(q, 200)
    /\ UNCHANGED <<live, sellers, listings, changes, faults>>

(* A row of a sheet with wrong cells is not written.                       *)
Reject(q) ==
    /\ Open(q) /\ req[q].pc = "insert"
    /\ Bulk(q) /\ Errors(q) # {}
    /\ Report(q, Wrong(Errors(q)))
    /\ UNCHANGED <<live, sellers, listings, changes, faults>>

Writable(q) ==
    /\ Open(q) /\ req[q].pc = "insert"
    /\ Bulk(q) => Errors(q) = {}

(* INSERT and COMMIT: the listing waits for its review.                    *)
Insert(q) ==
    /\ Writable(q) /\ Row(q).rest # "unstorable" /\ ~Taken(Row(q).chassis)
    /\ listings' = listings \cup {ListingOf(q)}
    /\ IF Bulk(q) THEN Report(q, Created) ELSE Answered(q, 201)
    /\ UNCHANGED <<live, sellers, changes, faults>>

(* Faulty: the refused row is reported like the others.                    *)
Duplicate_Swallowed(q) ==
    /\ Writable(q) /\ Row(q).rest # "unstorable" /\ Taken(Row(q).chassis)
    /\ IF Bulk(q) THEN Report(q, Created) ELSE Answered(q, 409)
    /\ UNCHANGED <<live, sellers, listings, changes, faults>>

(* The unique index on chassis_number refuses the row; rollback.           *)
Duplicate(q) ==
    /\ Writable(q) /\ Row(q).rest # "unstorable" /\ Taken(Row(q).chassis)
    /\ IF Bulk(q) THEN Report(q, Wrong({"chassis"})) ELSE Answered(q, 409)
    /\ UNCHANGED <<live, sellers, listings, changes, faults>>

(* A year, price or plate that parses but that its column cannot hold:     *)
(* not an IntegrityError, so the exception ends the request.               *)
Unstorable(q) ==
    /\ Writable(q) /\ Row(q).rest = "unstorable"
    /\ Answered(q, 500)
    /\ UNCHANGED <<live, sellers, listings, changes, faults>>

(* The connection to the database breaks; the last commit may have been    *)
(* applied.                                                                *)
Fail(q) ==
    /\ Open(q) /\ faults < MaxFaults
    /\ faults' = faults + 1
    /\ Answered(q, 500)
    /\ \/ UNCHANGED listings
       \/ /\ Writable(q) /\ Row(q).rest # "unstorable" /\ ~Taken(Row(q).chassis)
          /\ listings' = listings \cup {ListingOf(q)}
    /\ UNCHANGED <<live, sellers, changes>>

(* Curators switch rows on and off; role_service grants and revokes        *)
(* "Seller".                                                               *)
Change(x) ==
    /\ changes < MaxChanges
    /\ changes' = changes + 1
    /\ \/ x \in live /\ live' = live \ {x} /\ UNCHANGED sellers
       \/ x \notin live /\ live' = live \cup {x} /\ UNCHANGED sellers
       \/ x \in sellers /\ sellers' = sellers \ {x} /\ UNCHANGED live
       \/ x \in Users \ sellers /\ sellers' = sellers \cup {x} /\ UNCHANGED live
    /\ req' = [q \in Requests |->
            IF Open(q) THEN [req[q] EXCEPT !.changed = @ \cup {x}] ELSE req[q]]
    /\ UNCHANGED <<listings, faults>>

---------------------------------------------------------------------------

Step(q) ==
    \/ ReadMake(q) \/ ReadModel(q) \/ ReadClient(q) \/ ReadSub(q)
    \/ Reject(q) \/ Insert(q) \/ Duplicate(q) \/ Unstorable(q)

Next ==
    \/ \E q \in Requests :
          \/ \E form \in Forms : Submit(q, "form", <<form>>)
          \/ \E sheet \in Sheets : Submit(q, "sheet", sheet)
          \/ Step(q) \/ Fail(q)
    \/ \E x \in Curated : Change(x)

Spec == Init /\ [][Next]_vars

---------------------------------------------------------------------------
(* Properties                                                              *)

TypeOK ==
    /\ live \subseteq Lookups /\ sellers \subseteq Users
    /\ listings \subseteq Listings
    /\ req \in [Requests -> Jobs \cup {Idle}]
    /\ \A q \in Requests : req[q] # Idle =>
          /\ req[q].at \in DOMAIN req[q].rows
          /\ Len(req[q].results) <= Len(req[q].rows)
    /\ changes \in 0 .. MaxChanges /\ faults \in 0 .. MaxFaults

(* The only listing of its car, made from row i of the request.            *)
Entered(q, i) ==
    \E l \in listings :
        /\ l.request = q /\ l.row = i
        /\ \A k \in listings : k.chassis = l.chassis => k = l

(* The results of a sheet are in the order of its rows and stay true:      *)
(* "created" stands for the one listing of this car, made from this very   *)
(* row, which no later row, request or failure takes back, and a chassis   *)
(* number reported as already submitted is one that is in the table        *)
(* (services/vehicle_intake_service.py:389-405,411-413,                    *)
(* models/content.py:72).                                                  *)
ReportTrue ==
    \A q \in Requests : req[q] # Idle =>
        \A i \in 1 .. Len(req[q].results) :
            LET result == req[q].results[i]
                row    == req[q].rows[i]
            IN  /\ (result = Created) <=> Entered(q, i)
                /\ result = Wrong({"chassis"}) /\ row.chassis # Blank =>
                       Taken(row.chassis)

(* A sheet is answered row by row: only a value that no column can hold or *)
(* a broken connection ends it early, and at most the row that was being   *)
(* committed is in the table without a result                              *)
(* (services/vehicle_intake_service.py:408-414).                           *)
AnsweredRowByRow ==
    \A q \in Requests : req[q] # Idle /\ Bulk(q) /\ ~Open(q) =>
        LET done == Len(req[q].results)
        IN  /\ \/ req[q].answer = 200 /\ done = Len(req[q].rows)
               \/ faults > 0
               \/ req[q].rows[done + 1].rest = "unstorable"
            /\ \A l \in listings : l.request = q =>
                   l.row <= done \/ (l.row = done + 1 /\ faults > 0)

(* What the dropdowns offer is accepted: a form filled from them is refused *)
(* with 404 only if one of the very rows it names was edited meanwhile     *)
(* (services/vehicle_intake_service.py:50-131,160-185).                    *)
OfferedIsAccepted ==
    \A q \in Requests : req[q] # Idle /\ req[q].kind = "form" =>
        LET row == Row(q)
        IN  /\ req[q].offered
            /\ {row.make, row.model, row.client, row.sub} \cap req[q].changed = {}
            => req[q].answer # 404

(* What a listing owes to the row of the sheet it was entered from.         *)
AsSaid(l) ==
    LET q      == l.request
        row    == Row(q)
        models == {m \in Bearing[row.model] : MakeOf[m] = l.make}
        subs   == {s \in Bearing[row.sub] : SellerOf[s] = l.client}
    IN  Bulk(q) =>
           /\ l.chassis = row.chassis /\ row.chassis # Blank
           /\ l.make \in Bearing[row.make] /\ l.model \in models
           /\ l.client \in Bearing[row.client]
           /\ IF row.sub = Blank THEN l.sub = NoRow ELSE l.sub \in subs
           /\ {l.make, l.model, l.client, l.sub} \ {NoRow}
                 \subseteq live \cup req[q].changed
           /\ l.client \in sellers \cup req[q].changed

(* A listing entered from a sheet is what its row says, however the         *)
(* reference data changes between the queries: rows that bear the labels,  *)
(* a model of the make and a contact of the client; and each of them is    *)
(* still on offer, unless it is the one that was edited meanwhile          *)
(* (services/vehicle_intake_service.py:284-358).                           *)
AsTheSheetSays == [][\A l \in listings' \ listings : AsSaid(l)]_vars

============================================================================
