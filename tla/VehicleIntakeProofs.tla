------------------------ MODULE VehicleIntakeProofs ------------------------
(***************************************************************************)
(* Theorems about VehicleIntake, for any number of requests, reference     *)
(* rows, changes and failures, and sheets of any length.                   *)
(***************************************************************************)
EXTENDS VehicleIntake, TLAPS

(* The answers that end a form or break off a sheet.                       *)
LastAnswers == {201, 404, 409, 500}

Sent(q) == req[q] # Idle

(* Where a request is: a sheet has a result for each row before the one at *)
(* hand, and one for every row in the end; a form has none.                *)
Position(j) ==
    LET done == Len(j.results)
    IN  /\ j.at \in 1 .. Len(j.rows)
        /\ IF j.kind = "sheet"
           THEN IF j.pc = "answered" /\ j.answer = 200
                THEN done = Len(j.rows)
                ELSE done = j.at - 1
           ELSE done = 0 /\ Len(j.rows) = 1

(* A form goes on only with what its cells have named.                     *)
FormFound(j) ==
    j.kind = "form" =>
        /\ j.pc \in {"model", "client", "sub", "insert"} =>
              j.found.make # NoRow
        /\ j.pc \in {"client", "sub", "insert"} => j.found.model # NoRow
        /\ j.pc \in {"sub", "insert"} => j.found.client # NoRow

(* Jobs that differ only in their step, their findings and their answer.   *)
Alike(j, k) ==
    /\ j.kind = k.kind /\ j.rows = k.rows /\ j.at = k.at
    /\ j.results = k.results /\ j.offered = k.offered /\ j.changed = k.changed

IntakeTypes ==
    /\ live \subseteq Lookups /\ sellers \subseteq Users
    /\ listings \subseteq Listings
    /\ req \in [Requests -> Jobs \cup {Idle}]
    /\ \A q \in Requests : Sent(q) => Position(req[q]) /\ FormFound(req[q])
    /\ changes \in 0 .. MaxChanges /\ faults \in 0 .. MaxFaults

LEMMA RowsAreLines ==
    ASSUME NEW rows \in Rows
    PROVE  /\ rows \in Seq(Cells(Lookups \cup {Blank}))
                \/ rows \in Seq(Cells(Labels \cup {Blank}))
           /\ Len(rows) \in Nat /\ Len(rows) > 0
           /\ DOMAIN rows = 1 .. Len(rows)
           /\ \A i \in 1 .. Len(rows) : rows[i].chassis \in Chassis \cup {Blank}
<1> USE IntakeAssumption
<1>1. CASE rows \in Sheets
  <2>1. rows \in Seq(Cells(Labels \cup {Blank})) /\ rows # <<>>
    BY <1>1
  <2>2. /\ Len(rows) \in Nat /\ Len(rows) > 0 /\ DOMAIN rows = 1 .. Len(rows)
        /\ \A i \in 1 .. Len(rows) : rows[i] \in Cells(Labels \cup {Blank})
    BY <2>1
  <2> QED
    BY <2>1, <2>2 DEF Cells
<1>2. CASE \E form \in Forms : rows = <<form>>
  BY <1>2 DEF Cells
<1> QED
  BY <1>1, <1>2 DEF Rows

(* What the type invariant says of a request that was sent.                *)
LEMMA SentJob ==
    ASSUME IntakeTypes, NEW q \in Requests, Sent(q)
    PROVE  /\ req[q] \in Jobs
           /\ req[q].at \in Nat /\ req[q].at > 0
           /\ req[q].at <= Len(req[q].rows)
           /\ req[q].at \in DOMAIN req[q].rows
           /\ Len(req[q].rows) \in Nat
           /\ Len(req[q].results) \in Nat
           /\ Row(q).chassis \in Chassis \cup {Blank}
           /\ Found(q) \in Finds
           /\ req[q].results \in Seq(Results)
           /\ Position(req[q]) /\ FormFound(req[q])
<1>1. req[q] \in Jobs /\ Position(req[q]) /\ FormFound(req[q])
  BY DEF IntakeTypes, Sent
<1>2. req[q].rows \in Rows /\ req[q].at \in Nat /\ Found(q) \in Finds
      /\ req[q].results \in Seq(Results)
  BY <1>1 DEF Jobs, Found
<1>3. req[q].at \in 1 .. Len(req[q].rows)
  BY <1>1 DEF Position
<1> QED
  BY <1>1, <1>2, <1>3, RowsAreLines DEF Row

LEMMA IntakeTypesImplyTypeOK == IntakeTypes => TypeOK
<1> SUFFICES ASSUME IntakeTypes PROVE TypeOK
  OBVIOUS
<1>1. ASSUME NEW q \in Requests, req[q] # Idle
      PROVE  /\ req[q].at \in DOMAIN req[q].rows
             /\ Len(req[q].results) <= Len(req[q].rows)
  <2>1. /\ req[q].at \in DOMAIN req[q].rows
        /\ req[q].at <= Len(req[q].rows) /\ req[q].at \in Nat
        /\ Len(req[q].rows) \in Nat /\ Position(req[q])
    BY <1>1, SentJob DEF Sent
  <2> QED
    BY <2>1 DEF Position
<1> QED
  BY <1>1 DEF TypeOK, IntakeTypes

(* A job of which some fields are written is a job.                        *)
LEMMA JobExcept ==
    ASSUME NEW j \in Jobs
    PROVE  /\ \A pc \in OpenSteps \cup {"answered"}, code \in Answers :
                 [j EXCEPT !.pc = pc, !.answer = code] \in Jobs
           /\ \A pc \in OpenSteps, found \in Finds :
                 [j EXCEPT !.found = found, !.pc = pc] \in Jobs
           /\ \A results \in Seq(Results), at \in Nat, code \in Answers,
                 pc \in OpenSteps \cup {"answered"}, found \in Finds :
                 [j EXCEPT !.results = results, !.at = at, !.pc = pc,
                           !.answer = code, !.found = found,
                           !.changed = {}] \in Jobs
           /\ \A x \in Curated : [j EXCEPT !.changed = @ \cup {x}] \in Jobs
<1>1. \A pc \in OpenSteps \cup {"answered"}, code \in Answers :
         [j EXCEPT !.pc = pc, !.answer = code] \in Jobs
  BY DEF Jobs
<1>2. \A pc \in OpenSteps, found \in Finds :
         [j EXCEPT !.found = found, !.pc = pc] \in Jobs
  BY DEF Jobs
<1>3. \A results \in Seq(Results), at \in Nat, code \in Answers,
         pc \in OpenSteps \cup {"answered"}, found \in Finds :
         [j EXCEPT !.results = results, !.at = at, !.pc = pc,
                   !.answer = code, !.found = found, !.changed = {}] \in Jobs
  BY DEF Jobs
<1>4. \A x \in Curated : [j EXCEPT !.changed = @ \cup {x}] \in Jobs
  BY DEF Jobs
<1> QED
  BY <1>1, <1>2, <1>3, <1>4

(* A step that writes one slot with a job in a right place keeps the types.*)
LEMMA SlotTypes ==
    ASSUME IntakeTypes, NEW q \in Requests, NEW j \in Jobs,
           Position(j), FormFound(j),
           req' = [req EXCEPT ![q] = j]
    PROVE  /\ req' \in [Requests -> Jobs \cup {Idle}]
           /\ \A p \in Requests :
                 Sent(p)' => Position(req[p])' /\ FormFound(req[p])'
<1>1. req \in [Requests -> Jobs \cup {Idle}]
  BY DEF IntakeTypes
<1>2. req'[q] = j /\ \A p \in Requests \ {q} : req'[p] = req[p]
  BY <1>1
<1>3. req' \in [Requests -> Jobs \cup {Idle}]
  BY <1>1
<1>4. ASSUME NEW p \in Requests, Sent(p)'
      PROVE  Position(req'[p]) /\ FormFound(req'[p])
  <2>1. CASE p = q
    BY <2>1, <1>2
  <2>2. CASE p # q
    BY <2>2, <1>2, <1>4 DEF IntakeTypes, Sent
  <2> QED
    BY <2>1, <2>2
<1> QED
  BY <1>3, <1>4

(* An answer leaves everything else of the request alone.                  *)
LEMMA AnsweredJob ==
    ASSUME IntakeTypes, NEW q \in Requests, Open(q),
           NEW code \in LastAnswers, Answered(q, code)
    PROVE  \E j \in Jobs :
              /\ Position(j) /\ FormFound(j)
              /\ req' = [req EXCEPT ![q] = j]
              /\ Alike(j, req[q]) /\ j.pc = "answered" /\ j.answer = code
<1> DEFINE j == [req[q] EXCEPT !.pc = "answered", !.answer = code]
<1>0. req \in [Requests -> Jobs \cup {Idle}] /\ req[q] \in Jobs
  BY SentJob DEF Open, Sent, IntakeTypes
<1>1. req[q].pc # "answered" /\ Position(req[q]) /\ FormFound(req[q])
  BY SentJob DEF Open, Sent
<1>2. j \in Jobs
  <2>1. code \in Answers /\ "answered" \in OpenSteps \cup {"answered"}
    BY DEF Answers, LastAnswers
  <2> QED
    BY <1>0, <2>1, JobExcept
<1>3. Alike(j, req[q]) /\ j.pc = "answered" /\ j.answer = code
  BY <1>0 DEF Jobs, Alike
<1>4. Position(j) /\ FormFound(j)
  <2> HIDE DEF j
  <2> QED
    BY <1>1, <1>3 DEF Position, FormFound, LastAnswers, Alike
<1>5. req' = [req EXCEPT ![q] = j]
  BY <1>0 DEF Answered, Jobs
<1> HIDE DEF j
<1> QED
  BY <1>2, <1>3, <1>4, <1>5

(* The result of a row makes the next one the row at hand.                 *)
LEMMA ReportedJob ==
    ASSUME IntakeTypes, NEW q \in Requests, Open(q), Bulk(q),
           NEW result \in Results, Report(q, result)
    PROVE  \E j \in Jobs :
              /\ Position(j) /\ FormFound(j)
              /\ req' = [req EXCEPT ![q] = j]
              /\ j.kind = "sheet" /\ j.rows = req[q].rows
              /\ j.results = Append(req[q].results, result)
              /\ j.at = IF req[q].at < Len(req[q].rows)
                        THEN req[q].at + 1 ELSE req[q].at
              /\ j.pc = IF req[q].at < Len(req[q].rows)
                        THEN "make" ELSE "answered"
              /\ j.answer = IF req[q].at < Len(req[q].rows) THEN 0 ELSE 200
              /\ j.found = Nothing
<1> DEFINE more == req[q].at < Len(req[q].rows)
           j == [req[q] EXCEPT
                   !.results = Append(@, result),
                   !.at = IF more THEN @ + 1 ELSE @,
                   !.pc = IF more THEN "make" ELSE "answered",
                   !.answer = IF more THEN 0 ELSE 200,
                   !.found = Nothing,
                   !.changed = {}]
<1>1. /\ req[q] \in Jobs /\ req[q].pc # "answered" /\ Position(req[q])
      /\ req[q].at \in Nat /\ req[q].at > 0 /\ req[q].at <= Len(req[q].rows)
      /\ Len(req[q].rows) \in Nat /\ Len(req[q].results) \in Nat
      /\ req[q].results \in Seq(Results)
  BY SentJob DEF Open, Sent
<1>2. Append(req[q].results, result) \in Seq(Results)
      /\ Len(Append(req[q].results, result)) = Len(req[q].results) + 1
  BY <1>1
<1>3. Nothing \in Finds
  BY DEF Nothing, Finds
<1>4. j \in Jobs
  <2> DEFINE at == IF more THEN req[q].at + 1 ELSE req[q].at
             pc == IF more THEN "make" ELSE "answered"
             code == IF more THEN 0 ELSE 200
  <2>1. /\ at \in Nat /\ pc \in OpenSteps \cup {"answered"}
        /\ code \in Answers
    BY <1>1 DEF OpenSteps, Answers
  <2>2. j = [req[q] EXCEPT
                !.results = Append(req[q].results, result), !.at = at,
                !.pc = pc, !.answer = code, !.found = Nothing, !.changed = {}]
    OBVIOUS
  <2> HIDE DEF at, pc, code, more, j
  <2> QED
    BY <1>1, <1>2, <1>3, <2>1, <2>2, JobExcept
<1>5. /\ j.kind = "sheet" /\ j.rows = req[q].rows
      /\ j.results = Append(req[q].results, result)
      /\ j.at = IF more THEN req[q].at + 1 ELSE req[q].at
      /\ j.pc = IF more THEN "make" ELSE "answered"
      /\ j.answer = IF more THEN 0 ELSE 200
      /\ j.found = Nothing
  BY <1>1 DEF Jobs, Bulk
<1>6. Position(j) /\ FormFound(j)
  <2>1. Len(req[q].results) = req[q].at - 1
    BY <1>1 DEF Position, Bulk
  <2> HIDE DEF j
  <2> QED
    BY <1>1, <1>2, <1>5, <2>1 DEF Position, FormFound
<1>7. req' = [req EXCEPT ![q] = j]
  BY <1>1 DEF Report, IntakeTypes, Jobs
<1> QED
  BY <1>4, <1>5, <1>6, <1>7

(* The answers other than 200 end the request where it is.                 *)
Ends(q) == \E code \in LastAnswers : Answered(q, code)

LEMMA EndedJob ==
    ASSUME IntakeTypes, NEW q \in Requests, Open(q), Ends(q)
    PROVE  \E j \in Jobs :
              /\ Position(j) /\ FormFound(j)
              /\ req' = [req EXCEPT ![q] = j]
              /\ Alike(j, req[q]) /\ j.pc = "answered" /\ j.answer # 200
<1>1. PICK code \in LastAnswers : Answered(q, code)
  BY DEF Ends
<1>2. code # 200
  BY DEF LastAnswers
<1> QED
  BY <1>1, <1>2, AnsweredJob

LEMMA AnswersEnd ==
    ASSUME NEW q, Answered(q, 201) \/ Answered(q, 404)
                    \/ Answered(q, 409) \/ Answered(q, 500)
    PROVE  Ends(q)
  BY DEF Ends, LastAnswers

(* A query puts what it has found into the job and goes on.                *)
LEMMA ReadJob ==
    ASSUME IntakeTypes, NEW q \in Requests, Open(q),
           NEW found \in Finds, NEW next \in OpenSteps,
           req' = [req EXCEPT ![q].found = found, ![q].pc = next],
           req[q].kind = "form" =>
              FormFound([req[q] EXCEPT !.found = found, !.pc = next])
    PROVE  \E j \in Jobs :
              /\ Position(j) /\ FormFound(j)
              /\ req' = [req EXCEPT ![q] = j]
              /\ Alike(j, req[q]) /\ j.pc # "answered"
<1> DEFINE j == [req[q] EXCEPT !.found = found, !.pc = next]
<1>0. req \in [Requests -> Jobs \cup {Idle}] /\ req[q] \in Jobs
  BY SentJob DEF Open, Sent, IntakeTypes
<1>1. req[q].pc # "answered" /\ Position(req[q])
  BY SentJob DEF Open, Sent
<1>2. j \in Jobs
  BY <1>0, JobExcept
<1>3. Alike(j, req[q]) /\ j.pc = next /\ next # "answered"
  BY <1>0 DEF Jobs, Alike, OpenSteps
<1>4. Position(j)
  <2> HIDE DEF j
  <2> QED
    BY <1>1, <1>3 DEF Position, Alike
<1>5. FormFound(j)
  <2>1. CASE req[q].kind = "form"
    BY <2>1
  <2>2. CASE req[q].kind # "form"
    <3> HIDE DEF j
    <3> QED
      BY <1>3, <2>2 DEF FormFound, Alike
  <2> QED
    BY <2>1, <2>2
<1>6. req' = [req EXCEPT ![q] = j]
  BY <1>0 DEF Jobs
<1> HIDE DEF j
<1> QED
  BY <1>2, <1>3, <1>4, <1>5, <1>6

(* What an insert writes is a listing: a form has found what it needs, and *)
(* a sheet's row without errors too.                                       *)
LEMMA ListingTyped ==
    ASSUME IntakeTypes, NEW q \in Requests, Writable(q)
    PROVE  ListingOf(q) \in Listings
<1>1. /\ req[q].pc = "insert" /\ Found(q) \in Finds /\ req[q] \in Jobs
      /\ FormFound(req[q]) /\ Row(q).chassis \in Chassis \cup {Blank}
      /\ req[q].at \in Nat
  BY SentJob DEF Writable, Open, Sent
<1>2. \A f \in {"make", "model", "client"} : Found(q)[f] # NoRow
  <2>1. CASE Bulk(q)
    BY <2>1 DEF Writable, Errors
  <2>2. CASE ~Bulk(q)
    <3>1. req[q].kind = "form"
      BY <1>1, <2>2 DEF Jobs, Bulk
    <3> QED
      BY <1>1, <3>1 DEF FormFound, Found
  <2> QED
    BY <2>1, <2>2
<1>3. /\ Found(q).make \in Makes /\ Found(q).model \in Models
      /\ Found(q).client \in Users /\ Found(q).sub \in SubSellers \cup {NoRow}
  BY <1>1, <1>2 DEF Finds
<1> QED
  BY <1>1, <1>3 DEF ListingOf, Listings

(* A request as it is sent.                                                *)
Fresh(j, kind, rows) ==
    /\ j.kind = kind /\ j.rows = rows /\ j.at = 1
    /\ j.pc = "make" /\ j.found = Nothing
    /\ j.results = <<>> /\ j.answer = 0
    /\ j.offered = OfferedForm(rows[1]) /\ j.changed = {}

Sendable(kind, rows) ==
    \/ kind = "form" /\ \E form \in Forms : rows = <<form>>
    \/ kind = "sheet" /\ rows \in Sheets

LEMMA SubmittedJob ==
    ASSUME IntakeTypes, NEW q \in Requests, NEW kind, NEW rows,
           Sendable(kind, rows),
           Submit(q, kind, rows)
    PROVE  \E j \in Jobs :
              /\ Position(j) /\ FormFound(j)
              /\ req' = [req EXCEPT ![q] = j]
              /\ Fresh(j, kind, rows)
<1> DEFINE j == [kind |-> kind, rows |-> rows, at |-> 1, pc |-> "make",
                 found |-> Nothing, results |-> <<>>, answer |-> 0,
                 offered |-> OfferedForm(rows[1]), changed |-> {}]
<1>1. rows \in Rows /\ kind \in {"form", "sheet"}
  BY DEF Rows, Sendable
<1>2. Len(rows) \in Nat /\ Len(rows) > 0 /\ (kind = "form" => Len(rows) = 1)
  BY <1>1, RowsAreLines DEF Sendable
<1>3. /\ Nothing \in Finds /\ <<>> \in Seq(Results) /\ 0 \in Answers
      /\ "make" \in OpenSteps \cup {"answered"} /\ 1 \in Nat
      /\ OfferedForm(rows[1]) \in BOOLEAN
  BY DEF Nothing, Finds, Answers, OpenSteps, OfferedForm
<1>4. j \in Jobs
  BY <1>1, <1>3 DEF Jobs
<1>5. Fresh(j, kind, rows)
  BY DEF Fresh
<1>6. Position(j) /\ FormFound(j)
  <2> HIDE DEF j
  <2>1. /\ j.kind = kind /\ j.rows = rows /\ j.at = 1
        /\ j.pc = "make" /\ Len(j.results) = 0
    BY <1>5 DEF Fresh
  <2> QED
    BY <1>1, <1>2, <2>1 DEF Position, FormFound
<1>7. req' = [req EXCEPT ![q] = j]
  BY DEF Submit
<1> HIDE DEF j
<1> QED
  BY <1>4, <1>5, <1>6, <1>7

(* The cells that the lookups find.                                        *)
LEMMA LookupTypes ==
    ASSUME IntakeTypes, NEW q \in Requests, Sent(q)
    PROVE  /\ AnyOf(MakesFor(q)) \subseteq Makes \cup {NoRow}
           /\ AnyOf(ModelsFor(q)) \subseteq Models \cup {NoRow}
           /\ AnyOf(ClientsFor(q)) \subseteq Users \cup {NoRow}
           /\ AnyOf(SubsFor(q)) \subseteq SubSellers \cup {NoRow}
  BY DEF AnyOf, MakesFor, ModelsFor, ClientsFor, SubsFor

(* Each query of a row leaves a job in its place.                          *)
LEMMA QueriedJob ==
    ASSUME IntakeTypes, NEW q \in Requests,
           ReadMake(q) \/ ReadModel(q) \/ ReadClient(q) \/ ReadSub(q)
    PROVE  \E j \in Jobs :
              /\ Position(j) /\ FormFound(j)
              /\ req' = [req EXCEPT ![q] = j]
              /\ Alike(j, req[q])
              /\ j.pc = "answered" => ~Bulk(q)
<1>0. /\ Open(q) /\ Sent(q) /\ req[q] \in Jobs /\ Found(q) \in Finds
      /\ FormFound(req[q]) /\ (req[q].kind = "form" => ~Bulk(q))
  BY SentJob DEF ReadMake, ReadModel, ReadClient, ReadSub, Open, Sent, Bulk
<1>n. ASSUME Answered(q, 404), ~Bulk(q)
      PROVE  \E j \in Jobs :
                /\ Position(j) /\ FormFound(j)
                /\ req' = [req EXCEPT ![q] = j]
                /\ Alike(j, req[q])
                /\ j.pc = "answered" => ~Bulk(q)
  BY <1>0, <1>n, AnswersEnd, EndedJob
<1>1. CASE ReadMake(q)
  <2>1. PICK make \in AnyOf(MakesFor(q)) :
          Read(q, [Found(q) EXCEPT !.make = make], make = NoRow, "model")
    BY <1>1 DEF ReadMake
  <2> DEFINE found == [Found(q) EXCEPT !.make = make]
             next == "model"
  <2>3. CASE Answered(q, 404) /\ ~Bulk(q)
    BY <1>n, <2>3
  <2>4. CASE ~(Answered(q, 404) /\ ~Bulk(q))
    <3>1. /\ req' = [req EXCEPT ![q].found = found, ![q].pc = next]
          /\ Bulk(q) \/ make # NoRow
      BY <2>1, <2>4 DEF Read
    <3>2. found \in Finds /\ next \in OpenSteps
      BY <1>0, LookupTypes DEF Finds, OpenSteps
    <3>3. found.make = make
      BY <1>0 DEF Finds
    <3>4. /\ [req[q] EXCEPT !.found = found, !.pc = next].found = found
          /\ [req[q] EXCEPT !.found = found, !.pc = next].pc = "model"
      <4> HIDE DEF found
      <4> QED
        BY <1>0 DEF Jobs
    <3> HIDE DEF found, next
    <3>5. req[q].kind = "form" =>
             FormFound([req[q] EXCEPT !.found = found, !.pc = next])
      BY <1>0, <3>1, <3>3, <3>4 DEF FormFound
    <3> QED
      BY <1>0, <3>1, <3>2, <3>5, ReadJob
  <2> QED
    BY <2>3, <2>4
<1>4. CASE ReadModel(q)
  <2>1. PICK model \in AnyOf(ModelsFor(q)) :
          Read(q, [Found(q) EXCEPT !.model = model],
               model = NoRow \/ Row(q).rest = "unknown", "client")
    BY <1>4 DEF ReadModel
  <2> DEFINE found == [Found(q) EXCEPT !.model = model]
             next == "client"
  <2>3. CASE Answered(q, 404) /\ ~Bulk(q)
    BY <1>n, <2>3
  <2>4. CASE ~(Answered(q, 404) /\ ~Bulk(q))
    <3>1. /\ req' = [req EXCEPT ![q].found = found, ![q].pc = next]
          /\ Bulk(q) \/ model # NoRow
      BY <2>1, <2>4 DEF Read
    <3>2. found \in Finds /\ next \in OpenSteps
      BY <1>0, LookupTypes DEF Finds, OpenSteps
    <3>3. found.model = model /\ found.make = Found(q).make
      BY <1>0 DEF Finds
    <3>4. /\ [req[q] EXCEPT !.found = found, !.pc = next].found = found
          /\ [req[q] EXCEPT !.found = found, !.pc = next].pc = "client"
          /\ req[q].pc = "model"
      <4> HIDE DEF found
      <4> QED
        BY <1>0, <1>4 DEF Jobs, ReadModel
    <3> HIDE DEF found, next
    <3>5. req[q].kind = "form" =>
             FormFound([req[q] EXCEPT !.found = found, !.pc = next])
      BY <1>0, <3>1, <3>3, <3>4 DEF FormFound, Found
    <3> QED
      BY <1>0, <3>1, <3>2, <3>5, ReadJob
  <2> QED
    BY <2>3, <2>4
<1>2. CASE ReadClient(q)
  <2>1. PICK client \in AnyOf(ClientsFor(q)) :
          Read(q, [Found(q) EXCEPT !.client = client], client = NoRow, "sub")
    BY <1>2 DEF ReadClient
  <2> DEFINE found == [Found(q) EXCEPT !.client = client]
             next == "sub"
  <2>3. CASE Answered(q, 404) /\ ~Bulk(q)
    BY <1>n, <2>3
  <2>4. CASE ~(Answered(q, 404) /\ ~Bulk(q))
    <3>1. /\ req' = [req EXCEPT ![q].found = found, ![q].pc = next]
          /\ Bulk(q) \/ client # NoRow
      BY <2>1, <2>4 DEF Read
    <3>2. found \in Finds /\ next \in OpenSteps
      BY <1>0, LookupTypes DEF Finds, OpenSteps
    <3>3. /\ found.client = client
          /\ found.make = Found(q).make /\ found.model = Found(q).model
      BY <1>0 DEF Finds
    <3>4. /\ [req[q] EXCEPT !.found = found, !.pc = next].found = found
          /\ [req[q] EXCEPT !.found = found, !.pc = next].kind = req[q].kind
          /\ req[q].pc = "client"
      <4> HIDE DEF found
      <4> QED
        BY <1>0, <1>2 DEF Jobs, ReadClient
    <3> HIDE DEF found, next
    <3>5. req[q].kind = "form" =>
             FormFound([req[q] EXCEPT !.found = found, !.pc = next])
      BY <1>0, <3>1, <3>3, <3>4 DEF FormFound, Found
    <3> QED
      BY <1>0, <3>1, <3>2, <3>5, ReadJob
  <2> QED
    BY <2>3, <2>4
<1>3. CASE ReadSub(q)
  <2>1. PICK sub \in AnyOf(SubsFor(q)) :
          Read(q, [Found(q) EXCEPT !.sub = sub],
               Row(q).sub # Blank /\ sub = NoRow, "insert")
    BY <1>3 DEF ReadSub
  <2> DEFINE found == [Found(q) EXCEPT !.sub = sub]
             next == "insert"
  <2>3. CASE Answered(q, 404) /\ ~Bulk(q)
    BY <1>n, <2>3
  <2>4. CASE ~(Answered(q, 404) /\ ~Bulk(q))
    <3>1. req' = [req EXCEPT ![q].found = found, ![q].pc = next]
      BY <2>1, <2>4 DEF Read
    <3>2. found \in Finds /\ next \in OpenSteps
      BY <1>0, LookupTypes DEF Finds, OpenSteps
    <3>3. /\ found.client = Found(q).client
          /\ found.make = Found(q).make /\ found.model = Found(q).model
      BY <1>0 DEF Finds
    <3>4. /\ [req[q] EXCEPT !.found = found, !.pc = next].found = found
          /\ [req[q] EXCEPT !.found = found, !.pc = next].kind = req[q].kind
          /\ req[q].pc = "sub"
      <4> HIDE DEF found
      <4> QED
        BY <1>0, <1>3 DEF Jobs, ReadSub
    <3> HIDE DEF found, next
    <3>5. req[q].kind = "form" =>
             FormFound([req[q] EXCEPT !.found = found, !.pc = next])
      BY <1>0, <3>1, <3>3, <3>4 DEF FormFound, Found
    <3> QED
      BY <1>0, <3>1, <3>2, <3>5, ReadJob
  <2> QED
    BY <2>3, <2>4
<1> QED
  BY <1>1, <1>2, <1>3, <1>4

LEMMA ResultTypes ==
    ASSUME NEW q
    PROVE  Created \in Results /\ Wrong(Errors(q)) \in Results
           /\ Wrong({"chassis"}) \in Results
<1>1. /\ Errors(q) \in SUBSET WrongCells
      /\ {"chassis"} \in SUBSET WrongCells /\ {} \in SUBSET WrongCells
  BY DEF Errors, WrongCells
<1> QED
  BY <1>1 DEF Created, Wrong, Results

(* Every step of a request leaves a job in its place.                      *)
LEMMA SteppedJob ==
    ASSUME IntakeTypes, NEW q \in Requests, Step(q) \/ Fail(q)
    PROVE  \E j \in Jobs : /\ Position(j) /\ FormFound(j)
                           /\ req' = [req EXCEPT ![q] = j]
<1>1. CASE ReadMake(q) \/ ReadModel(q) \/ ReadClient(q) \/ ReadSub(q)
  BY <1>1, QueriedJob
<1>2. ASSUME Open(q), Bulk(q), NEW result \in Results, Report(q, result)
      PROVE  \E j \in Jobs : /\ Position(j) /\ FormFound(j)
                             /\ req' = [req EXCEPT ![q] = j]
  BY <1>2, ReportedJob
<1>3. ASSUME Open(q), Ends(q)
      PROVE  \E j \in Jobs : /\ Position(j) /\ FormFound(j)
                             /\ req' = [req EXCEPT ![q] = j]
  BY <1>3, EndedJob
<1>4. CASE Reject(q)
  BY <1>2, <1>4, ResultTypes DEF Reject
<1>5. CASE Insert(q)
  BY <1>2, <1>3, <1>5, ResultTypes, AnswersEnd DEF Insert, Writable
<1>6. CASE Duplicate(q)
  BY <1>2, <1>3, <1>6, ResultTypes, AnswersEnd DEF Duplicate, Writable
<1>7. CASE Unstorable(q)
  BY <1>3, <1>7, AnswersEnd DEF Unstorable, Writable
<1>8. CASE Fail(q)
  BY <1>3, <1>8, AnswersEnd DEF Fail
<1> QED
  BY <1>1, <1>4, <1>5, <1>6, <1>7, <1>8 DEF Step

LEMMA IntakeTypesInit == Init => IntakeTypes
  BY IntakeAssumption DEF Init, IntakeTypes, Sent

LEMMA IntakeTypesStep == IntakeTypes /\ [Next]_vars => IntakeTypes'
<1> SUFFICES ASSUME IntakeTypes, [Next]_vars PROVE IntakeTypes'
  OBVIOUS
<1>1. ASSUME NEW q \in Requests, Step(q) \/ Fail(q) PROVE IntakeTypes'
  <2>1. /\ req' \in [Requests -> Jobs \cup {Idle}]
        /\ \A p \in Requests :
              Sent(p)' => Position(req[p])' /\ FormFound(req[p])'
    BY <1>1, SteppedJob, SlotTypes
  <2>2. /\ live' = live /\ sellers' = sellers /\ changes' = changes
        /\ faults' = faults \/ (faults < MaxFaults /\ faults' = faults + 1)
    BY <1>1 DEF Step, Fail, ReadMake, ReadModel, ReadClient, ReadSub,
                Reject, Insert, Duplicate, Unstorable
  <2>3. \/ listings' = listings
        \/ Writable(q) /\ listings' = listings \cup {ListingOf(q)}
    BY <1>1 DEF Step, Fail, ReadMake, ReadModel, ReadClient, ReadSub,
                Reject, Insert, Duplicate, Unstorable
  <2>4. listings' \subseteq Listings
    BY <2>3, ListingTyped DEF IntakeTypes
  <2>5. faults' \in 0 .. MaxFaults
    BY <2>2, IntakeAssumption DEF IntakeTypes
  <2> QED
    BY <2>1, <2>2, <2>4, <2>5 DEF IntakeTypes
<1>2. ASSUME NEW q \in Requests, NEW kind, NEW rows,
             Sendable(kind, rows), Submit(q, kind, rows)
      PROVE  IntakeTypes'
  <2>1. /\ req' \in [Requests -> Jobs \cup {Idle}]
        /\ \A p \in Requests :
              Sent(p)' => Position(req[p])' /\ FormFound(req[p])'
    BY <1>2, SubmittedJob, SlotTypes
  <2> QED
    BY <1>2, <2>1 DEF Submit, IntakeTypes
<1>3. ASSUME NEW x \in Curated, Change(x) PROVE IntakeTypes'
  <2>1. /\ live' \subseteq Lookups /\ sellers' \subseteq Users
        /\ listings' = listings /\ faults' = faults
        /\ changes' \in 0 .. MaxChanges
    BY <1>3, IntakeAssumption DEF Change, IntakeTypes
  <2>2. ASSUME NEW p \in Requests
        PROVE  /\ req'[p] \in Jobs \cup {Idle}
               /\ Sent(p)' => Position(req'[p]) /\ FormFound(req'[p])
    <3>1. CASE ~Open(p)
      BY <1>3, <3>1 DEF Change, IntakeTypes, Sent
    <3>2. CASE Open(p)
      <4> DEFINE j == [req[p] EXCEPT !.changed = @ \cup {x}]
      <4>1. req'[p] = j
        BY <1>3, <3>2 DEF Change
      <4>2. req[p] \in Jobs /\ Position(req[p]) /\ FormFound(req[p])
        BY <3>2, SentJob DEF Open, Sent
      <4>3. /\ j.kind = req[p].kind /\ j.rows = req[p].rows
            /\ j.at = req[p].at /\ j.results = req[p].results
            /\ j.pc = req[p].pc /\ j.answer = req[p].answer
            /\ j.found = req[p].found
        BY <4>2 DEF Jobs
      <4>4. j \in Jobs
        BY <4>2, JobExcept
      <4> HIDE DEF j
      <4> QED
        BY <4>1, <4>2, <4>3, <4>4 DEF Position, FormFound
    <3> QED
      BY <3>1, <3>2
  <2>3. req' \in [Requests -> Jobs \cup {Idle}]
    <3>1. req' = [q \in Requests |-> req'[q]]
      BY <1>3 DEF Change
    <3> QED
      BY <2>2, <3>1
  <2> QED
    BY <2>1, <2>2, <2>3 DEF IntakeTypes
<1>4. CASE UNCHANGED vars
  BY <1>4 DEF vars, IntakeTypes, Sent
<1> QED
  BY <1>1, <1>2, <1>3, <1>4 DEF Next, Sendable

(* Types, the steps a request can be in and the cells a listing can have   *)
(* (schemas/vehicle_intake.py, models/content.py:72-110).                  *)
THEOREM IntakeTypeCorrect == Spec => []TypeOK
<1>1. Init => IntakeTypes
  BY IntakeTypesInit
<1>2. IntakeTypes /\ [Next]_vars => IntakeTypes'
  BY IntakeTypesStep
<1>3. IntakeTypes => TypeOK
  BY IntakeTypesImplyTypeOK
<1> QED
  BY <1>1, <1>2, <1>3, PTL DEF Spec

---------------------------------------------------------------------------
(* The results of a sheet and the table.                                   *)

HasListing(q, i) == \E l \in listings : l.request = q /\ l.row = i

OneCar == \A k, l \in listings : k.chassis = l.chassis => k = l

(* A listing comes from a row its request has been at, and from the row at *)
(* hand only when the commit was the last thing the request did.           *)
Origin ==
    \A l \in listings :
        LET j == req[l.request]
        IN  /\ Sent(l.request) /\ l.row > 0 /\ l.row <= j.at
            /\ j.pc # "answered" => l.row < j.at
            /\ /\ j.kind = "sheet" /\ j.pc = "answered" /\ j.answer # 200
               /\ l.row = j.at
               => faults > 0

Matched(q) ==
    \A i \in 1 .. Len(req[q].results) :
        /\ req[q].results[i] = Created <=> HasListing(q, i)
        /\ /\ req[q].results[i] = Wrong({"chassis"})
           /\ req[q].rows[i].chassis # Blank
           => Taken(req[q].rows[i].chassis)

BrokenOff(q) ==
    req[q].kind = "sheet" /\ req[q].pc = "answered" /\ req[q].answer # 200 =>
        faults > 0 \/ req[q].rows[req[q].at].rest = "unstorable"

ReportInv ==
    /\ IntakeTypes
    /\ OneCar
    /\ Origin
    /\ \A q \in Requests : Sent(q) => Matched(q) /\ BrokenOff(q)

LEMMA ReportInvImplies == ReportInv => ReportTrue /\ AnsweredRowByRow
<1> SUFFICES ASSUME ReportInv PROVE ReportTrue /\ AnsweredRowByRow
  OBVIOUS
<1>1. ReportTrue
  BY DEF ReportInv, ReportTrue, Matched, HasListing, Entered, OneCar, Sent
<1>2. ASSUME NEW q \in Requests, req[q] # Idle, Bulk(q), ~Open(q),
             NEW done, done = Len(req[q].results)
      PROVE  /\ \/ req[q].answer = 200 /\ done = Len(req[q].rows)
                \/ faults > 0
                \/ req[q].rows[done + 1].rest = "unstorable"
             /\ \A l \in listings : l.request = q =>
                    l.row <= done \/ (l.row = done + 1 /\ faults > 0)
  <2>1. /\ Sent(q) /\ req[q].pc = "answered" /\ req[q].kind = "sheet"
        /\ Position(req[q]) /\ BrokenOff(q)
        /\ req[q].at \in Nat /\ req[q].at <= Len(req[q].rows)
        /\ Len(req[q].rows) \in Nat
    BY <1>2, SentJob DEF ReportInv, Sent, Open, Bulk
  <2>2. ASSUME NEW l \in listings, l.request = q
        PROVE  /\ l.row \in Nat /\ l.row <= req[q].at
               /\ req[q].answer # 200 /\ l.row = req[q].at => faults > 0
    BY <2>1, <2>2 DEF ReportInv, Origin, IntakeTypes, Listings
  <2>3. CASE req[q].answer = 200
    <3>1. done = Len(req[q].rows)
      BY <1>2, <2>1, <2>3 DEF Position
    <3> QED
      BY <2>1, <2>2, <2>3, <3>1
  <2>4. CASE req[q].answer # 200
    <3>1. done = req[q].at - 1
      BY <1>2, <2>1, <2>4 DEF Position
    <3>2. req[q].at = done + 1
      BY <2>1, <3>1
    <3> QED
      BY <2>1, <2>2, <2>4, <3>1, <3>2 DEF BrokenOff
  <2> QED
    BY <2>3, <2>4
<1>3. AnsweredRowByRow
  BY <1>2 DEF AnsweredRowByRow
<1> QED
  BY <1>1, <1>3

(* What the commit of a row adds to the table.                             *)
Adds(q) ==
    /\ Writable(q) /\ ~Taken(Row(q).chassis)
    /\ listings' = listings \cup {ListingOf(q)}

LEMMA AddsOneCar ==
    ASSUME ReportInv, NEW q \in Requests, listings' = listings \/ Adds(q)
    PROVE  OneCar'
<1>1. CASE listings' = listings
  BY <1>1 DEF ReportInv, OneCar
<1>2. CASE Adds(q)
  <2>1. ListingOf(q).chassis = Row(q).chassis
    BY DEF ListingOf
  <2> QED
    BY <1>2, <2>1 DEF ReportInv, OneCar, Adds, Taken
<1> QED
  BY <1>1, <1>2

(* The other requests keep what is said of them.                           *)
LEMMA OthersMatched ==
    ASSUME ReportInv, NEW q \in Requests, listings' = listings \/ Adds(q),
           faults \in Nat, faults' \in Nat, faults <= faults',
           NEW p \in Requests, p # q, req'[p] = req[p], Sent(p)'
    PROVE  Matched(p)' /\ BrokenOff(p)'
<1>1. Sent(p) /\ Matched(p) /\ BrokenOff(p)
  BY DEF ReportInv, Sent
<1>2. ListingOf(q).request = q
  BY DEF ListingOf
<1>3. \A i : HasListing(p, i)' <=> HasListing(p, i)
  BY <1>2 DEF HasListing, Adds
<1>4. \A c : Taken(c) => Taken(c)'
  BY DEF Taken, Adds
<1>5. Matched(p)'
  BY <1>1, <1>3, <1>4 DEF Matched
<1>6. BrokenOff(p)'
  BY <1>1 DEF BrokenOff
<1> QED
  BY <1>5, <1>6

LEMMA OthersOrigin ==
    ASSUME ReportInv,
           faults \in Nat, faults' \in Nat, faults <= faults',
           NEW l \in listings, req'[l.request] = req[l.request]
    PROVE  /\ Sent(l.request)' /\ l.row > 0 /\ l.row <= req'[l.request].at
           /\ req'[l.request].pc # "answered" => l.row < req'[l.request].at
           /\ /\ req'[l.request].kind = "sheet"
              /\ req'[l.request].pc = "answered"
              /\ req'[l.request].answer # 200
              /\ l.row = req'[l.request].at
              => faults' > 0
<1>1. /\ Sent(l.request) /\ l.row > 0 /\ l.row <= req[l.request].at
      /\ req[l.request].pc # "answered" => l.row < req[l.request].at
      /\ /\ req[l.request].kind = "sheet"
         /\ req[l.request].pc = "answered"
         /\ req[l.request].answer # 200
         /\ l.row = req[l.request].at
         => faults > 0
  BY DEF ReportInv, Origin
<1> QED
  BY <1>1 DEF Sent

(* A step that leaves the rows and results of a request alone.             *)
LEMMA AlikeKeeps ==
    ASSUME ReportInv, NEW q \in Requests, Open(q),
           NEW j \in Jobs, req' = [req EXCEPT ![q] = j], Alike(j, req[q]),
           faults \in Nat, faults' \in Nat, faults <= faults',
           j.pc = "answered" /\ Bulk(q) =>
              /\ j.answer # 200
              /\ faults' > 0 \/ Row(q).rest = "unstorable",
           \/ listings' = listings
           \/ Adds(q) /\ j.pc = "answered" /\ (Bulk(q) => faults' > 0)
    PROVE  /\ OneCar' /\ Origin'
           /\ \A p \in Requests : Sent(p)' => Matched(p)' /\ BrokenOff(p)'
<1>1. /\ req'[q] = j /\ \A p \in Requests \ {q} : req'[p] = req[p]
      /\ Sent(q) /\ Sent(q)' /\ req[q].pc # "answered"
      /\ Matched(q) /\ req[q].at \in Nat /\ req[q].at > 0
      /\ Len(req[q].results) \in Nat /\ Position(req[q])
  BY SentJob, SlotAssumption DEF ReportInv, IntakeTypes, Open, Sent
<1>2. OneCar'
  BY AddsOneCar
<1>3. ListingOf(q).request = q /\ ListingOf(q).row = req[q].at
  BY DEF ListingOf
<1>4. \A l \in listings : l.request = q => l.row < req[q].at
  BY <1>1 DEF ReportInv, Origin
<1>5. \A i \in 1 .. Len(req[q].results) : HasListing(q, i)' <=> HasListing(q, i)
  <2>1. CASE listings' = listings
    BY <2>1 DEF HasListing
  <2>2. CASE Adds(q)
    <3>1. \A i \in 1 .. Len(req[q].results) : i # req[q].at
      BY <1>1 DEF Position
    <3> QED
      BY <1>3, <2>2, <3>1 DEF HasListing, Adds
  <2> QED
    BY <2>1, <2>2
<1>6. \A c : Taken(c) => Taken(c)'
  BY DEF Taken, Adds
<1>7. Matched(q)'
  BY <1>1, <1>5, <1>6 DEF Matched, Alike
<1>8. BrokenOff(q)'
  BY <1>1 DEF BrokenOff, Alike, Bulk, Row
<1>9. ASSUME NEW l \in listings'
      PROVE  LET k == req'[l.request]
             IN  /\ Sent(l.request)' /\ l.row > 0 /\ l.row <= k.at
                 /\ k.pc # "answered" => l.row < k.at
                 /\ /\ k.kind = "sheet" /\ k.pc = "answered" /\ k.answer # 200
                    /\ l.row = k.at
                    => faults' > 0
  <2>1. CASE l \in listings /\ l.request # q
    <3>1. l.request \in Requests
      BY <2>1 DEF ReportInv, IntakeTypes, Listings
    <3> QED
      BY <1>1, <2>1, <3>1, OthersOrigin
  <2>2. CASE l \in listings /\ l.request = q
    <3>1. l.row < req[q].at /\ l.row > 0 /\ l.row \in Nat
      BY <1>4, <2>2 DEF ReportInv, Origin, IntakeTypes, Listings
    <3> QED
      BY <1>1, <2>2, <3>1 DEF Alike
  <2>3. CASE l \notin listings
    <3>1. Adds(q) /\ l = ListingOf(q) /\ j.pc = "answered"
          /\ (Bulk(q) => faults' > 0)
      BY <2>3 DEF Adds
    <3> QED
      BY <1>1, <1>3, <3>1 DEF Alike, Bulk
  <2> QED
    BY <2>1, <2>2, <2>3
<1>10. Origin'
  BY <1>9 DEF Origin
<1>11. ASSUME NEW p \in Requests, Sent(p)'
       PROVE  Matched(p)' /\ BrokenOff(p)'
  <2>1. CASE p = q
    BY <1>7, <1>8, <2>1
  <2>2. CASE p # q
    BY <1>1, <1>11, <2>2, OthersMatched
  <2> QED
    BY <2>1, <2>2
<1> QED
  BY <1>2, <1>10, <1>11

(* The result of a row: "created" comes with its listing, and a chassis    *)
(* number is reported as submitted because it is.                          *)
LEMMA ReportKeeps ==
    ASSUME ReportInv, NEW q \in Requests, Open(q), Bulk(q),
           NEW result \in Results, Report(q, result),
           faults \in Nat, faults' = faults,
           \/ result = Created /\ Adds(q)
           \/ /\ result # Created /\ listings' = listings
              /\ result = Wrong({"chassis"}) /\ Row(q).chassis # Blank =>
                    Taken(Row(q).chassis)
    PROVE  /\ OneCar' /\ Origin'
           /\ \A p \in Requests : Sent(p)' => Matched(p)' /\ BrokenOff(p)'
<1> DEFINE done == Len(req[q].results)
<1>0. PICK at : at = req[q].at
  OBVIOUS
<1>1. PICK j \in Jobs :
         /\ Position(j)
         /\ req' = [req EXCEPT ![q] = j]
         /\ j.kind = "sheet" /\ j.rows = req[q].rows
         /\ j.results = Append(req[q].results, result)
         /\ j.at = IF at < Len(req[q].rows) THEN at + 1 ELSE at
         /\ j.pc = IF at < Len(req[q].rows) THEN "make" ELSE "answered"
         /\ j.answer = IF at < Len(req[q].rows) THEN 0 ELSE 200
  BY <1>0, ReportedJob DEF ReportInv
<1>2. /\ req'[q] = j /\ \A p \in Requests \ {q} : req'[p] = req[p]
      /\ Sent(q) /\ Sent(q)' /\ req[q].pc # "answered"
      /\ Matched(q) /\ at \in Nat /\ at > 0 /\ at <= Len(req[q].rows)
      /\ Len(req[q].rows) \in Nat /\ done \in Nat /\ Position(req[q])
      /\ req[q].results \in Seq(Results)
  BY <1>0, <1>1, SentJob, SlotAssumption
     DEF ReportInv, IntakeTypes, Open, Sent
<1>3. done = at - 1
  BY <1>0, <1>2 DEF Position, Bulk
<1>4. /\ Len(j.results) = at
      /\ j.results[at] = result
      /\ \A i \in 1 .. done : j.results[i] = req[q].results[i]
  BY <1>1, <1>2, <1>3
<1>5. OneCar'
  BY AddsOneCar
<1>6. ListingOf(q).request = q /\ ListingOf(q).row = at
      /\ ListingOf(q).chassis = Row(q).chassis
  BY <1>0 DEF ListingOf
<1>7. \A l \in listings :
         l.request = q => l.row < at /\ l.row \in Nat /\ l.row > 0
  BY <1>0, <1>2 DEF ReportInv, Origin, IntakeTypes, Listings
<1>8. \A i \in 1 .. done : HasListing(q, i)' <=> HasListing(q, i)
  BY <1>2, <1>3, <1>6 DEF HasListing, Adds
<1>9. HasListing(q, at)' <=> result = Created
  <2>1. CASE result = Created /\ Adds(q)
    BY <1>6, <2>1 DEF HasListing, Adds
  <2>2. CASE result # Created /\ listings' = listings
    <3>1. \A l \in listings : l.request = q => l.row # at
      BY <1>2, <1>7
    <3> QED
      BY <2>2, <3>1 DEF HasListing
  <2> QED
    BY <2>1, <2>2
<1>10. \A c : Taken(c) => Taken(c)'
  BY DEF Taken, Adds
<1>11. Matched(q)'
  <2> SUFFICES ASSUME NEW i \in 1 .. Len(j.results)
               PROVE  /\ j.results[i] = Created <=> HasListing(q, i)'
                      /\ /\ j.results[i] = Wrong({"chassis"})
                         /\ j.rows[i].chassis # Blank
                         => Taken(j.rows[i].chassis)'
    BY <1>2 DEF Matched
  <2>1. CASE i = at
    <3>1. Created # Wrong({"chassis"})
      BY DEF Created, Wrong
    <3> HIDE DEF done
    <3>2. j.rows[i] = Row(q)
      BY <1>0, <1>1, <2>1 DEF Row
    <3>3. /\ j.results[i] = result
          /\ HasListing(q, i)' <=> result = Created
      BY <1>4, <1>9, <2>1
    <3>4. result = Wrong({"chassis"}) /\ Row(q).chassis # Blank =>
             Taken(Row(q).chassis)
      BY <3>1
    <3> QED
      BY <1>10, <3>2, <3>3, <3>4
  <2>2. CASE i # at
    <3>1. i \in 1 .. done
      BY <1>2, <1>3, <1>4, <2>2
    <3> QED
      BY <1>1, <1>2, <1>4, <1>8, <1>10, <3>1 DEF Matched
  <2> QED
    BY <2>1, <2>2
<1>12. BrokenOff(q)'
  BY <1>1, <1>2 DEF BrokenOff
<1>13. ASSUME NEW l \in listings'
       PROVE  LET k == req'[l.request]
              IN  /\ Sent(l.request)' /\ l.row > 0 /\ l.row <= k.at
                  /\ k.pc # "answered" => l.row < k.at
                  /\ /\ k.kind = "sheet" /\ k.pc = "answered"
                     /\ k.answer # 200 /\ l.row = k.at
                     => faults' > 0
  <2>1. CASE l \in listings /\ l.request # q
    <3>1. l.request \in Requests
      BY <2>1 DEF ReportInv, IntakeTypes, Listings
    <3> QED
      BY <1>2, <2>1, <3>1, OthersOrigin
  <2>2. CASE l.request = q /\ l.row \in Nat /\ l.row > 0 /\ l.row <= at
    BY <1>1, <1>2, <2>2
  <2>3. CASE l \notin listings
    <3>1. l = ListingOf(q)
      BY <2>3 DEF Adds
    <3> QED
      BY <1>2, <1>6, <2>2, <3>1
  <2>4. CASE l \in listings /\ l.request = q
    BY <1>2, <1>7, <2>2, <2>4
  <2> QED
    BY <2>1, <2>3, <2>4
<1>14. Origin'
  BY <1>13 DEF Origin
<1>15. ASSUME NEW p \in Requests, Sent(p)'
       PROVE  Matched(p)' /\ BrokenOff(p)'
  <2>1. CASE p = q
    BY <1>11, <1>12, <2>1
  <2>2. CASE p # q
    BY <1>2, <1>15, <2>2, OthersMatched
  <2> QED
    BY <2>1, <2>2
<1> QED
  BY <1>5, <1>14, <1>15

LEMMA ReportInvInit == Init => ReportInv
  BY IntakeTypesInit DEF Init, ReportInv, OneCar, Origin, Sent

LEMMA ReportInvStep == ReportInv /\ [Next]_vars => ReportInv'
<1> SUFFICES ASSUME ReportInv, [Next]_vars PROVE ReportInv'
  OBVIOUS
<1>t. IntakeTypes' /\ faults \in Nat /\ faults' \in Nat
  BY IntakeTypesStep, IntakeAssumption DEF ReportInv, IntakeTypes
<1> DEFINE Kept == /\ OneCar' /\ Origin'
                   /\ \A p \in Requests :
                         Sent(p)' => Matched(p)' /\ BrokenOff(p)'
<1>k. Kept => ReportInv'
  BY <1>t DEF ReportInv
<1>1. ASSUME NEW q \in Requests, ReadMake(q) \/ ReadModel(q) \/ ReadClient(q) \/ ReadSub(q)
      PROVE  Kept
  <2>1. Open(q) /\ faults' = faults /\ listings' = listings
    BY <1>1 DEF ReadMake, ReadModel, ReadClient, ReadSub
  <2> QED
    BY <1>t, <1>1, <2>1, QueriedJob, AlikeKeeps DEF ReportInv
<1>2. ASSUME NEW q \in Requests, Reject(q)
      PROVE  Kept
  <2>1. /\ Open(q) /\ Bulk(q) /\ Report(q, Wrong(Errors(q)))
        /\ faults' = faults /\ listings' = listings
    BY <1>2 DEF Reject
  <2>2. Wrong(Errors(q)) # Created
    BY DEF Wrong, Created
  <2>3. Wrong(Errors(q)) = Wrong({"chassis"}) => Row(q).chassis = Blank
    <3>1. Wrong(Errors(q)) = Wrong({"chassis"}) => "chassis" \in Errors(q)
      BY DEF Wrong
    <3> QED
      BY <3>1 DEF Errors
  <2> QED
    BY <1>t, <2>1, <2>2, <2>3, ResultTypes, ReportKeeps
<1>3. ASSUME NEW q \in Requests, Insert(q)
      PROVE  Kept
  <2>1. Open(q) /\ faults' = faults /\ Adds(q)
    BY <1>3 DEF Insert, Writable, Adds
  <2>2. CASE Bulk(q)
    <3>1. Report(q, Created)
      BY <1>3, <2>2 DEF Insert
    <3> QED
      BY <1>t, <2>1, <2>2, <3>1, ResultTypes, ReportKeeps
  <2>3. CASE ~Bulk(q)
    <3>1. Ends(q)
      BY <1>3, <2>3, AnswersEnd DEF Insert
    <3> QED
      BY <1>t, <2>1, <2>3, <3>1, EndedJob, AlikeKeeps DEF ReportInv
  <2> QED
    BY <2>2, <2>3
<1>4. ASSUME NEW q \in Requests, Duplicate(q)
      PROVE  Kept
  <2>1. /\ Open(q) /\ faults' = faults /\ listings' = listings
        /\ Taken(Row(q).chassis)
    BY <1>4 DEF Duplicate, Writable
  <2>2. CASE Bulk(q)
    <3>1. Report(q, Wrong({"chassis"})) /\ Wrong({"chassis"}) # Created
      BY <1>4, <2>2 DEF Duplicate, Wrong, Created
    <3> QED
      BY <1>t, <2>1, <2>2, <3>1, ResultTypes, ReportKeeps
  <2>3. CASE ~Bulk(q)
    <3>1. Ends(q)
      BY <1>4, <2>3, AnswersEnd DEF Duplicate
    <3> QED
      BY <1>t, <2>1, <2>3, <3>1, EndedJob, AlikeKeeps DEF ReportInv
  <2> QED
    BY <2>2, <2>3
<1>5. ASSUME NEW q \in Requests, Unstorable(q)
      PROVE  Kept
  <2>1. /\ Open(q) /\ faults' = faults /\ listings' = listings
        /\ Row(q).rest = "unstorable" /\ Ends(q)
    BY <1>5, AnswersEnd DEF Unstorable, Writable
  <2> QED
    BY <1>t, <2>1, EndedJob, AlikeKeeps DEF ReportInv
<1>6. ASSUME NEW q \in Requests, Fail(q)
      PROVE  Kept
  <2>1. /\ Open(q) /\ faults' = faults + 1 /\ Ends(q)
        /\ listings' = listings \/ Adds(q)
    BY <1>6, AnswersEnd DEF Fail, Adds
  <2>2. faults' > 0 /\ faults <= faults'
    BY <1>t, <2>1
  <2> QED
    BY <1>t, <2>1, <2>2, EndedJob, AlikeKeeps DEF ReportInv
<1>7. ASSUME NEW q \in Requests, NEW kind, NEW rows,
             Sendable(kind, rows), Submit(q, kind, rows)
      PROVE  Kept
  <2>1. PICK j \in Jobs :
           /\ req' = [req EXCEPT ![q] = j]
           /\ Fresh(j, kind, rows)
    BY <1>7, SubmittedJob DEF ReportInv
  <2>2. /\ ~Sent(q) /\ listings' = listings /\ faults' = faults
        /\ req'[q] = j /\ \A p \in Requests \ {q} : req'[p] = req[p]
    BY <1>7, <2>1 DEF Submit, Sent, ReportInv, IntakeTypes
  <2>3. OneCar'
    BY <2>2, AddsOneCar
  <2>4. \A l \in listings : l.request \in Requests \ {q}
    BY <2>2 DEF ReportInv, Origin, IntakeTypes, Listings
  <2>5. Origin'
    BY <1>t, <2>2, <2>4, OthersOrigin DEF Origin
  <2>6. Matched(q)' /\ BrokenOff(q)'
    BY <2>1, <2>2 DEF Matched, BrokenOff, Fresh
  <2>7. \A p \in Requests : Sent(p)' => Matched(p)' /\ BrokenOff(p)'
    BY <1>t, <2>2, <2>6, OthersMatched
  <2> QED
    BY <2>3, <2>5, <2>7
<1>8. ASSUME NEW x \in Curated, Change(x)
      PROVE  Kept
  <2>1. listings' = listings /\ faults' = faults
    BY <1>8 DEF Change
  <2>2. ASSUME NEW p \in Requests
        PROVE  /\ Sent(p)' <=> Sent(p)
               /\ Sent(p) =>
                     /\ req'[p].kind = req[p].kind /\ req'[p].rows = req[p].rows
                     /\ req'[p].at = req[p].at /\ req'[p].pc = req[p].pc
                     /\ req'[p].results = req[p].results
                     /\ req'[p].answer = req[p].answer
    <3>1. CASE ~Open(p)
      BY <1>8, <3>1 DEF Change, Sent
    <3>2. CASE Open(p)
      <4> DEFINE j == [req[p] EXCEPT !.changed = @ \cup {x}]
      <4>1. req'[p] = j
        BY <1>8, <3>2 DEF Change
      <4>2. req[p] \in Jobs /\ Sent(p)
        BY <3>2, SentJob DEF Open, Sent, ReportInv
      <4>3. /\ j.kind = req[p].kind /\ j.rows = req[p].rows
            /\ j.at = req[p].at /\ j.results = req[p].results
            /\ j.pc = req[p].pc /\ j.answer = req[p].answer
        BY <4>2 DEF Jobs
      <4>4. j # Idle
        BY <4>2, JobExcept, SlotAssumption
      <4> HIDE DEF j
      <4> QED
        BY <4>1, <4>2, <4>3, <4>4 DEF Sent
    <3> QED
      BY <3>1, <3>2
  <2>3. OneCar'
    BY <2>1 DEF ReportInv, OneCar
  <2>4. \A l \in listings : l.request \in Requests /\ Sent(l.request)
    BY DEF ReportInv, Origin, IntakeTypes, Listings
  <2>5. Origin'
    BY <2>1, <2>2, <2>4 DEF Origin, ReportInv
  <2>6. \A p \in Requests : Sent(p)' => Matched(p)' /\ BrokenOff(p)'
    BY <2>1, <2>2 DEF ReportInv, Matched, BrokenOff, HasListing, Taken
  <2> QED
    BY <2>3, <2>5, <2>6
<1>9. CASE UNCHANGED vars
  <2>1. Kept
    BY <1>9 DEF vars, ReportInv, OneCar, Origin, Matched, BrokenOff, HasListing,
                Taken, Sent
  <2> QED
    BY <1>k, <2>1
<1> HIDE DEF Kept
<1> QED
  BY <1>k, <1>1, <1>2, <1>3, <1>4, <1>5, <1>6, <1>7, <1>8, <1>9
     DEF Next, Step, Sendable

LEMMA ReportInvHolds == Spec => []ReportInv
<1>1. Init => ReportInv
  BY ReportInvInit
<1>2. ReportInv /\ [Next]_vars => ReportInv'
  BY ReportInvStep
<1> QED
  BY <1>1, <1>2, PTL DEF Spec

(* The results of a sheet are true and stay true, whatever overlaps,       *)
(* changes or fails (services/vehicle_intake_service.py:389-405).          *)
THEOREM ReportsAreTrue == Spec => []ReportTrue
  BY ReportInvHolds, ReportInvImplies, PTL

(* A sheet is answered row by row, and a row without a result is in the    *)
(* table only after a failure (services/vehicle_intake_service.py:408-414).*)
THEOREM RowsAreAnswered == Spec => []AnsweredRowByRow
  BY ReportInvHolds, ReportInvImplies, PTL

---------------------------------------------------------------------------
(* What the queries have found.                                            *)

(* The rows a cell stands for, on offer or not.                            *)
Stands(q, cell) ==
    IF cell = Blank THEN {} ELSE IF Bulk(q) THEN Bearing[cell] ELSE {cell}

(* Those that were on offer when the row was read, so that they still are  *)
(* or were edited since.                                                   *)
Seen(q, cell) == Stands(q, cell) \cap (live \cup req[q].changed)

(* A request holds what its cells stand for, and what it has not looked up *)
(* yet is not found.                                                       *)
Says(q) ==
    LET row   == Row(q)
        found == Found(q)
    IN  /\ found.make \in Seen(q, row.make) \cup {NoRow}
        /\ found.model \in {m \in Seen(q, row.model) :
                               Bulk(q) => MakeOf[m] = found.make} \cup {NoRow}
        /\ found.client \in {u \in Seen(q, row.client) :
                 Bulk(q) => u \in sellers \cup req[q].changed} \cup {NoRow}
        /\ found.sub \in {s \in Seen(q, row.sub) :
                             SellerOf[s] = found.client} \cup {NoRow}
        /\ req[q].pc = "make" => found.model = NoRow
        /\ req[q].pc # "insert" => found.sub = NoRow

(* None of the rows a form names was edited.                               *)
Untouched(q) ==
    LET row == Row(q)
    IN  {row.make, row.model, row.client, row.sub} \cap req[q].changed = {}

(* A form whose cells were on offer: they still are, and no cell was       *)
(* refused.                                                                *)
Offer(q) ==
    req[q].kind = "form" /\ req[q].offered /\ Untouched(q) =>
        /\ req[q].answer # 404
        /\ Open(q) => OfferedForm(Row(q))

Sound(q) == (Open(q) => Says(q)) /\ Offer(q)

LookupInv == IntakeTypes /\ \A q \in Requests : Sent(q) => Sound(q)

LEMMA NamedIsSeen ==
    ASSUME NEW q, NEW cell
    PROVE  /\ Named(q, cell) = Stands(q, cell) \cap live
           /\ Named(q, cell) \subseteq Seen(q, cell)
  BY DEF Named, Stands, Seen

(* What a request stands for depends on its row only.                      *)
LEMMA SameRow ==
    ASSUME NEW q, Alike(req'[q], req[q])
    PROVE  /\ Row(q)' = Row(q) /\ (Bulk(q)' <=> Bulk(q))
           /\ \A cell : Stands(q, cell)' = Stands(q, cell)
           /\ Untouched(q)' <=> Untouched(q)
           /\ live' = live => \A cell : Seen(q, cell)' = Seen(q, cell)
<1>1. Row(q)' = Row(q) /\ (Bulk(q)' <=> Bulk(q))
      /\ req'[q].changed = req[q].changed
  BY DEF Row, Bulk, Alike
<1>2. \A cell : Stands(q, cell)' = Stands(q, cell)
  BY <1>1 DEF Stands
<1>3. Untouched(q)' <=> Untouched(q)
  BY <1>1 DEF Untouched
<1>4. live' = live => \A cell : Seen(q, cell)' = Seen(q, cell)
  BY <1>1, <1>2 DEF Seen
<1> QED
  BY <1>1, <1>2, <1>3, <1>4

LEMMA SameOffer ==
    ASSUME live' = live, sellers' = sellers
    PROVE  \A row : OfferedForm(row)' <=> OfferedForm(row)
  BY DEF OfferedForm, OfferedModels, OfferedClients, OfferedSubs

(* A request that does not move keeps what it holds.                       *)
LEMMA OthersSound ==
    ASSUME LookupInv, NEW p \in Requests, live' = live, sellers' = sellers,
           req'[p] = req[p], Sent(p)'
    PROVE  Sound(p)'
<1>1. Sent(p) /\ Sound(p)
  BY DEF LookupInv, Sent
<1>2. Found(p)' = Found(p) /\ (Open(p)' <=> Open(p)) /\ Alike(req'[p], req[p])
  BY DEF Found, Open, Alike
<1>3. Open(p)' => Says(p)'
  BY <1>1, <1>2, SameRow DEF Sound, Says
<1>4. Offer(p)'
  BY <1>1, <1>2, SameRow, SameOffer DEF Sound, Offer
<1> QED
  BY <1>3, <1>4 DEF Sound

(* A form on offer finds what its cells name.                              *)
LEMMA OfferFound ==
    ASSUME LookupInv, NEW q \in Requests, Open(q), ~Bulk(q),
           req[q].offered, Untouched(q)
    PROVE  /\ OfferedForm(Row(q)) /\ Row(q).rest # "unknown"
           /\ \A make \in AnyOf(MakesFor(q)) : make # NoRow
           /\ \A model \in AnyOf(ModelsFor(q)) : model # NoRow
           /\ \A client \in AnyOf(ClientsFor(q)) : client # NoRow
           /\ Row(q).sub # Blank /\ Found(q).client = Row(q).client =>
                 \A sub \in AnyOf(SubsFor(q)) : sub # NoRow
<1>1. Sent(q) /\ req[q].kind = "form"
  BY SentJob DEF Open, Sent, LookupInv, Jobs, Bulk
<1>2. OfferedForm(Row(q))
  BY <1>1 DEF LookupInv, Sound, Offer
<1> DEFINE row == Row(q)
<1>3. /\ row.make \in Makes \cap live /\ row.model \in Models \cap live
      /\ row.client \in Users \cap live /\ row.rest # "unknown"
      /\ row.sub # Blank =>
            row.sub \in SubSellers \cap live /\ SellerOf[row.sub] = row.client
  <2>1. row.model \in OfferedModels(row.make) /\ row.make \in live
    BY <1>2 DEF OfferedForm
  <2>2. row.make \in Makes
    BY <2>1, IntakeAssumption DEF OfferedModels
  <2> QED
    BY <1>2, <2>1, <2>2
       DEF OfferedForm, OfferedModels, OfferedClients, OfferedSubs
<1>4. \A cell \in Lookups : Named(q, cell) = {cell} \cap live /\ cell # NoRow
  BY IntakeAssumption DEF Named
<1>5. MakesFor(q) = {row.make} /\ row.make # NoRow
  BY <1>3, <1>4 DEF MakesFor, Lookups
<1>6. ModelsFor(q) = {row.model}
  BY <1>3, <1>4 DEF ModelsFor, Lookups
<1>7. ClientsFor(q) = {row.client}
  BY <1>3, <1>4 DEF ClientsFor, Lookups
<1>8. row.sub # Blank /\ Found(q).client = row.client => SubsFor(q) = {row.sub}
  BY <1>3, <1>4 DEF SubsFor, Lookups
<1>9. NoRow \notin {row.make, row.model, row.client}
      /\ (row.sub # Blank => row.sub # NoRow)
  BY <1>3, <1>4 DEF Lookups
<1> HIDE DEF row
<1> QED
  BY <1>2, <1>3, <1>5, <1>6, <1>7, <1>8, <1>9 DEF AnyOf, row

(* An answer.                                                              *)
LEMMA Stops ==
    ASSUME IntakeTypes, NEW q \in Requests, Open(q), NEW code,
           Answered(q, code)
    PROVE  /\ req'[q].answer = code /\ req'[q].pc = "answered"
           /\ Alike(req'[q], req[q])
           /\ \A p \in Requests \ {q} : req'[p] = req[p]
<1>1. req \in [Requests -> Jobs \cup {Idle}] /\ req[q] \in Jobs
  BY SentJob DEF Open, Sent, IntakeTypes
<1> QED
  BY <1>1 DEF Jobs, Alike, Answered

(* An answer that is not 404, or not to a form on offer.                   *)
LEMMA StopsWell ==
    ASSUME LookupInv, NEW q \in Requests, Open(q), NEW code, Answered(q, code),
           \/ code # 404 \/ Bulk(q) \/ ~req[q].offered \/ ~Untouched(q)
    PROVE  Sound(q)'
<1>1. /\ req'[q].answer = code /\ req'[q].pc = "answered"
      /\ Alike(req'[q], req[q])
  BY Stops DEF LookupInv
<1> QED
  BY <1>1, SameRow DEF Sound, Offer, Open, Alike, Bulk

(* A query that holds what the cells stand for.                            *)
LEMMA GoesOnWell ==
    ASSUME LookupInv, NEW q \in Requests, Open(q),
           NEW found \in Finds, NEW next \in OpenSteps,
           req' = [req EXCEPT ![q].found = found, ![q].pc = next],
           live' = live, sellers' = sellers,
           /\ found.make \in Seen(q, Row(q).make) \cup {NoRow}
           /\ found.model \in {m \in Seen(q, Row(q).model) :
                                 Bulk(q) => MakeOf[m] = found.make} \cup {NoRow}
           /\ found.client \in {u \in Seen(q, Row(q).client) :
                    Bulk(q) => u \in sellers \cup req[q].changed} \cup {NoRow}
           /\ found.sub \in {s \in Seen(q, Row(q).sub) :
                               SellerOf[s] = found.client} \cup {NoRow}
           /\ next = "make" => found.model = NoRow
           /\ next # "insert" => found.sub = NoRow
    PROVE  Sound(q)'
<1>1. /\ req'[q].found = found /\ req'[q].pc = next
      /\ Alike(req'[q], req[q]) /\ req'[q].answer = req[q].answer
  <2>1. req \in [Requests -> Jobs \cup {Idle}] /\ req[q] \in Jobs
    BY SentJob DEF LookupInv, Open, Sent, IntakeTypes
  <2> QED
    BY <2>1 DEF Jobs, Alike
<1>2. Found(q)' = found /\ req'[q].changed = req[q].changed
  BY <1>1 DEF Found, Alike
<1>3. Says(q)'
  <2>1. /\ Row(q)' = Row(q) /\ (Bulk(q)' <=> Bulk(q))
        /\ \A cell : Seen(q, cell)' = Seen(q, cell)
    BY <1>1, SameRow
  <2> QED
    BY <1>1, <1>2, <2>1 DEF Says
<1>4. Offer(q)'
  <2>1. Sent(q) /\ Offer(q)
    BY DEF LookupInv, Sound, Open, Sent
  <2> QED
    BY <1>1, <2>1, SameRow, SameOffer DEF Offer, Alike
<1> QED
  BY <1>3, <1>4 DEF Sound

(* A query finds rows that its cell stands for, or nothing.                *)
LEMMA FoundIsSeen ==
    ASSUME NEW q
    PROVE  /\ AnyOf(MakesFor(q)) \subseteq Seen(q, Row(q).make) \cup {NoRow}
           /\ AnyOf(ModelsFor(q)) \subseteq
                 {m \in Seen(q, Row(q).model) :
                     Bulk(q) => MakeOf[m] = Found(q).make} \cup {NoRow}
           /\ AnyOf(ClientsFor(q)) \subseteq
                 {u \in Seen(q, Row(q).client) :
                     Bulk(q) => u \in sellers \cup req[q].changed} \cup {NoRow}
           /\ AnyOf(SubsFor(q)) \subseteq
                 {s \in Seen(q, Row(q).sub) :
                     SellerOf[s] = Found(q).client} \cup {NoRow}
  BY NamedIsSeen DEF AnyOf, MakesFor, ModelsFor, ClientsFor, SubsFor

LEMMA QueryKeeps ==
    ASSUME LookupInv, NEW q \in Requests,
           ReadMake(q) \/ ReadModel(q) \/ ReadClient(q) \/ ReadSub(q)
    PROVE  Sound(q)'
<1>0. /\ Open(q) /\ Sent(q) /\ Says(q) /\ Found(q) \in Finds
      /\ live' = live /\ sellers' = sellers
      /\ FormFound(req[q]) /\ req[q] \in Jobs
  BY SentJob
     DEF ReadMake, ReadModel, ReadClient, ReadSub, Open, Sent, LookupInv, Sound
<1>o. ASSUME ~Bulk(q), Answered(q, 404), ~req[q].offered \/ ~Untouched(q)
      PROVE  Sound(q)'
  BY <1>0, <1>o, StopsWell
<1>1. CASE ReadMake(q)
  <2>1. PICK make \in AnyOf(MakesFor(q)) :
          Read(q, [Found(q) EXCEPT !.make = make], make = NoRow, "model")
    BY <1>1 DEF ReadMake
  <2> DEFINE found == [Found(q) EXCEPT !.make = make]
  <2>2. /\ found \in Finds /\ "model" \in OpenSteps /\ found.make = make
        /\ found.model = Found(q).model /\ found.client = Found(q).client
        /\ found.sub = Found(q).sub /\ req[q].pc = "make"
    BY <1>0, <1>1, LookupTypes DEF Finds, OpenSteps, LookupInv, ReadMake
  <2>3. CASE ~Bulk(q) /\ Answered(q, 404) /\ make = NoRow
    BY <1>0, <1>o, <2>3, OfferFound
  <2>4. CASE req' = [req EXCEPT ![q].found = found, ![q].pc = "model"]
    <3> HIDE DEF found
    <3>1. found.make \in Seen(q, Row(q).make) \cup {NoRow}
      BY <2>2, FoundIsSeen
    <3> QED
      BY <1>0, <2>2, <2>4, <3>1, GoesOnWell DEF Says
  <2> QED
    BY <2>1, <2>3, <2>4 DEF Read
<1>2. CASE ReadModel(q)
  <2>1. PICK model \in AnyOf(ModelsFor(q)) :
          Read(q, [Found(q) EXCEPT !.model = model],
               model = NoRow \/ Row(q).rest = "unknown", "client")
    BY <1>2 DEF ReadModel
  <2> DEFINE found == [Found(q) EXCEPT !.model = model]
  <2>2. /\ found \in Finds /\ "client" \in OpenSteps /\ found.model = model
        /\ found.make = Found(q).make /\ found.client = Found(q).client
        /\ found.sub = Found(q).sub /\ req[q].pc = "model"
    BY <1>0, <1>2, LookupTypes DEF Finds, OpenSteps, LookupInv, ReadModel
  <2>3. CASE /\ ~Bulk(q) /\ Answered(q, 404)
             /\ model = NoRow \/ Row(q).rest = "unknown"
    BY <1>0, <1>o, <2>3, OfferFound
  <2>4. CASE req' = [req EXCEPT ![q].found = found, ![q].pc = "client"]
    <3> HIDE DEF found
    <3>1. found.model \in {m \in Seen(q, Row(q).model) :
                              Bulk(q) => MakeOf[m] = found.make} \cup {NoRow}
      BY <2>2, FoundIsSeen
    <3> QED
      BY <1>0, <2>2, <2>4, <3>1, GoesOnWell DEF Says
  <2> QED
    BY <2>1, <2>3, <2>4 DEF Read
<1>3. CASE ReadClient(q)
  <2>1. PICK client \in AnyOf(ClientsFor(q)) :
          Read(q, [Found(q) EXCEPT !.client = client], client = NoRow, "sub")
    BY <1>3 DEF ReadClient
  <2> DEFINE found == [Found(q) EXCEPT !.client = client]
  <2>2. /\ found \in Finds /\ "sub" \in OpenSteps /\ found.client = client
        /\ found.make = Found(q).make /\ found.model = Found(q).model
        /\ found.sub = Found(q).sub /\ req[q].pc = "client"
    BY <1>0, <1>3, LookupTypes DEF Finds, OpenSteps, LookupInv, ReadClient
  <2>3. CASE ~Bulk(q) /\ Answered(q, 404) /\ client = NoRow
    BY <1>0, <1>o, <2>3, OfferFound
  <2>4. CASE req' = [req EXCEPT ![q].found = found, ![q].pc = "sub"]
    <3> HIDE DEF found
    <3>1. found.client \in {u \in Seen(q, Row(q).client) :
                 Bulk(q) => u \in sellers \cup req[q].changed} \cup {NoRow}
      BY <2>2, FoundIsSeen
    <3>2. found.sub = NoRow
      BY <1>0, <2>2 DEF Says
    <3> QED
      BY <1>0, <2>2, <2>4, <3>1, <3>2, GoesOnWell DEF Says
  <2> QED
    BY <2>1, <2>3, <2>4 DEF Read
<1>4. CASE ReadSub(q)
  <2>1. PICK sub \in AnyOf(SubsFor(q)) :
          Read(q, [Found(q) EXCEPT !.sub = sub],
               Row(q).sub # Blank /\ sub = NoRow, "insert")
    BY <1>4 DEF ReadSub
  <2> DEFINE found == [Found(q) EXCEPT !.sub = sub]
  <2>2. /\ found \in Finds /\ "insert" \in OpenSteps /\ found.sub = sub
        /\ found.make = Found(q).make /\ found.model = Found(q).model
        /\ found.client = Found(q).client /\ req[q].pc = "sub"
    BY <1>0, <1>4, LookupTypes DEF Finds, OpenSteps, LookupInv, ReadSub
  <2>3. CASE /\ ~Bulk(q) /\ Answered(q, 404)
             /\ Row(q).sub # Blank /\ sub = NoRow
    <3>1. Found(q).client = Row(q).client
      <4>1. Found(q).client # NoRow
        BY <1>0, <2>2, <2>3 DEF FormFound, Jobs, Bulk, Found
      <4>2. Found(q).client \in Stands(q, Row(q).client)
        BY <1>0, <4>1 DEF Says, Seen
      <4> QED
        BY <2>3, <4>2 DEF Stands
    <3> QED
      BY <1>0, <1>o, <2>3, <3>1, OfferFound
  <2>4. CASE req' = [req EXCEPT ![q].found = found, ![q].pc = "insert"]
    <3> HIDE DEF found
    <3>1. found.sub \in {s \in Seen(q, Row(q).sub) :
                            SellerOf[s] = found.client} \cup {NoRow}
      BY <2>2, FoundIsSeen
    <3> QED
      BY <1>0, <2>2, <2>4, <3>1, GoesOnWell DEF Says
  <2> QED
    BY <2>1, <2>3, <2>4 DEF Read
<1> QED
  BY <1>1, <1>2, <1>3, <1>4

LEMMA LookupInvInit == Init => LookupInv
  BY IntakeTypesInit DEF Init, LookupInv, Sent

(* A row that has found nothing yet holds no wrong finding.                *)
LEMMA NothingSays ==
    ASSUME NEW q, Found(q)' = Nothing
    PROVE  Says(q)'
  BY DEF Says, Nothing

(* A change of a row the request does not name, or of one it records.      *)
LEMMA ChangeKeeps ==
    ASSUME LookupInv, NEW x \in Curated, Change(x), NEW p \in Requests, Open(p)
    PROVE  Sound(p)'
<1>1. req'[p] = [req[p] EXCEPT !.changed = @ \cup {x}] /\ req[p] \in Jobs
      /\ Sent(p) /\ Says(p) /\ Offer(p)
  BY SentJob DEF Change, Open, Sent, LookupInv, Sound
<1>2. /\ req'[p].changed = req[p].changed \cup {x}
      /\ req'[p].kind = req[p].kind /\ req'[p].rows = req[p].rows
      /\ req'[p].at = req[p].at /\ req'[p].pc = req[p].pc
      /\ req'[p].answer = req[p].answer /\ req'[p].found = req[p].found
      /\ req'[p].offered = req[p].offered
  BY <1>1 DEF Jobs
<1>3. /\ Row(p)' = Row(p) /\ (Bulk(p)' <=> Bulk(p)) /\ Found(p)' = Found(p)
      /\ \A cell : Stands(p, cell)' = Stands(p, cell)
  BY <1>2 DEF Row, Bulk, Found, Stands
<1>4. /\ live \subseteq live' \cup {x} /\ live' \subseteq live \cup {x}
      /\ sellers \subseteq sellers' \cup {x}
  BY DEF Change
<1>5. \A cell : Seen(p, cell) \subseteq Seen(p, cell)'
  BY <1>2, <1>3, <1>4 DEF Seen
<1>6. sellers \cup req[p].changed \subseteq sellers' \cup req'[p].changed
  BY <1>2, <1>4
<1>7. Says(p)'
  BY <1>1, <1>2, <1>3, <1>5, <1>6 DEF Says
<1>8. Offer(p)'
  <2> SUFFICES ASSUME req[p].kind = "form", req[p].offered, Untouched(p)'
               PROVE  req[p].answer # 404 /\ OfferedForm(Row(p))'
    BY <1>2 DEF Offer
  <2>1. PICK row : row = Row(p)
    OBVIOUS
  <2>2. /\ Untouched(p)
        /\ x \notin {row.make, row.model, row.client, row.sub}
    BY <1>2, <1>3, <2>1 DEF Untouched
  <2>3. req[p].answer # 404 /\ OfferedForm(row)
    BY <1>1, <2>1, <2>2 DEF Offer
  <2>4. OfferedForm(row)'
    BY <1>4, <2>2, <2>3
       DEF OfferedForm, OfferedModels, OfferedClients, OfferedSubs
  <2> QED
    BY <1>3, <2>1, <2>3, <2>4
<1> QED
  BY <1>7, <1>8 DEF Sound

LEMMA LookupInvStep == LookupInv /\ [Next]_vars => LookupInv'
<1> SUFFICES ASSUME LookupInv, [Next]_vars PROVE LookupInv'
  OBVIOUS
<1>t. IntakeTypes /\ IntakeTypes'
  BY IntakeTypesStep DEF LookupInv
<1> DEFINE Kept == \A p \in Requests : Sent(p)' => Sound(p)'
<1>1. ASSUME NEW q \in Requests, live' = live, sellers' = sellers,
             \A p \in Requests \ {q} : req'[p] = req[p],
             Sound(q)'
      PROVE  Kept
  <2> SUFFICES ASSUME NEW p \in Requests, Sent(p)'
               PROVE  Sound(p)'
    OBVIOUS
  <2>1. CASE p = q
    BY <1>1, <2>1
  <2>2. CASE p # q
    BY <1>1, <2>2, OthersSound
  <2> QED
    BY <2>1, <2>2
<1>2. ASSUME NEW q \in Requests, Step(q) \/ Fail(q)
      PROVE  Kept
  <2>1. live' = live /\ sellers' = sellers /\ Open(q)
    BY <1>2 DEF Step, Fail, ReadMake, ReadModel, ReadClient, ReadSub,
                Reject, Insert, Duplicate, Unstorable, Writable
  <2>2. \A p \in Requests \ {q} : req'[p] = req[p]
    <3>1. PICK j \in Jobs : req' = [req EXCEPT ![q] = j]
      BY <1>t, <1>2, SteppedJob
    <3> QED
      BY <1>t, <3>1 DEF IntakeTypes
  <2>3. ASSUME NEW code, Answered(q, code), code # 404
        PROVE  Sound(q)'
    BY <2>1, <2>3, StopsWell
  <2>4. ASSUME NEW result \in Results, Bulk(q), Report(q, result)
        PROVE  Sound(q)'
    <3>1. PICK j \in Jobs :
             /\ req' = [req EXCEPT ![q] = j] /\ j.kind = "sheet"
             /\ j.found = Nothing
      BY <1>t, <2>1, <2>4, ReportedJob
    <3>2. req'[q] = j
      BY <1>t, <3>1 DEF IntakeTypes
    <3>3. Found(q)' = Nothing
      BY <3>1, <3>2 DEF Found
    <3> QED
      BY <3>1, <3>2, <3>3, NothingSays DEF Sound, Offer
  <2>5. CASE ReadMake(q) \/ ReadModel(q) \/ ReadClient(q) \/ ReadSub(q)
    BY <1>1, <2>1, <2>2, <2>5, QueryKeeps
  <2>6. CASE Reject(q)
    <3>1. Bulk(q) /\ Report(q, Wrong(Errors(q)))
      BY <2>6 DEF Reject
    <3> QED
      BY <1>1, <2>1, <2>2, <2>4, <3>1, ResultTypes
  <2>7. CASE Insert(q)
    <3>1. (Bulk(q) /\ Report(q, Created)) \/ Answered(q, 201)
      BY <2>7 DEF Insert
    <3> QED
      BY <1>1, <2>1, <2>2, <2>3, <2>4, <3>1, ResultTypes
  <2>8. CASE Duplicate(q)
    <3>1. (Bulk(q) /\ Report(q, Wrong({"chassis"}))) \/ Answered(q, 409)
      BY <2>8 DEF Duplicate
    <3> QED
      BY <1>1, <2>1, <2>2, <2>3, <2>4, <3>1, ResultTypes
  <2>9. CASE Unstorable(q) \/ Fail(q)
    <3>1. Answered(q, 500)
      BY <2>9 DEF Unstorable, Fail
    <3> QED
      BY <1>1, <2>1, <2>2, <2>3, <3>1
  <2> HIDE DEF Kept
  <2> QED
    BY <1>2, <2>5, <2>6, <2>7, <2>8, <2>9 DEF Step
<1>3. ASSUME NEW q \in Requests, NEW kind, NEW rows,
             Sendable(kind, rows), Submit(q, kind, rows)
      PROVE  Kept
  <2>1. PICK j \in Jobs : req' = [req EXCEPT ![q] = j] /\ Fresh(j, kind, rows)
    BY <1>t, <1>3, SubmittedJob
  <2>2. /\ live' = live /\ sellers' = sellers
        /\ req'[q] = j /\ \A p \in Requests \ {q} : req'[p] = req[p]
    BY <1>t, <1>3, <2>1 DEF Submit, IntakeTypes
  <2>3. Says(q)'
    BY <2>1, <2>2, NothingSays DEF Fresh, Found
  <2>4. Offer(q)'
    <3>1. /\ j.answer # 404 /\ j.rows = rows /\ j.at = 1
          /\ j.offered => OfferedForm(rows[1])
      BY <2>1 DEF Fresh
    <3>2. OfferedForm(rows[1])' <=> OfferedForm(rows[1])
      BY <2>2, SameOffer
    <3>3. Row(q)' = rows[1]
      BY <2>2, <3>1 DEF Row
    <3> QED
      BY <2>2, <3>1, <3>2, <3>3 DEF Offer
  <2> QED
    BY <1>1, <2>2, <2>3, <2>4 DEF Sound
<1>4. ASSUME NEW x \in Curated, Change(x)
      PROVE  Kept
  <2> SUFFICES ASSUME NEW p \in Requests, Sent(p)'
               PROVE  Sound(p)'
    OBVIOUS
  <2>1. CASE Open(p)
    BY <1>4, <2>1, ChangeKeeps
  <2>2. CASE ~Open(p)
    <3>1. req'[p] = req[p] /\ Sent(p) /\ ~Open(p)'
      BY <1>4, <2>2 DEF Change, Sent, Open
    <3>2. Alike(req'[p], req[p])
      BY <3>1 DEF Alike
    <3> QED
      BY <2>2, <3>1, <3>2, SameRow DEF Sound, Offer, LookupInv
  <2> QED
    BY <2>1, <2>2
<1>5. ASSUME UNCHANGED vars
      PROVE  Kept
  BY <1>5, OthersSound DEF vars
<1> HIDE DEF Kept
<1>6. Kept
  BY <1>2, <1>3, <1>4, <1>5 DEF Next, Sendable
<1> QED
  BY <1>t, <1>6 DEF Kept, LookupInv

(* A row without errors has found each of its cells, and the listing says  *)
(* so.                                                                     *)
LEMMA EnteredAsSaid ==
    ASSUME LookupInv, [Next]_vars,
           NEW l \in listings' \ listings
    PROVE  AsSaid(l)
<1> DEFINE q == l.request
<1> SUFFICES ASSUME Bulk(q) PROVE AsSaid(l)
  BY DEF AsSaid
<1> HIDE DEF q
<1>1. q \in Requests /\ Writable(q) /\ l = ListingOf(q)
  <2>1. PICK p \in Requests :
          Writable(p) /\ listings' = listings \cup {ListingOf(p)}
    BY DEF Next, vars, Submit, Step, Fail, Change, ReadMake, ReadModel,
           ReadClient, ReadSub, Reject, Insert, Duplicate, Unstorable
  <2>2. l = ListingOf(p)
    BY <2>1
  <2> QED
    BY <2>1, <2>2 DEF ListingOf, q
<1>2. /\ l.chassis = Row(q).chassis /\ l.make = Found(q).make
      /\ l.model = Found(q).model /\ l.client = Found(q).client
      /\ l.sub = Found(q).sub
  BY <1>1 DEF ListingOf
<1>3. /\ l.make # NoRow /\ l.model # NoRow /\ l.client # NoRow
      /\ Row(q).chassis # Blank /\ (Row(q).sub # Blank => l.sub # NoRow)
  <2>1. /\ \A f \in {"make", "model", "client"} : Found(q)[f] # NoRow
        /\ Row(q).chassis # Blank
        /\ Row(q).sub # Blank => Found(q).sub # NoRow
    BY <1>1 DEF Writable, Errors
  <2> QED
    BY <1>2, <2>1
<1>4. Says(q)
  BY <1>1 DEF LookupInv, Sound, Writable, Open, Sent
<1>5. /\ l.make \in Seen(q, Row(q).make)
      /\ l.model \in Seen(q, Row(q).model) /\ MakeOf[l.model] = l.make
      /\ l.client \in Seen(q, Row(q).client)
      /\ l.client \in sellers \cup req[q].changed
      /\ \/ l.sub = NoRow
         \/ l.sub \in Seen(q, Row(q).sub) /\ SellerOf[l.sub] = l.client
  BY <1>2, <1>3, <1>4 DEF Says
<1>6. ASSUME NEW cell
      PROVE  /\ cell = Blank => Seen(q, cell) = {}
             /\ cell # Blank => Seen(q, cell) \subseteq Bearing[cell]
             /\ Seen(q, cell) \subseteq live \cup req[q].changed
  BY DEF Seen, Stands
<1>7. /\ l.make \in Bearing[Row(q).make] /\ l.model \in Bearing[Row(q).model]
      /\ l.client \in Bearing[Row(q).client]
  BY <1>5, <1>6
<1>8. IF Row(q).sub = Blank THEN l.sub = NoRow
      ELSE l.sub \in {s \in Bearing[Row(q).sub] : SellerOf[s] = l.client}
  BY <1>3, <1>5, <1>6
<1>9. {l.make, l.model, l.client, l.sub} \ {NoRow}
         \subseteq live \cup req[q].changed
  BY <1>5, <1>6
<1> QED
  BY <1>2, <1>3, <1>5, <1>7, <1>8, <1>9 DEF AsSaid, q

(* A form filled from the dropdowns is not refused with 404 unless one of  *)
(* the rows it names was edited meanwhile                                  *)
(* (services/vehicle_intake_service.py:160-185).                           *)
THEOREM OffersHold == Spec => []OfferedIsAccepted
<1>1. Init => LookupInv
  BY LookupInvInit
<1>2. LookupInv /\ [Next]_vars => LookupInv'
  BY LookupInvStep
<1>3. LookupInv => OfferedIsAccepted
  BY DEF LookupInv, OfferedIsAccepted, Sound, Offer, Untouched, Sent
<1> QED
  BY <1>1, <1>2, <1>3, PTL DEF Spec

(* A row of a sheet enters the car it describes, however the reference     *)
(* data changes between its queries                                        *)
(* (services/vehicle_intake_service.py:284-358).                           *)
THEOREM SheetsAreFollowed == Spec => AsTheSheetSays
<1>1. Init => LookupInv
  BY LookupInvInit
<1>2. LookupInv /\ [Next]_vars => LookupInv'
  BY LookupInvStep
<1>3. LookupInv /\ [Next]_vars =>
         [\A l \in listings' \ listings : AsSaid(l)]_vars
  BY EnteredAsSaid
<1> QED
  BY <1>1, <1>2, <1>3, PTL DEF Spec, AsTheSheetSays

============================================================================
