-------------------------- MODULE MCVehicleIntake --------------------------
(***************************************************************************)
(* Values of VehicleIntake's constants for TLC: two makes that share a     *)
(* model label, two clients of one name, a sub-seller of each.             *)
(***************************************************************************)
EXTENDS VehicleIntake, TLC

CONSTANTS toyota, nissan, corolla, patrol, ali, omar, deputy, agent, v1, v2

TwoModels == corolla :> toyota @@ patrol :> nissan
Contacts  == deputy :> ali @@ agent :> omar

Names ==
    "make" :> {toyota} @@ "model" :> {corolla, patrol}
        @@ "name" :> {ali, omar} @@ "contact" :> {deputy, agent}
        @@ "typo" :> {}

Line(chassis, model, rest) ==
    [chassis |-> chassis, make |-> "make", model |-> model, rest |-> rest,
     client |-> "name", sub |-> "contact"]

(* Good rows around a bad one, and the same car twice.                     *)
SomeSheets ==
    LET good == Line(v1, "model", "valid")
        sole == [good EXCEPT !.chassis = v2, !.sub = Blank]
    IN  { <<good, sole>>, <<good, good>>,
          <<Line(v1, "typo", "unknown"), sole>>,
          <<sole, Line(Blank, "model", "valid")>>,
          <<sole, Line(v1, "model", "unstorable"), good>> }

SomeForms ==
    LET form == [chassis |-> v1, make |-> toyota, model |-> corolla,
                 rest |-> "valid", client |-> ali, sub |-> deputy]
    IN  {form, [form EXCEPT !.sub = Blank], [form EXCEPT !.model = patrol],
         [form EXCEPT !.sub = agent]}

Symmetry == Permutations(Requests)

============================================================================
