----------------------------- MODULE EntBuilder -----------------------------
(***************************************************************************)
(* What a builder does between Save and its statement: it fills in the     *)
(* defaults, checks the mutation and writes the statement that inserts or  *)
(* changes rows. Operators over a schema, a mutation and a table; EntStore *)
(* puts them in the order of Save. One template generates the builders of  *)
(* the six entities; what differs between them is in the schema record.    *)
(***************************************************************************)
EXTENDS EntMutation, Sequences

-----------------------------------------------------------------------------
(* Defaults: only columns that nobody has set are filled in.               *)

DefaultValue(sch, c, now) == IF c \in sch.runtime.now THEN now ELSE Zero

FillIn(sch, m, C, now) ==
    SetColumns(m, [c \in C \ DOMAIN m.set |-> DefaultValue(sch, c, now)])

CreateDefaults(sch, m, now) == FillIn(sch, m, sch.createDefaults, now)

(* The update defaults are the functions of the create defaults of the     *)
(* same columns.                                                           *)
UpdateDefaults(sch, m, now) ==
    FillIn(sch, m, IF m.op = "UpdateOne" THEN sch.oneDefaults
                   ELSE sch.updateDefaults, now)

-----------------------------------------------------------------------------
(* Checks: no required column is missing, no validator refuses a value.    *)

Refuses(sch, c, v) == c \in sch.runtime.validators /\ v = Bad

ValidIn(sch, m, C) ==
    \A c \in C \cap DOMAIN m.set : ~Refuses(sch, c, m.set[c])

CreateCheck(sch, m) ==
    /\ sch.createCheck.required \subseteq DOMAIN m.set
    /\ ValidIn(sch, m, sch.createCheck.valid)

UpdateCheck_Skipped(sch, m) == TRUE

(* An update checks the values it has and requires none. *)
UpdateCheck(sch, m) ==
    ValidIn(sch, m, IF m.op = "UpdateOne" THEN sch.oneCheck ELSE sch.updateCheck)

Check(sch, m) ==
    CASE m.op = "Create" -> CreateCheck(sch, m)
      [] m.op \in {"Update", "UpdateOne"} -> UpdateCheck(sch, m)
      [] OTHER -> TRUE

-----------------------------------------------------------------------------
(* Statements.                                                             *)

Given(sch, m) == DOMAIN m.set \cap sch.inserted

(* The row of an INSERT: the database fills in what the builder left out.  *)
InsertedRow(sch, m) ==
    [c \in sch.columns |->
        IF c \in Given(sch, m) THEN m.set[c]
        ELSE IF c \in sch.table.default THEN Zero ELSE Nil]

(* The entity that Create.Save returns is made from the mutation, without  *)
(* reading the row back.                                                   *)
CreatedNode(sch, m) ==
    [c \in sch.columns |->
        IF c \in Given(sch, m) THEN m.set[c]
        ELSE IF c \in sch.readAsPointer THEN Nil ELSE Zero]

Written(sch, m) == IF m.op = "UpdateOne" THEN sch.oneWritten ELSE sch.written

ChangedBy(sch, m) ==
    LET w == Written(sch, m)
    IN (DOMAIN m.set \cap w.set) \cup (DOMAIN m.added \cap w.add)
          \cup (m.cleared \cap w.clear)

(* A row after the UPDATE ... SET of the columns that the mutation has. *)
UpdatedRow_Whole(sch, m, row) ==
    [c \in DOMAIN row |-> IF c \in DOMAIN m.set THEN m.set[c] ELSE Zero]

UpdatedRow_ByName(sch, m, row) ==
    [c \in DOMAIN row |-> IF c \in DOMAIN m.set THEN m.set[c] ELSE row[c]]

UpdatedRow(sch, m, row) ==
    LET w == Written(sch, m)
    IN [c \in DOMAIN row |->
            IF c \in m.cleared \cap w.clear THEN Nil
            ELSE IF c \in DOMAIN m.set \cap w.set THEN m.set[c]
            ELSE IF c \in DOMAIN m.added \cap w.add THEN row[c] + m.added[c]
            ELSE row[c]]

Targets(m, table) ==
    IF m.op \in {"UpdateOne", "DeleteOne"} THEN {m.id} \cap DOMAIN table
    ELSE Matching(m.ps, table)

AfterUpdate(sch, m, table) ==
    [i \in DOMAIN table |->
        IF i \in Targets(m, table) THEN UpdatedRow(sch, m, table[i]) ELSE table[i]]

(* UpdateNodes sends nothing for a mutation without columns. *)
Affected(sch, m, table) ==
    IF ChangedBy(sch, m) = {} THEN 0 ELSE Cardinality(Targets(m, table))

AfterDelete(m, table) == [i \in DOMAIN table \ Targets(m, table) |-> table[i]]

(* The rows of one INSERT, with ids from the table's sequence. *)
AfterInsert_Partial(sch, ms, table, next) ==
    [i \in DOMAIN table \cup {next} |->
        IF i = next THEN InsertedRow(sch, ms[1]) ELSE table[i]]

AfterInsert(sch, ms, table, next) ==
    [i \in DOMAIN table \cup next .. next + Len(ms) - 1 |->
        IF i < next THEN table[i] ELSE InsertedRow(sch, ms[i - next + 1])]

(* The unique index: no two rows with the same key. *)
UniqueKeys(sch, table) ==
    \A i, j \in DOMAIN table :
        i # j => \E c \in sch.table.key : table[i][c] # table[j][c]

=============================================================================
