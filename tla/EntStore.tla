------------------------------- MODULE EntStore -----------------------------
(***************************************************************************)
(* One table and the builders that several goroutines run against it. A    *)
(* builder is opened and given its calls; Save fills in the defaults, runs *)
(* the client's hook and the checks, and sends one statement; the driver   *)
(* may fail before the statement has an effect or lose the answer after    *)
(* it, and the caller may save the same builder again.                     *)
(*                                                                         *)
(* The defaults, the hook and the check of one Save touch nothing that is  *)
(* shared: Save is one step, the statement another. A question for an old  *)
(* value is a statement of its own, before or after either.                *)
(***************************************************************************)
EXTENDS EntBuilder

CONSTANTS Schemas,   \* the name of a table -> its schema
          Session,   \* the goroutines
          Client,    \* those that may make any call of a builder; the others
                     \* make only the plain ones
          Seed,      \* who wrote the rows of the start
          Ids,       \* bound: ids that callers name
          Chained,   \* bound: tables whose builders are given more calls ...
          MaxNamed,  \* ... until they name so many columns
          MaxAdded,  \* ... or add so much
          MaxKey,    \* bound: values of a key column
          MaxSaves   \* bound: how often one builder is saved

(* A row and a mutation can tell all values apart. *)
ASSUME ValueAssumption ==
    /\ Nil # Bad /\ Zero \notin {Nil, Bad} /\ Seed \notin {Nil, Zero, Bad}
    /\ Session \cap {Nil, Zero, Bad, Seed} = {}
    /\ (Session \cup {Nil, Zero, Bad, Seed}) \cap Int = {}

(* What the generator derives from one field in several places fits        *)
(* together: checks know all validators, updates leave out what is         *)
(* immutable and clear only what may be NULL, an insert cannot leave out a *)
(* column that is neither NULL nor filled in by the table.                 *)
Fitting(sc) ==
    /\ sc.runtime.validators \subseteq
           sc.createCheck.valid \cap sc.updateCheck \cap sc.oneCheck
    /\ sc.columns \ (sc.table.default \cup sc.table.null) \subseteq
           sc.createCheck.required \cap sc.inserted
    /\ sc.readAsPointer \cap sc.table.default = {}
    /\ \A w \in {sc.written, sc.oneWritten} :
          /\ w.clear \subseteq sc.table.null
          /\ (w.set \cup w.add \cup w.clear) \cap sc.immutable = {}
          /\ w.add \subseteq sc.table.key \ (sc.runtime.validators \cup sc.table.null
                                                  \cup sc.table.default)
    /\ (sc.createDefaults \cup sc.updateDefaults \cup sc.oneDefaults) \cap sc.table.key = {}
    /\ UNION {sc.immutable, sc.table.key, sc.createCheck.required, sc.createSets,
              sc.createDefaults, sc.updateDefaults, sc.oneDefaults, sc.methods.set,
              sc.setByName, sc.methods.clear, sc.editByName.clear, sc.editByName.reset,
              sc.updateSets.set, sc.updateSets.clear, sc.updateSets.add, sc.oneSets.set,
              sc.oneSets.clear, sc.oneSets.add, sc.predicates.null} \subseteq sc.columns

ASSUME IdAssumption == Ids \subseteq Int

ASSUME SchemaAssumption == \A t \in DOMAIN Schemas : Fitting(Schemas[t])

VARIABLES entity,  \* the table
          hook,    \* whether the client has a hook
          rows,    \* id -> row
          nextId,  \* the table's sequence
          b        \* goroutine -> its builder

storeVars == <<entity, hook, rows, nextId, b>>

sch == Schemas[entity]

NoAnswer == [is |-> "none", n |-> 0, nodes |-> [i \in {} |-> Nil]]
Answer(is, n, nodes) == [is |-> is, n |-> n, nodes |-> nodes]

Idle == [phase |-> "idle", muts |-> << >>, saves |-> 0, ans |-> NoAnswer]

SeedRow(sc, k) ==
    [c \in sc.columns |-> IF c \in sc.table.key THEN k
                          ELSE IF c \in sc.table.null THEN Nil ELSE Seed]

StoreInit(Tables, n, hooked) ==
    /\ entity \in Tables
    /\ hook = hooked
    /\ rows = [i \in 1 .. n |-> SeedRow(sch, i)]
    /\ nextId = n + 1
    /\ b = [s \in Session |-> Idle]

-----------------------------------------------------------------------------
(* Opening a builder: the entity client's method and the calls on it.      *)

Values(s, c) ==
    (IF c \in sch.table.key THEN 1 .. MaxKey ELSE {s})
        \cup {v \in {Bad} : s \in Client /\ c \in sch.runtime.validators}

(* The ways to set the columns of C, one refused value at most. *)
Settings(s, C) ==
    {f \in [C -> UNION {Values(s, c) : c \in C}] :
        /\ \A c \in C : f[c] \in Values(s, c)
        /\ Cardinality({c \in C : f[c] = Bad}) <= 1}

Open(s, ms) ==
    /\ b' = [b EXCEPT ![s].phase = "open", ![s].muts = ms]
    /\ UNCHANGED <<entity, hook, rows, nextId>>

MustSet == sch.createCheck.required \ sch.createDefaults

(* A create is given what it must set, give or take one column. *)
CreateColumns(s) ==
    {MustSet} \cup
    IF s \in Client THEN {MustSet \ {c} : c \in MustSet}
                            \cup {MustSet \cup {c} : c \in sch.createSets}
    ELSE {}

OpenCreate(s) ==
    \E C \in CreateColumns(s) : \E f \in Settings(s, C) :
        Open(s, <<SetColumns(NewMutation("Create", 0), f)>>)

OpenCreateBulk(s) ==
    \E f, g \in Settings(s, MustSet) :
        Open(s, <<SetColumns(NewMutation("Create", 0), f),
                  SetColumns(NewMutation("Create", 0), g)>>)

(* One call of an update builder. *)
UpdateCalls(s, m, calls) ==
    {SetColumns(m, f) : f \in UNION {Settings(s, {c}) : c \in calls.set}}
        \cup {ClearColumns(m, {c}) : c \in calls.clear}
        \cup {AddColumn(m, c, 1) : c \in calls.add}

Predicates ==
    {{}} \cup {{[c |-> c, in |-> {1}]} : c \in sch.table.key \cap sch.predicates.eq}
         \cup {{[c |-> c, in |-> {Nil}]} : c \in sch.predicates.null}

OpenUpdate(s) ==
    \E ps \in Predicates :
    \E m \in UpdateCalls(s, [NewMutation("Update", 0) EXCEPT !.ps = ps],
                         sch.updateSets) : Open(s, <<m>>)

(* UpdateOneID knows the id only, UpdateOne has the entity for its old     *)
(* values.                                                                 *)
OpenUpdateOneID(s, i) ==
    \E m \in UpdateCalls(s, NewMutation("UpdateOne", i), sch.oneSets) :
        Open(s, <<m>>)

OpenUpdateOne(s, i) ==
    /\ i \in DOMAIN rows
    /\ \E m \in UpdateCalls(s, [NewMutation("UpdateOne", i) EXCEPT
                                   !.old = [state |-> "read", row |-> Scan(sch, rows[i])]],
                            sch.oneSets) : Open(s, <<m>>)

OpenDelete(s) ==
    \E ps \in Predicates : Open(s, <<[NewMutation("Delete", 0) EXCEPT !.ps = ps]>>)

OpenDeleteOne(s, i) == Open(s, <<NewMutation("DeleteOne", i)>>)

(* The calls that a builder of each kind has. *)
Offered(op) ==
    CASE op = "Create" -> [set |-> sch.createSets, clear |-> {}, add |-> {}]
      [] op = "Update" -> sch.updateSets
      [] OTHER         -> sch.oneSets

(* A chain of calls: one more on an open builder. What is set is not also  *)
(* cleared or added to.                                                    *)
CallAgain(s) ==
    /\ entity \in Chained /\ b[s].phase = "open"
    /\ \E k \in DOMAIN b[s].muts :
          LET m == b[s].muts[k]
          IN /\ m.op \in {"Create", "Update", "UpdateOne"}
             /\ \E n \in UpdateCalls(s, m, Offered(m.op)) :
                   /\ DOMAIN n.set \cap (DOMAIN n.added \cup n.cleared) = {}
                   /\ Cardinality(Touched(n)) <= MaxNamed
                   /\ \A c \in DOMAIN n.added : n.added[c] <= MaxAdded
                   /\ b' = [b EXCEPT ![s].muts[k] = n]
    /\ UNCHANGED <<entity, hook, rows, nextId>>

-----------------------------------------------------------------------------
(* Save: defaults, then the hook.                                          *)

(* What a hook may do to a mutation: one call of its methods, typed or by  *)
(* name; it sets columns that the unique index does not need, to a refused *)
(* value where there is one. A column is not both set and cleared.         *)
HookCalls(s, m) ==
    LET settable == (sch.methods.set \cup sch.setByName) \ (sch.table.key \cup m.cleared)
        Value(c) == IF c \in sch.runtime.validators THEN Bad ELSE s
    IN {SetColumns(m, [x \in {c} |-> Value(c)]) : c \in settable}
       \cup {ClearColumns(m, {c}) : c \in sch.methods.clear \cup sch.editByName.clear}
       \cup {ResetColumn(m, c) : c \in sch.editByName.reset}

Defaults(s, m) ==
    CASE m.op = "Create" -> CreateDefaults(sch, m, s)
      [] m.op \in {"Update", "UpdateOne"} -> UpdateDefaults(sch, m, s)
      [] OTHER -> m

(* The hook that does its work in the first Save finds it done in a later. *)
withHooks(s, ms) ==
    {ms} \cup
    IF hook /\ s \in Client /\ b[s].saves = 0 /\ ms[1].op \in {"Create", "Update", "UpdateOne"}
    THEN {[ms EXCEPT ![1] = m] : m \in HookCalls(s, ms[1])}
    ELSE {}

Save(s) ==
    /\ \/ b[s].phase = "open"
       \/ b[s].phase = "closed" /\ b[s].ans.is = "error" /\ b[s].saves < MaxSaves
    /\ \E ms \in withHooks(s, [k \in DOMAIN b[s].muts |-> Defaults(s, b[s].muts[k])]) :
          b' = [b EXCEPT ![s] = [phase |-> "saving", muts |-> ms,
                                 saves |-> @.saves + 1, ans |-> NoAnswer]]
    /\ UNCHANGED <<entity, hook, rows, nextId>>

(* A question for an old value, from a hook or from the caller. *)
AskOld(s) ==
    /\ b[s].phase # "idle"
    /\ b[s].muts[1].op = "UpdateOne" /\ b[s].muts[1].old = Unread
    /\ b' = [b EXCEPT ![s].muts[1].old = OldValue(sch, b[s].muts[1], rows)]
    /\ UNCHANGED <<entity, hook, rows, nextId>>

-----------------------------------------------------------------------------
(* The statement and its answer.                                           *)

(* What is left of a mutation that will not be saved again, and of all.    *)
Spent(m, done) == [NewMutation(m.op, m.id) EXCEPT !.done = done, !.old = m.old]

Left(s, ans, done) ==
    LET ms == b[s].muts
    IN IF ans.is = "error" THEN [k \in DOMAIN ms |-> [ms[k] EXCEPT !.done = done]]
       ELSE [k \in DOMAIN ms |-> Spent(ms[k], done)]

Close(s, ans, done) ==
    b' = [b EXCEPT ![s] = [phase |-> "closed", muts |-> Left(s, ans, done),
                           saves |-> @.saves, ans |-> ans]]

(* The statement took effect: the answer arrives, or only an error does. A *)
(* delete is done either way.                                              *)
Effect(s, after, ans) ==
    /\ rows' = after
    /\ \/ Close(s, ans, TRUE)
       \/ Close(s, Answer("error", 0, NoAnswer.nodes),
                b[s].muts[1].op \in {"Delete", "DeleteOne"})
    /\ UNCHANGED <<entity, hook>>

NoEffect(s, is) ==
    /\ Close(s, Answer(is, 0, NoAnswer.nodes), FALSE)
    /\ UNCHANGED <<entity, hook, rows, nextId>>

Sending(s, op) == b[s].phase = "saving" /\ b[s].muts[1].op = op

Checked(s) == \A k \in DOMAIN b[s].muts : Check(sch, b[s].muts[k])

CheckRefuses(s) ==
    /\ b[s].phase = "saving" /\ ~Checked(s)
    /\ NoEffect(s, "invalid")

(* CreateNode of one row, or BatchCreate of all of a bulk. *)
Insert(s) ==
    /\ Sending(s, "Create") /\ Checked(s)
    /\ LET ms == b[s].muts
           after == AfterInsert(sch, ms, rows, nextId)
           nodes == [i \in nextId .. nextId + Len(ms) - 1 |->
                        CreatedNode(sch, ms[i - nextId + 1])]
       IN IF UniqueKeys(sch, after)
          THEN /\ Effect(s, after, Answer("ok", Len(ms), nodes))
               /\ nextId' = nextId + Len(ms)
          ELSE NoEffect(s, "constraint")

UpdateNodes(s) ==
    /\ Sending(s, "Update") /\ Checked(s)
    /\ LET m == b[s].muts[1]
           after == AfterUpdate(sch, m, rows)
       IN IF UniqueKeys(sch, after)
          THEN /\ Effect(s, after, Answer("ok", Affected(sch, m, rows), NoAnswer.nodes))
               /\ UNCHANGED nextId
          ELSE NoEffect(s, "constraint")

(* UpdateNode answers with the row as it is after the update. *)
UpdateNode(s) ==
    /\ Sending(s, "UpdateOne") /\ Checked(s)
    /\ LET m == b[s].muts[1]
           after == AfterUpdate(sch, m, rows)
       IN CASE m.id \notin DOMAIN rows -> NoEffect(s, "notfound")
            [] m.id \in DOMAIN rows /\ ~UniqueKeys(sch, after) -> NoEffect(s, "constraint")
            [] OTHER -> /\ Effect(s, after, Answer("ok", 1,
                                   [i \in {m.id} |-> Scan(sch, after[i])]))
                        /\ UNCHANGED nextId

DeleteNodes(s) ==
    /\ Sending(s, "Delete")
    /\ LET m == b[s].muts[1]
       IN Effect(s, AfterDelete(m, rows),
                 Answer("ok", Cardinality(Targets(m, rows)), NoAnswer.nodes))
    /\ UNCHANGED nextId

(* DeleteOne turns "no row" into an error of its own. *)
DeleteNode(s) ==
    /\ Sending(s, "DeleteOne")
    /\ LET m == b[s].muts[1]
           n == Cardinality(Targets(m, rows))
       IN Effect(s, AfterDelete(m, rows),
                 Answer(IF n = 0 THEN "notfound" ELSE "ok", n, NoAnswer.nodes))
    /\ UNCHANGED nextId

(* The driver fails before the statement has an effect. *)
DriverFails(s) ==
    /\ b[s].phase = "saving" /\ Checked(s)
    /\ Close(s, Answer("error", 0, NoAnswer.nodes),
             b[s].muts[1].op \in {"Delete", "DeleteOne"})
    /\ UNCHANGED <<entity, hook, rows, nextId>>

Saving(s) ==
    \/ Save(s) \/ CheckRefuses(s) \/ DriverFails(s)
    \/ Insert(s) \/ UpdateNodes(s) \/ UpdateNode(s) \/ DeleteNodes(s) \/ DeleteNode(s)

(* Any caller of the generated API. Only a Client uses the builders that   *)
(* change or delete many rows, and asks for old values.                    *)
Opening(s) ==
    /\ b[s].phase = "idle"
    /\ \/ OpenCreate(s)
       \/ \E i \in Ids : OpenUpdateOneID(s, i) \/ OpenDeleteOne(s, i)
       \/ /\ s \in Client
          /\ \/ OpenCreateBulk(s) \/ OpenUpdate(s) \/ OpenDelete(s)
             \/ \E i \in Ids : OpenUpdateOne(s, i)

AnyCaller(s) == Opening(s) \/ (s \in Client /\ (CallAgain(s) \/ AskOld(s)))

StoreNext == \E s \in Session : AnyCaller(s) \/ Saving(s)

StoreSpec == StoreInit(DOMAIN Schemas, 1, TRUE) /\ [][StoreNext]_storeVars

-----------------------------------------------------------------------------
(* Properties.                                                             *)

Both == DOMAIN rows \cap DOMAIN rows'

(* A step changes only columns that its builder was given, in rows that    *)
(* its builder speaks of: two goroutines that update different columns of  *)
(* one row never undo each other (the sqlSave methods, which send the set  *)
(* columns and nothing read earlier).                                      *)
OnlyWhatWasSet ==
    [][\A i \in Both : \A c \in DOMAIN rows[i] :
          rows'[i][c] # rows[i][c] =>
              \E s \in Session :
                  /\ b[s].phase = "saving" /\ b'[s].phase = "closed"
                  /\ i \in Targets(b[s].muts[1], rows)
                  /\ c \in Touched(b[s].muts[1])]_storeVars

(* No update changes a column that the schema declares immutable, although *)
(* a hook can set it on the mutation of any update (Immutable in schema/,  *)
(* honoured by the sqlSave methods only).                                  *)
ImmutableStay ==
    [][\A i \in Both : \A c \in sch.immutable : rows'[i][c] = rows[i][c]]_storeVars

(* Whatever the builder is given, and whatever the hook does after the     *)
(* defaults, no row holds a value that a validator refuses, or NULL where  *)
(* the table has no NULLs: check runs after the hooks.                     *)
EveryRowValid ==
    \A i \in DOMAIN rows : \A c \in sch.columns :
        /\ ~Refuses(sch, c, rows[i][c])
        /\ rows[i][c] = Nil => c \in sch.table.null

(* The old value that a mutation hands out was written by someone else,    *)
(* unless an earlier Save of the same builder lost its answer (withUserID: *)
(* no old values once done is set).                                        *)
OldIsCommitted ==
    \A s \in Session : b[s].saves <= 1 /\ b[s].ans.is # "error" =>
        \A k \in DOMAIN b[s].muts :
            b[s].muts[k].old.state = "read" =>
                \A c \in sch.columns : b[s].muts[k].old.row[c] # s

(* What an answer to s says of the table, before and after the statement.  *)
AnswerFits(s, ans) ==
    LET m == b[s].muts[1]
        new == DOMAIN rows' \ DOMAIN rows
    IN /\ new # {} => Cardinality(new) = Len(b[s].muts)
       /\ ans.is = "ok" /\ m.op = "Create" => new = DOMAIN ans.nodes
       /\ \A i \in DOMAIN ans.nodes : ans.nodes[i] = Scan(sch, rows'[i])
       /\ ans.is = "ok" /\ m.op = "Update" =>
             Cardinality({i \in Both : rows'[i] # rows[i]}) <= ans.n
       /\ ans.is \in {"invalid", "constraint", "notfound"} => rows' = rows
       /\ ans.is = "notfound" => m.id \notin DOMAIN rows

(* An answer is true of the table: a refusal left it alone, an insert has  *)
(* made all of its rows and returns each as it would be read, an update    *)
(* counts the rows that it may have changed, "not found" is not there.     *)
AnswerIsTrue ==
    [][\A s \in Session : b[s].phase = "saving" /\ b'[s].phase = "closed" =>
          AnswerFits(s, b'[s].ans)]_storeVars

=============================================================================
