----------------------------- MODULE EntMutation ----------------------------
(***************************************************************************)
(* The mutation that every ent builder fills in before its statement, and  *)
(* the queries that read rows, as values: the methods of UserMutation and  *)
(* UserQuery stand for those of the six generated entities, which come     *)
(* from one template and differ in the columns only (EntAccountSchema and  *)
(* EntRbacSchema).                                                         *)
(*                                                                         *)
(* A column's value is what the properties tell apart: who wrote it, the   *)
(* zero value of its type, NULL, a value its validator refuses, or, for    *)
(* the columns of the unique index, a small number.                        *)
(***************************************************************************)
EXTENDS Integers, FiniteSets

CONSTANTS Nil,   \* NULL in a row, nil in an entity
          Zero,  \* the zero value of a column's Go type
          Bad    \* a value that the column's validator refuses

(* NULL reads as the zero value except in columns scanned into a pointer.  *)
Scan(sch, row) ==
    [c \in DOMAIN row |->
        IF row[c] = Nil /\ c \notin sch.readAsPointer THEN Zero ELSE row[c]]

-----------------------------------------------------------------------------
(* Queries: a set of predicates, a limit and an offset over rows by id.    *)

(* A predicate accepts a set of values of one column, or of the id. *)
Holds(p, i, row) == (IF p.c = "id" THEN i ELSE row[p.c]) \in p.in

NewQuery == [ps |-> {}, limit |-> 0, offset |-> 0]  \* limit 0: not set

Where(q, p) == [q EXCEPT !.ps = @ \cup {p}]

Matching(ps, table) == {i \in DOMAIN table : \A p \in ps : Holds(p, i, table[i])}

Count_Unfiltered(q, table) == Cardinality(DOMAIN table)

(* Count of a query without limit or offset. *)
Count(q, table) == Cardinality(Matching(q.ps, table))

All_NoOffset(q, table) ==
    {i \in Matching(q.ps, table) :
        q.limit = 0 \/ Cardinality({j \in Matching(q.ps, table) : j > i}) < q.limit}

(* The page of ids that Order(Desc(id)).Limit.Offset.All returns. *)
All(q, table) ==
    LET match == Matching(q.ps, table)
        Before(i) == Cardinality({j \in match : j > i})
    IN {i \in match : /\ Before(i) >= q.offset
                      /\ q.limit = 0 \/ Before(i) < q.offset + q.limit}

(* Only: the one match, or which of the two errors says there is not one.  *)
Only(q, table) ==
    LET match == Matching(q.ps, table)
    IN IF Cardinality(match) = 1
       THEN [err |-> "nil", id |-> CHOOSE i \in match : TRUE]
       ELSE [err |-> IF match = {} THEN "NotFound" ELSE "NotSingular"]

Get(i, table) == Only(Where(NewQuery, [c |-> "id", in |-> {i}]), table)

-----------------------------------------------------------------------------
(* Mutations: which columns are set, to what, added to or cleared.         *)

Unread == [state |-> "unread"]
NoOld == [state |-> "failed"]

NewMutation(op, id) ==
    [op |-> op, id |-> id, set |-> [c \in {} |-> Nil], added |-> [c \in {} |-> 0],
     cleared |-> {}, ps |-> {}, done |-> FALSE, old |-> Unread]

Without(f, C) == [c \in DOMAIN f \ C |-> f[c]]

(* SetX of every column of f: the value replaces what was set or added. *)
SetColumns(m, f) ==
    [m EXCEPT !.set = [c \in DOMAIN @ \cup DOMAIN f |->
                          IF c \in DOMAIN f THEN f[c] ELSE @[c]],
              !.added = Without(@, DOMAIN f)]

AddColumn(m, c, n) ==
    [m EXCEPT !.added = [x \in DOMAIN @ \cup {c} |->
                            IF x # c THEN @[x]
                            ELSE n + IF c \in DOMAIN @ THEN @[c] ELSE 0]]

ClearColumns(m, C) ==
    [m EXCEPT !.set = Without(@, C), !.cleared = @ \cup C]

ResetColumn(m, c) ==
    [m EXCEPT !.set = Without(@, {c}), !.added = Without(@, {c}),
              !.cleared = @ \ {c}]

(* The columns that a mutation speaks of. *)
Touched(m) == DOMAIN m.set \cup DOMAIN m.added \cup m.cleared

(* The row as it was: read at the first question, and only by an UpdateOne *)
(* that has not saved yet; the first answer is kept.                       *)
OldValue_AfterSave(sch, m, table) ==
    IF m.old # Unread THEN m.old
    ELSE LET got == Get(m.id, table)
         IN IF got.err = "nil"
            THEN [state |-> "read", row |-> Scan(sch, table[got.id])]
            ELSE NoOld

OldValue(sch, m, table) ==
    IF m.old # Unread THEN m.old
    ELSE LET got == Get(m.id, table)
         IN IF ~m.done /\ got.err = "nil"
            THEN [state |-> "read", row |-> Scan(sch, table[got.id])]
            ELSE NoOld

=============================================================================
