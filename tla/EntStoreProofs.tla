---------------------------- MODULE EntStoreProofs ----------------------------
(***************************************************************************)
(* Facts about the generated client, for any schema, any number of         *)
(* goroutines and any values: what the methods of a mutation do, what a    *)
(* row and a table are after a statement, and that a builder and its table *)
(* stay in order whatever the callers, the hook and the driver do.         *)
(*                                                                         *)
(* StoreInv is the invariant. Valid rows are not enough for an induction:  *)
(* a row is valid after a statement because the mutation was checked, and  *)
(* the check speaks of the value set, so the invariant types every         *)
(* mutation (Mutation, Numeric) and every row. That an old value is not    *)
(* the builder's own needs the table to hold nothing of a session that     *)
(* cannot have written yet (OthersOnly), which is why the values of        *)
(* sessions are told apart (ValueAssumption) and why HasWritten follows    *)
(* the saves and answers of a builder and not only its phase.              *)
(***************************************************************************)
EXTENDS EntStore, FiniteSetTheorems, TLAPS

-----------------------------------------------------------------------------
(* Mutations: what each method of a builder leaves.                        *)

Op == {"Create", "Update", "UpdateOne", "Delete", "DeleteOne"}

(* What a column may hold, and what a builder of s may put there. *)
Value == Int \cup Session \cup {Nil, Zero, Bad, Seed}
Wanted(s) == Int \cup {s, Zero, Bad}

(* The columns that a statement may add a number to. *)
Counters(sc) == sc.written.add \cup sc.oneWritten.add

(* Functions on some of the columns. *)
ColumnMap(C, V) == UNION {[D -> V] : D \in SUBSET C}

Old(sc) == {Unread, NoOld} \cup [state : {"read"}, row : [sc.columns -> Value]]

Predicate(sc) == [c : sc.columns, in : SUBSET (Int \cup {Nil})]

Mutation(sc, s) ==
    [op : Op, id : Int,
     set : ColumnMap(sc.columns, Wanted(s)), added : ColumnMap(sc.columns, Int),
     cleared : SUBSET sc.columns, ps : SUBSET Predicate(sc),
     done : BOOLEAN, old : Old(sc)]

(* n is m after more calls of its methods. *)
Continues(n, m) ==
    n.op = m.op /\ n.id = m.id /\ n.ps = m.ps /\ n.done = m.done /\ n.old = m.old

Numeric(sc, f) == \A c \in Counters(sc) \cap DOMAIN f : f[c] \in Int

(* Membership in ColumnMap, spelled out for the provers. *)
LEMMA MapIs ==
  ASSUME NEW C, NEW V, NEW f
  PROVE  f \in ColumnMap(C, V) <=>
            /\ f = [c \in DOMAIN f |-> f[c]]
            /\ DOMAIN f \subseteq C
            /\ \A c \in DOMAIN f : f[c] \in V
<1>1. ASSUME f \in ColumnMap(C, V)
      PROVE  /\ f = [c \in DOMAIN f |-> f[c]]
             /\ DOMAIN f \subseteq C
             /\ \A c \in DOMAIN f : f[c] \in V
  BY <1>1 DEF ColumnMap
<1>2. ASSUME f = [c \in DOMAIN f |-> f[c]], DOMAIN f \subseteq C,
             \A c \in DOMAIN f : f[c] \in V
      PROVE  f \in ColumnMap(C, V)
  <2>1. f \in [DOMAIN f -> V]
    BY <1>2
  <2> QED
    BY <1>2, <2>1 DEF ColumnMap
<1> QED
  BY <1>1, <1>2

(* A function on a set of columns is a map of columns. *)
LEMMA MakesMap ==
  ASSUME NEW C, NEW V, NEW D \in SUBSET C, NEW f \in [D -> V]
  PROVE  f \in ColumnMap(C, V)
BY DEF ColumnMap

(* newMutation gives a mutation that sets, adds and clears nothing. *)
LEMMA NewMutationIs ==
  ASSUME NEW sc, NEW s, NEW op \in Op, NEW id \in Int
  PROVE  LET m == NewMutation(op, id)
         IN /\ m \in Mutation(sc, s)
            /\ m.op = op /\ m.id = id /\ m.ps = {} /\ ~m.done /\ m.old = Unread
            /\ DOMAIN m.set = {} /\ DOMAIN m.added = {} /\ m.cleared = {}
<1>1. [c \in {} |-> Nil] \in ColumnMap(sc.columns, Wanted(s))
  BY MakesMap, [c \in {} |-> Nil] \in [{} -> Wanted(s)]
<1>2. [c \in {} |-> 0] \in ColumnMap(sc.columns, Int)
  BY MakesMap, [c \in {} |-> 0] \in [{} -> Int]
<1> QED
  BY <1>1, <1>2 DEF NewMutation, Mutation, Old

(* A setter (Set<Column>, SetField): what it sets, and that it takes back  *)
(* what was to be added to the same column and leaves the columns to clear *)
(* alone.                                                                  *)
LEMMA SetColumnsIs ==
  ASSUME NEW sc, NEW s, NEW m \in Mutation(sc, s),
         NEW f \in ColumnMap(sc.columns, Wanted(s))
  PROVE  LET n == SetColumns(m, f)
         IN /\ n \in Mutation(sc, s)
            /\ Continues(n, m)
            /\ n.cleared = m.cleared
            /\ DOMAIN n.set = DOMAIN m.set \cup DOMAIN f
            /\ DOMAIN n.added = DOMAIN m.added \ DOMAIN f
            /\ \A c \in DOMAIN f : n.set[c] = f[c]
            /\ \A c \in DOMAIN m.set \ DOMAIN f : n.set[c] = m.set[c]
<1> DEFINE g == [c \in DOMAIN m.set \cup DOMAIN f |-> IF c \in DOMAIN f THEN f[c] ELSE m.set[c]]
           h == Without(m.added, DOMAIN f)
<1>1. m.set \in ColumnMap(sc.columns, Wanted(s)) /\ m.added \in ColumnMap(sc.columns, Int)
  BY DEF Mutation
<1>2. g \in ColumnMap(sc.columns, Wanted(s))
  <2>1. DOMAIN m.set \cup DOMAIN f \subseteq sc.columns
    BY <1>1, MapIs
  <2>2. \A c \in DOMAIN m.set \cup DOMAIN f : g[c] \in Wanted(s)
    BY <1>1, MapIs
  <2> QED
    BY <2>1, <2>2, MakesMap
<1>3. h \in ColumnMap(sc.columns, Int)
  <2>1. DOMAIN m.added \ DOMAIN f \subseteq sc.columns
    BY <1>1, MapIs
  <2>2. \A c \in DOMAIN m.added \ DOMAIN f : h[c] \in Int
    BY <1>1, MapIs DEF Without
  <2> QED
    BY <2>1, <2>2, MakesMap DEF Without
<1>4. SetColumns(m, f) = [m EXCEPT !.set = g, !.added = h]
  BY DEF SetColumns
<1>5. DOMAIN g = DOMAIN m.set \cup DOMAIN f /\ DOMAIN h = DOMAIN m.added \ DOMAIN f
  BY DEF Without
<1>6. /\ \A c \in DOMAIN f : g[c] = f[c]
      /\ \A c \in DOMAIN m.set \ DOMAIN f : g[c] = m.set[c]
  OBVIOUS
<1> HIDE DEF g, h
<1> DEFINE n == [m EXCEPT !.set = g, !.added = h]
<1>7. n \in Mutation(sc, s)
  BY <1>2, <1>3 DEF Mutation
<1>8. /\ Continues(n, m)
      /\ n.cleared = m.cleared /\ n.set = g /\ n.added = h
  BY DEF Mutation, Continues
<1> HIDE DEF n
<1> QED
  BY <1>4, <1>5, <1>6, <1>7, <1>8 DEF n

(* Add<Column>: only what is to be added changes. *)
LEMMA AddColumnIs ==
  ASSUME NEW sc, NEW s, NEW m \in Mutation(sc, s), NEW c \in sc.columns, NEW k \in Int
  PROVE  LET n == AddColumn(m, c, k)
         IN /\ n \in Mutation(sc, s)
            /\ Continues(n, m)
            /\ n.cleared = m.cleared /\ n.set = m.set
            /\ DOMAIN n.added = DOMAIN m.added \cup {c}
<1> DEFINE Sum(x) == IF x # c THEN m.added[x]
                     ELSE k + IF c \in DOMAIN m.added THEN m.added[c] ELSE 0
           g == [x \in DOMAIN m.added \cup {c} |-> Sum(x)]
<1>1. m.added \in ColumnMap(sc.columns, Int)
  BY DEF Mutation
<1>2. g \in ColumnMap(sc.columns, Int)
  <2>1. DOMAIN m.added \cup {c} \subseteq sc.columns
    BY <1>1, MapIs
  <2>2. \A x \in DOMAIN m.added \cup {c} : Sum(x) \in Int
    BY <1>1, MapIs
  <2> QED
    BY <2>1, <2>2, MakesMap
<1>3. AddColumn(m, c, k) = [m EXCEPT !.added = g]
  BY DEF AddColumn
<1>4. DOMAIN g = DOMAIN m.added \cup {c}
  OBVIOUS
<1> HIDE DEF g
<1> DEFINE n == [m EXCEPT !.added = g]
<1>5. n \in Mutation(sc, s)
  BY <1>2 DEF Mutation
<1>6. /\ Continues(n, m)
      /\ n.cleared = m.cleared /\ n.set = m.set /\ n.added = g
  BY DEF Mutation, Continues
<1> HIDE DEF n
<1> QED
  BY <1>3, <1>4, <1>5, <1>6 DEF n

(* delete() on the maps of a mutation. *)
LEMMA WithoutIs ==
  ASSUME NEW C, NEW V, NEW f \in ColumnMap(C, V), NEW D
  PROVE  /\ Without(f, D) \in ColumnMap(C, V)
         /\ DOMAIN Without(f, D) = DOMAIN f \ D
         /\ \A c \in DOMAIN f \ D : Without(f, D)[c] = f[c]
<1>1. DOMAIN f \ D \subseteq C /\ \A c \in DOMAIN f \ D : f[c] \in V
  BY MapIs
<1> QED
  BY <1>1, MakesMap DEF Without

(* Clear<Column>: the column is to be NULL and is no longer set. *)
LEMMA ClearColumnsIs ==
  ASSUME NEW sc, NEW s, NEW m \in Mutation(sc, s), NEW C \in SUBSET sc.columns
  PROVE  LET n == ClearColumns(m, C)
         IN /\ n \in Mutation(sc, s)
            /\ Continues(n, m)
            /\ n.cleared = m.cleared \cup C /\ n.added = m.added
            /\ DOMAIN n.set = DOMAIN m.set \ C
            /\ \A c \in DOMAIN n.set : n.set[c] = m.set[c]
<1> DEFINE g == Without(m.set, C)
           d == m.cleared \cup C
<1>1. g \in ColumnMap(sc.columns, Wanted(s)) /\ d \in SUBSET sc.columns
  BY WithoutIs DEF Mutation
<1>2. DOMAIN g = DOMAIN m.set \ C /\ \A c \in DOMAIN g : g[c] = m.set[c]
  BY DEF Without
<1>3. ClearColumns(m, C) = [m EXCEPT !.set = g, !.cleared = d]
  BY DEF ClearColumns
<1>4. d = m.cleared \cup C
  OBVIOUS
<1> HIDE DEF g, d
<1> DEFINE n == [m EXCEPT !.set = g, !.cleared = d]
<1>5. n \in Mutation(sc, s)
  BY <1>1 DEF Mutation
<1>6. /\ Continues(n, m)
      /\ n.cleared = d /\ n.set = g /\ n.added = m.added
  BY DEF Mutation, Continues
<1>7. ClearColumns(m, C) = n
  BY <1>3
<1> HIDE DEF n
<1> QED
  BY <1>2, <1>4, <1>5, <1>6, <1>7

(* Reset<Column>: nothing is set that was not set before. *)
LEMMA ResetColumnIs ==
  ASSUME NEW sc, NEW s, NEW m \in Mutation(sc, s), NEW c
  PROVE  LET n == ResetColumn(m, c)
         IN /\ n \in Mutation(sc, s)
            /\ Continues(n, m)
            /\ DOMAIN n.set = DOMAIN m.set \ {c}
            /\ \A x \in DOMAIN n.set : n.set[x] = m.set[x]
<1> DEFINE g == Without(m.set, {c})
           h == Without(m.added, {c})
           d == m.cleared \ {c}
<1>1. /\ g \in ColumnMap(sc.columns, Wanted(s)) /\ h \in ColumnMap(sc.columns, Int)
      /\ d \in SUBSET sc.columns
  BY WithoutIs DEF Mutation
<1>2. DOMAIN g = DOMAIN m.set \ {c} /\ \A x \in DOMAIN g : g[x] = m.set[x]
  BY DEF Without
<1>3. ResetColumn(m, c) = [m EXCEPT !.set = g, !.added = h, !.cleared = d]
  BY DEF ResetColumn
<1> HIDE DEF g, h, d
<1> DEFINE n == [m EXCEPT !.set = g, !.added = h, !.cleared = d]
<1>5. n \in Mutation(sc, s)
  BY <1>1 DEF Mutation
<1>6. /\ Continues(n, m)
      /\ n.set = g
  BY DEF Mutation, Continues
<1>7. ResetColumn(m, c) = n
  BY <1>3
<1> HIDE DEF n
<1> QED
  BY <1>2, <1>5, <1>6, <1>7

(* The defaults fill in columns that nobody has set. *)
LEMMA FillInIs ==
  ASSUME NEW sc, NEW s \in Session, NEW m \in Mutation(sc, s), NEW C \in SUBSET sc.columns
  PROVE  LET n == FillIn(sc, m, C, s)
         IN /\ n \in Mutation(sc, s)
            /\ Continues(n, m)
            /\ n.cleared = m.cleared
            /\ DOMAIN n.set = DOMAIN m.set \cup C
            /\ DOMAIN n.added \subseteq DOMAIN m.added
            /\ \A c \in DOMAIN m.set : n.set[c] = m.set[c]
<1> DEFINE f == [c \in C \ DOMAIN m.set |-> DefaultValue(sc, c, s)]
<1>1. f \in ColumnMap(sc.columns, Wanted(s)) /\ DOMAIN f = C \ DOMAIN m.set
  <2>1. \A c \in C \ DOMAIN m.set : DefaultValue(sc, c, s) \in Wanted(s)
    BY DEF DefaultValue, Wanted
  <2> QED
    BY <2>1, MakesMap
<1> HIDE DEF f
<1>2. FillIn(sc, m, C, s) = SetColumns(m, f)
  BY DEF FillIn, f
<1> QED
  BY <1>1, <1>2, SetColumnsIs

-----------------------------------------------------------------------------
(* Rows and tables.                                                        *)

Row(sc) == [sc.columns -> Value]

(* A table of rows with ids from its sequence. *)
TableOK(sc, t, next) ==
  /\ next \in Int /\ next >= 1
  /\ t = [i \in DOMAIN t |-> t[i]] /\ DOMAIN t \subseteq 1 .. next - 1
  /\ \A i \in DOMAIN t : t[i] \in Row(sc) /\ Numeric(sc, t[i])

ValidRow(sc, row) ==
  \A c \in sc.columns : ~Refuses(sc, c, row[c]) /\ (row[c] = Nil => c \in sc.table.null)

(* The ids of a table come from its sequence, so they are finitely many. *)
LEMMA TableIsFinite ==
  ASSUME NEW sc, NEW t, NEW next, TableOK(sc, t, next)
  PROVE  IsFiniteSet(DOMAIN t)
<1>1. IsFiniteSet(1 .. next - 1)
  <2>1. 1 \in Int /\ next - 1 \in Int
    BY DEF TableOK
  <2> QED
    BY <2>1, FS_Interval
<1> QED
  BY <1>1, FS_Subset DEF TableOK

(* Scanning a row turns NULLs into zero values and changes nothing else. *)
LEMMA ScanIs ==
  ASSUME NEW sc, NEW row \in Row(sc)
  PROVE  /\ Scan(sc, row) \in Row(sc)
         /\ \A c \in sc.columns : Scan(sc, row)[c] \in {row[c], Zero}
BY DEF Scan, Row, Value

(* A row that Get finds is in the table. *)
LEMMA GetIs ==
  ASSUME NEW i, NEW t, Get(i, t).err = "nil"
  PROVE  Get(i, t).id \in DOMAIN t
<1> DEFINE q == Where(NewQuery, [c |-> "id", in |-> {i}])
           match == Matching(q.ps, t)
<1>1. Get(i, t) = IF Cardinality(match) = 1
                  THEN [err |-> "nil", id |-> CHOOSE x \in match : TRUE]
                  ELSE [err |-> IF match = {} THEN "NotFound" ELSE "NotSingular"]
  BY Zenon DEF Get, Only
<1>2. match \subseteq DOMAIN t
  BY DEF Matching
<1> HIDE DEF match
<1>3. Cardinality(match) = 1
  BY <1>1
<1>4. match # {}
  BY <1>3, FS_EmptySet
<1>5. (CHOOSE x \in match : TRUE) \in match
  BY <1>4
<1> QED
  BY <1>1, <1>2, <1>3, <1>5

(* Old<Column> answers with a row of the table or with an error. *)
LEMMA OldValueIs ==
  ASSUME NEW sc, NEW s, NEW m \in Mutation(sc, s), NEW t, NEW next, TableOK(sc, t, next),
         m.old = Unread
  PROVE  LET o == OldValue(sc, m, t)
         IN /\ o \in Old(sc)
            /\ o.state = "read" => ~m.done /\ \E i \in DOMAIN t : o.row = Scan(sc, t[i])
<1>1. CASE ~m.done /\ Get(m.id, t).err = "nil"
  <2> DEFINE i == Get(m.id, t).id
  <2>1. i \in DOMAIN t
    BY <1>1, GetIs
  <2>2. OldValue(sc, m, t) = [state |-> "read", row |-> Scan(sc, t[i])]
    BY <1>1 DEF OldValue
  <2>3. Scan(sc, t[i]) \in Row(sc)
    BY <2>1, ScanIs DEF TableOK
  <2> QED
    BY <1>1, <2>1, <2>2, <2>3 DEF Old, Row
<1>2. CASE ~(~m.done /\ Get(m.id, t).err = "nil")
  <2>1. OldValue(sc, m, t) = NoOld
    BY <1>2 DEF OldValue
  <2> QED
    BY <2>1 DEF NoOld, Old
<1> QED
  BY <1>1, <1>2

(* What sqlSave makes of a column: cleared, set, added to, or left. *)
LEMMA UpdatedRowCases ==
  ASSUME NEW sc, NEW m, NEW row, NEW c \in DOMAIN row
  PROVE  LET w == Written(sc, m)
             r == UpdatedRow(sc, m, row)
         IN /\ DOMAIN r = DOMAIN row
            /\ c \in m.cleared \cap w.clear => r[c] = Nil
            /\ c \notin m.cleared \cap w.clear /\ c \in DOMAIN m.set \cap w.set =>
                  r[c] = m.set[c]
            /\ c \notin m.cleared \cap w.clear /\ c \notin DOMAIN m.set \cap w.set /\
               c \in DOMAIN m.added \cap w.add => r[c] = row[c] + m.added[c]
            /\ c \notin ChangedBy(sc, m) => r[c] = row[c]
BY DEF UpdatedRow, ChangedBy

(* What sqlSave of an update does to a row. *)
LEMMA UpdatedRowIs ==
  ASSUME NEW sc, Fitting(sc), NEW s \in Session, NEW m \in Mutation(sc, s),
         Numeric(sc, m.set), NEW row \in Row(sc), Numeric(sc, row)
  PROVE  LET r == UpdatedRow(sc, m, row)
         IN /\ r \in Row(sc) /\ Numeric(sc, r)
            /\ \A c \in sc.columns : r[c] \in {row[c], Nil} \cup Wanted(s)
            /\ \A c \in sc.columns : r[c] # row[c] => c \in Touched(m)
            /\ \A c \in sc.immutable : r[c] = row[c]
            /\ ChangedBy(sc, m) = {} => r = row
            /\ Check(sc, m) /\ m.op \in {"Update", "UpdateOne"} /\ ValidRow(sc, row)
                 => ValidRow(sc, r)
<1> DEFINE r == UpdatedRow(sc, m, row)
           w == Written(sc, m)
<1>1. /\ w \in {sc.written, sc.oneWritten}
      /\ w.add \subseteq Counters(sc) /\ w.clear \subseteq sc.table.null
      /\ (w.set \cup w.add \cup w.clear) \cap sc.immutable = {}
      /\ w.add \cap sc.runtime.validators = {}
      /\ Counters(sc) \cap w.clear = {} /\ sc.immutable \subseteq sc.columns
  BY DEF Written, Fitting, Counters
<1>2. /\ r = [c \in sc.columns |-> r[c]] /\ DOMAIN row = sc.columns
      /\ \A c \in sc.columns : row[c] \in Value
  BY DEF UpdatedRow, Row
<1>3. \A c \in DOMAIN m.set : m.set[c] \in Wanted(s)
  <2>1. m.set \in ColumnMap(sc.columns, Wanted(s))
    BY DEF Mutation
  <2> QED
    BY <2>1, MapIs
<1>4. \A c \in DOMAIN m.added : m.added[c] \in Int
  <2>1. m.added \in ColumnMap(sc.columns, Int)
    BY DEF Mutation
  <2> QED
    BY <2>1, MapIs
<1>5. ASSUME NEW c \in sc.columns
      PROVE  \/ c \in m.cleared \cap w.clear /\ r[c] = Nil
             \/ c \in DOMAIN m.set \cap w.set /\ r[c] = m.set[c]
             \/ c \in DOMAIN m.added \cap w.add /\ r[c] = row[c] + m.added[c]
             \/ c \notin ChangedBy(sc, m) /\ r[c] = row[c]
  BY <1>2, UpdatedRowCases DEF ChangedBy
<1>6. ASSUME NEW c \in sc.columns, c \in DOMAIN m.added \cap w.add
      PROVE  row[c] + m.added[c] \in Int
  BY <1>1, <1>2, <1>4, <1>6 DEF Numeric
<1> HIDE DEF r, w
<1>7. \A c \in sc.columns : r[c] \in {row[c], Nil} \cup Wanted(s)
  BY <1>3, <1>5, <1>6 DEF Wanted
<1>8. r \in Row(sc)
  BY <1>2, <1>7 DEF Row, Value, Wanted
<1>9. Numeric(sc, r)
  <2> SUFFICES ASSUME NEW c \in Counters(sc) \cap sc.columns PROVE r[c] \in Int
    BY <1>8 DEF Numeric, Row
  <2>1. c \notin w.clear
    BY <1>1
  <2> QED
    BY <1>2, <1>5, <1>6, <2>1 DEF Numeric
<1>10. \A c \in sc.columns : r[c] # row[c] => c \in Touched(m)
  BY <1>5 DEF Touched
<1>11. \A c \in sc.immutable : r[c] = row[c]
  BY <1>1, <1>5
<1>12. ASSUME ChangedBy(sc, m) = {} PROVE r = row
  <2>1. \A c \in sc.columns : r[c] = row[c]
    BY <1>5, <1>12 DEF ChangedBy, w
  <2>2. row = [c \in sc.columns |-> row[c]]
    BY DEF Row
  <2> QED
    BY <1>2, <2>1, <2>2
<1>13. ASSUME Check(sc, m), m.op \in {"Update", "UpdateOne"}, ValidRow(sc, row)
       PROVE  ValidRow(sc, r)
  <2>1. UpdateCheck(sc, m)
    BY <1>13 DEF Check
  <2>2. \A c \in DOMAIN m.set : ~Refuses(sc, c, m.set[c])
    BY <2>1 DEF UpdateCheck, ValidIn, Fitting, Refuses
  <2>3. \A c \in DOMAIN m.set : m.set[c] # Nil
    BY <1>3, ValueAssumption DEF Wanted
  <2>4. Nil # Bad /\ \A x \in Int : x \notin {Nil, Bad}
    BY ValueAssumption
  <2> SUFFICES ASSUME NEW c \in sc.columns
               PROVE  ~Refuses(sc, c, r[c]) /\ (r[c] = Nil => c \in sc.table.null)
    BY DEF ValidRow
  <2>5. CASE c \in m.cleared \cap w.clear /\ r[c] = Nil
    BY <1>1, <2>4, <2>5 DEF Refuses
  <2>6. CASE c \in DOMAIN m.set \cap w.set /\ r[c] = m.set[c]
    BY <2>2, <2>3, <2>6
  <2>7. CASE c \in DOMAIN m.added \cap w.add /\ r[c] = row[c] + m.added[c]
    BY <1>6, <2>4, <2>7 DEF Refuses
  <2>8. CASE r[c] = row[c]
    BY <1>13, <2>8 DEF ValidRow
  <2> QED
    BY <1>5, <2>5, <2>6, <2>7, <2>8
<1> QED
  BY <1>7, <1>8, <1>9, <1>10, <1>11, <1>12, <1>13 DEF r

(* The row of an INSERT, and the entity that the builder answers with. *)
LEMMA InsertedRowIs ==
  ASSUME NEW sc, Fitting(sc), NEW s \in Session, NEW m \in Mutation(sc, s),
         Numeric(sc, m.set), m.op = "Create", Check(sc, m)
  PROVE  LET r == InsertedRow(sc, m)
         IN /\ r \in Row(sc) /\ Numeric(sc, r) /\ ValidRow(sc, r)
            /\ \A c \in sc.columns : r[c] \in {Nil} \cup Wanted(s)
            /\ CreatedNode(sc, m) = Scan(sc, r)
<1> DEFINE r == InsertedRow(sc, m)
<1>1. \A c \in DOMAIN m.set : m.set[c] \in Wanted(s)
  <2>1. m.set \in ColumnMap(sc.columns, Wanted(s))
    BY DEF Mutation
  <2> QED
    BY <2>1, MapIs
<1>2. CreateCheck(sc, m)
  BY DEF Check
<1>3. r = [c \in sc.columns |-> r[c]]
  BY DEF InsertedRow
<1>4. ASSUME NEW c \in sc.columns
      PROVE  \/ c \in Given(sc, m) /\ r[c] = m.set[c]
             \/ c \notin Given(sc, m) /\ c \in sc.table.default /\ r[c] = Zero
             \/ /\ c \notin Given(sc, m) /\ c \notin sc.table.default /\ c \in sc.table.null
                /\ r[c] = Nil
  <2>1. c \notin sc.table.default \cup sc.table.null => c \in Given(sc, m)
    BY <1>2 DEF Fitting, CreateCheck, Given
  <2> QED
    BY <2>1 DEF InsertedRow
<1>5. Given(sc, m) \subseteq DOMAIN m.set
  BY DEF Given
<1>6. \A c \in DOMAIN m.set : ~Refuses(sc, c, m.set[c]) /\ m.set[c] # Nil
  <2>1. \A c \in DOMAIN m.set : m.set[c] # Nil
    BY <1>1, ValueAssumption DEF Wanted
  <2>2. \A c \in DOMAIN m.set : ~Refuses(sc, c, m.set[c])
    BY <1>2 DEF CreateCheck, ValidIn, Fitting, Refuses
  <2> QED
    BY <2>1, <2>2
<1> HIDE DEF r
<1>7. \A c \in sc.columns : r[c] \in {Nil} \cup Wanted(s)
  BY <1>1, <1>4, <1>5 DEF Wanted
<1>8. r \in Row(sc)
  BY <1>3, <1>7 DEF Row, Value, Wanted
<1>9. Numeric(sc, r)
  <2> SUFFICES ASSUME NEW c \in Counters(sc) \cap sc.columns PROVE r[c] \in Int
    BY <1>8 DEF Numeric, Row
  <2>1. c \notin sc.table.default /\ c \notin sc.table.null
    BY DEF Fitting, Counters
  <2> QED
    BY <1>4, <1>5, <2>1 DEF Numeric
<1>10. ValidRow(sc, r)
  BY <1>4, <1>5, <1>6, ValueAssumption DEF ValidRow, Refuses
<1>11. CreatedNode(sc, m) = Scan(sc, r)
  <2>1. DOMAIN r = sc.columns
    BY <1>8 DEF Row
  <2>2. ASSUME NEW c \in sc.columns
        PROVE  CreatedNode(sc, m)[c] = Scan(sc, r)[c]
    BY <1>4, <1>5, <1>6, <2>1, ValueAssumption DEF CreatedNode, Scan, Fitting
  <2>3. /\ CreatedNode(sc, m) = [c \in sc.columns |-> CreatedNode(sc, m)[c]]
        /\ Scan(sc, r) = [c \in sc.columns |-> Scan(sc, r)[c]]
    BY <2>1 DEF CreatedNode, Scan
  <2> QED
    BY <2>2, <2>3
<1> QED
  BY <1>7, <1>8, <1>9, <1>10, <1>11 DEF r

ValidTable(sc, t) == \A i \in DOMAIN t : ValidRow(sc, t[i])

(* The WHERE of a statement selects rows of the table. *)
LEMMA TargetsAreRows == ASSUME NEW m, NEW t PROVE Targets(m, t) \subseteq DOMAIN t
BY DEF Targets, Matching

(* An UPDATE keeps the table in order, changes only rows it selects and    *)
(* columns that its mutation names, never an immutable one, leaves valid   *)
(* rows valid when the mutation was checked, and reports at least as many  *)
(* rows as it changed.                                                     *)
LEMMA AfterUpdateIs ==
  ASSUME NEW sc, Fitting(sc), NEW s \in Session, NEW m \in Mutation(sc, s),
         Numeric(sc, m.set), NEW t, NEW next, TableOK(sc, t, next)
  PROVE  LET u == AfterUpdate(sc, m, t)
         IN /\ TableOK(sc, u, next) /\ DOMAIN u = DOMAIN t
            /\ \A i \in DOMAIN t : \A c \in sc.columns :
                  /\ u[i][c] \in {t[i][c], Nil} \cup Wanted(s)
                  /\ u[i][c] # t[i][c] => i \in Targets(m, t) /\ c \in Touched(m)
            /\ \A i \in DOMAIN t : \A c \in sc.immutable : u[i][c] = t[i][c]
            /\ Check(sc, m) /\ m.op \in {"Update", "UpdateOne"} /\ ValidTable(sc, t)
                 => ValidTable(sc, u)
            /\ Cardinality({i \in DOMAIN t : u[i] # t[i]}) <= Affected(sc, m, t)
<1> DEFINE u == AfterUpdate(sc, m, t)
<1>1. /\ u = [i \in DOMAIN t |-> u[i]] /\ DOMAIN u = DOMAIN t
      /\ \A i \in DOMAIN t : \/ i \in Targets(m, t) /\ u[i] = UpdatedRow(sc, m, t[i])
                             \/ i \notin Targets(m, t) /\ u[i] = t[i]
  BY DEF AfterUpdate
<1>2. \A i \in DOMAIN t : t[i] \in Row(sc) /\ Numeric(sc, t[i])
  BY DEF TableOK
<1> HIDE DEF u
<1>3. ASSUME NEW i \in DOMAIN t
      PROVE  /\ u[i] \in Row(sc) /\ Numeric(sc, u[i])
             /\ \A c \in sc.columns : u[i][c] \in {t[i][c], Nil} \cup Wanted(s)
             /\ \A c \in sc.columns : u[i][c] # t[i][c] => i \in Targets(m, t) /\ c \in Touched(m)
             /\ \A c \in sc.immutable : u[i][c] = t[i][c]
             /\ ChangedBy(sc, m) = {} => u[i] = t[i]
             /\ Check(sc, m) /\ m.op \in {"Update", "UpdateOne"} /\ ValidRow(sc, t[i])
                  => ValidRow(sc, u[i])
  BY <1>1, <1>2, UpdatedRowIs
<1>4. TableOK(sc, u, next)
  BY <1>1, <1>3 DEF TableOK
<1>5. Cardinality({i \in DOMAIN t : u[i] # t[i]}) <= Affected(sc, m, t)
  <2>1. CASE ChangedBy(sc, m) = {}
    <3>1. {i \in DOMAIN t : u[i] # t[i]} = {}
      BY <1>3, <2>1
    <3> QED
      BY <2>1, <3>1, FS_EmptySet DEF Affected
  <2>2. CASE ChangedBy(sc, m) # {}
    <3>1. IsFiniteSet(Targets(m, t))
      BY TableIsFinite, TargetsAreRows, FS_Subset
    <3>2. {i \in DOMAIN t : u[i] # t[i]} \subseteq Targets(m, t)
      BY <1>1
    <3>3. Affected(sc, m, t) = Cardinality(Targets(m, t))
      BY <2>2 DEF Affected
    <3> QED
      BY <3>1, <3>2, <3>3, FS_Subset
  <2> QED
    BY <2>1, <2>2
<1> QED
  BY <1>1, <1>3, <1>4, <1>5 DEF u, ValidTable

(* The entities that the builder answers with, by id. *)
CreatedNodes(sc, ms, next) ==
  [i \in next .. next + Len(ms) - 1 |-> CreatedNode(sc, ms[i - next + 1])]

(* Entities that are as the rows would be read. *)
ReadBack(sc, nodes, u) == \A i \in DOMAIN nodes : nodes[i] = Scan(sc, u[i])

(* An INSERT keeps the rows there were, gives the new ones the next ids of *)
(* the sequence, and the entities that the builder answers with are the    *)
(* rows as they would be read.                                             *)
LEMMA AfterInsertIs ==
  ASSUME NEW sc, Fitting(sc), NEW s \in Session, NEW ms \in Seq(Mutation(sc, s)),
         \A k \in DOMAIN ms : /\ ms[k].op = "Create" /\ Numeric(sc, ms[k].set)
                              /\ Check(sc, ms[k]),
         NEW t, NEW next, TableOK(sc, t, next)
  PROVE  LET a == AfterInsert(sc, ms, t, next)
             new == DOMAIN a \ DOMAIN t
         IN /\ TableOK(sc, a, next + Len(ms)) /\ DOMAIN t \subseteq DOMAIN a
            /\ \A i \in DOMAIN t : a[i] = t[i]
            /\ new = next .. next + Len(ms) - 1 /\ Cardinality(new) = Len(ms)
            /\ \A i \in new : /\ ValidRow(sc, a[i])
                              /\ \A c \in sc.columns : a[i][c] \in {Nil} \cup Wanted(s)
            /\ ReadBack(sc, CreatedNodes(sc, ms, next), a)
<1> DEFINE a == AfterInsert(sc, ms, t, next)
           new == next .. next + Len(ms) - 1
<1>1. Len(ms) \in Nat /\ DOMAIN ms = 1 .. Len(ms) /\ next \in Int
  BY DEF TableOK
<1>2. DOMAIN t \cap new = {} /\ \A i \in DOMAIN t : i < next
  BY <1>1 DEF TableOK
<1>3. /\ DOMAIN a = DOMAIN t \cup new /\ a = [i \in DOMAIN t \cup new |-> a[i]]
      /\ \A i \in DOMAIN t : a[i] = t[i]
      /\ \A i \in new : a[i] = InsertedRow(sc, ms[i - next + 1])
  BY <1>1, <1>2 DEF AfterInsert
<1> HIDE DEF a
<1>4. ASSUME NEW i \in new
      PROVE  /\ a[i] \in Row(sc) /\ Numeric(sc, a[i]) /\ ValidRow(sc, a[i])
             /\ \A c \in sc.columns : a[i][c] \in {Nil} \cup Wanted(s)
             /\ CreatedNode(sc, ms[i - next + 1]) = Scan(sc, a[i])
  <2>1. i - next + 1 \in 1 .. Len(ms)
    BY <1>1
  <2>2. ms[i - next + 1] \in Mutation(sc, s)
    BY <2>1
  <2> QED
    BY <1>1, <1>3, <2>1, <2>2, InsertedRowIs
<1>5. DOMAIN a \ DOMAIN t = new
  BY <1>2, <1>3
<1>6. Cardinality(new) = Len(ms)
  <2>1. next + Len(ms) - 1 \in Int
    BY <1>1
  <2>2. Cardinality(new) = IF next > next + Len(ms) - 1 THEN 0
                           ELSE next + Len(ms) - 1 - next + 1
    BY <1>1, <2>1, FS_Interval
  <2> QED
    BY <1>1, <2>2
<1>7. TableOK(sc, a, next + Len(ms))
  <2>1. new \subseteq 1 .. next + Len(ms) - 1 /\ DOMAIN t \subseteq 1 .. next + Len(ms) - 1
    BY <1>1 DEF TableOK
  <2>2. \A i \in DOMAIN a : a[i] \in Row(sc) /\ Numeric(sc, a[i])
    BY <1>3, <1>4 DEF TableOK
  <2>3. next + Len(ms) \in Int /\ next + Len(ms) >= 1
    BY <1>1 DEF TableOK
  <2>4. a = [i \in DOMAIN a |-> a[i]] /\ DOMAIN a \subseteq 1 .. next + Len(ms) - 1
    BY <1>3, <2>1
  <2> HIDE DEF new
  <2> QED
    BY <2>2, <2>3, <2>4 DEF TableOK
<1>8. ReadBack(sc, CreatedNodes(sc, ms, next), a)
  BY <1>4 DEF CreatedNodes, ReadBack
<1> QED
  BY <1>3, <1>4, <1>5, <1>6, <1>7, <1>8 DEF a

-----------------------------------------------------------------------------
(* Callers and hooks.                                                      *)

(* A mutation of a builder of s. *)
Good(sc, s, m) == m \in Mutation(sc, s) /\ Numeric(sc, m.set)

(* The schema of the table in use is one of those assumed to fit together. *)
LEMMA SchemaFits == ASSUME entity \in DOMAIN Schemas PROVE Fitting(sch)
BY SchemaAssumption DEF sch

(* The values that callers give to setters. *)
LEMMA SettingsAre ==
  ASSUME entity \in DOMAIN Schemas, NEW s \in Session, NEW C \in SUBSET sch.columns,
         NEW f \in Settings(s, C)
  PROVE  f \in ColumnMap(sch.columns, Wanted(s)) /\ DOMAIN f = C /\ Numeric(sch, f)
<1>1. DOMAIN f = C /\ f = [c \in C |-> f[c]] /\ \A c \in C : f[c] \in Values(s, c)
  BY DEF Settings
<1>2. \A c \in C : Values(s, c) \subseteq Wanted(s)
  BY DEF Values, Wanted
<1>3. f \in ColumnMap(sch.columns, Wanted(s))
  BY <1>1, <1>2, MapIs
<1>4. \A c \in Counters(sch) : c \in sch.table.key /\ c \notin sch.runtime.validators
  BY SchemaFits DEF Counters, Fitting
<1>5. Numeric(sch, f)
  BY <1>1, <1>4 DEF Numeric, Values
<1> QED
  BY <1>1, <1>3, <1>5

(* A setter keeps a mutation one of its session. *)
LEMMA SettingIsGood ==
  ASSUME NEW sc, NEW s, NEW m, Good(sc, s, m),
         NEW f \in ColumnMap(sc.columns, Wanted(s)), Numeric(sc, f)
  PROVE  LET n == SetColumns(m, f)
         IN Good(sc, s, n) /\ Continues(n, m) /\ Touched(n) \subseteq Touched(m) \cup DOMAIN f
<1> DEFINE n == SetColumns(m, f)
<1>1. /\ n \in Mutation(sc, s) /\ Continues(n, m) /\ n.cleared = m.cleared
      /\ DOMAIN n.set = DOMAIN m.set \cup DOMAIN f
      /\ DOMAIN n.added = DOMAIN m.added \ DOMAIN f
      /\ \A c \in DOMAIN f : n.set[c] = f[c]
      /\ \A c \in DOMAIN m.set \ DOMAIN f : n.set[c] = m.set[c]
  BY SetColumnsIs DEF Good
<1> HIDE DEF n
<1> QED
  BY <1>1 DEF Good, Numeric, Touched, n

(* So does filling in defaults of columns that are no counters. *)
LEMMA FillingIsGood ==
  ASSUME NEW sc, NEW s \in Session, NEW m, Good(sc, s, m), NEW C \in SUBSET sc.columns,
         C \cap Counters(sc) = {}
  PROVE  LET n == FillIn(sc, m, C, s)
         IN Good(sc, s, n) /\ Continues(n, m) /\ Touched(n) \subseteq Touched(m) \cup C
<1> DEFINE n == FillIn(sc, m, C, s)
<1>1. /\ n \in Mutation(sc, s) /\ Continues(n, m) /\ n.cleared = m.cleared
      /\ DOMAIN n.set = DOMAIN m.set \cup C /\ DOMAIN n.added \subseteq DOMAIN m.added
      /\ \A c \in DOMAIN m.set : n.set[c] = m.set[c]
  BY FillInIs DEF Good
<1> HIDE DEF n
<1>2. \A c \in Counters(sc) \cap DOMAIN n.set : c \in DOMAIN m.set
  BY <1>1
<1> QED
  BY <1>1, <1>2 DEF Good, Numeric, Touched, n

(* A new mutation is one of any session. *)
LEMMA NewIsGood ==
  ASSUME NEW sc, NEW s, NEW op \in Op, NEW id \in Int
  PROVE  LET m == NewMutation(op, id)
         IN /\ Good(sc, s, m) /\ Touched(m) = {}
            /\ m.op = op /\ m.id = id /\ m.ps = {} /\ ~m.done /\ m.old = Unread
BY NewMutationIs DEF Good, Numeric, Touched

(* What every builder offers. *)
LEMMA OfferedIs ==
  ASSUME NEW op
  PROVE  Offered(op) \in {sch.updateSets, sch.oneSets,
                          [set |-> sch.createSets, clear |-> {}, add |-> {}]}
BY DEF Offered

(* The calls of a builder (setters, Clear, Add). *)
LEMMA UpdateCallsAreGood ==
  ASSUME entity \in DOMAIN Schemas, NEW s \in Session, NEW m, Good(sch, s, m),
         NEW calls \in {sch.updateSets, sch.oneSets,
                        [set |-> sch.createSets, clear |-> {}, add |-> {}]},
         NEW n \in UpdateCalls(s, m, calls)
  PROVE  Good(sch, s, n) /\ Continues(n, m)
<1>1. /\ calls.set \subseteq sch.columns /\ calls.clear \subseteq sch.columns
      /\ calls.add \subseteq sch.columns
  BY SchemaFits DEF Fitting
<1>2. ASSUME NEW c \in calls.set, NEW f \in Settings(s, {c}), n = SetColumns(m, f)
      PROVE  Good(sch, s, n) /\ Continues(n, m)
  <2>1. {c} \in SUBSET sch.columns
    BY <1>1
  <2>2. f \in ColumnMap(sch.columns, Wanted(s)) /\ Numeric(sch, f)
    BY <2>1, SettingsAre
  <2> QED
    BY <1>2, <2>2, SettingIsGood
<1>3. ASSUME NEW c \in calls.clear, n = ClearColumns(m, {c})
      PROVE  Good(sch, s, n) /\ Continues(n, m)
  <2>1. {c} \in SUBSET sch.columns
    BY <1>1
  <2> QED
    BY <1>3, <2>1, ClearColumnsIs DEF Good, Numeric
<1>4. ASSUME NEW c \in calls.add, n = AddColumn(m, c, 1)
      PROVE  Good(sch, s, n) /\ Continues(n, m)
  BY <1>1, <1>4, AddColumnIs DEF Good, Numeric
<1>5. \/ \E c \in calls.set : \E f \in Settings(s, {c}) : n = SetColumns(m, f)
      \/ \E c \in calls.clear : n = ClearColumns(m, {c})
      \/ \E c \in calls.add : n = AddColumn(m, c, 1)
  BY DEF UpdateCalls
<1> QED
  BY <1>2, <1>3, <1>4, <1>5

(* What a hook does with the mutation that it is handed. *)
LEMMA HookCallsAreGood ==
  ASSUME entity \in DOMAIN Schemas, NEW s \in Session, NEW m, Good(sch, s, m),
         NEW n \in HookCalls(s, m)
  PROVE  Good(sch, s, n) /\ Continues(n, m)
<1> DEFINE settable == (sch.methods.set \cup sch.setByName) \ (sch.table.key \cup m.cleared)
           V(c) == IF c \in sch.runtime.validators THEN Bad ELSE s
<1>1. /\ settable \subseteq sch.columns
      /\ sch.methods.clear \cup sch.editByName.clear \subseteq sch.columns
      /\ settable \cap Counters(sch) = {}
  BY SchemaFits DEF Fitting, Counters
<1>2. ASSUME NEW c \in settable, n = SetColumns(m, [x \in {c} |-> V(c)])
      PROVE  Good(sch, s, n) /\ Continues(n, m)
  <2> DEFINE f == [x \in {c} |-> V(c)]
  <2>1. f \in ColumnMap(sch.columns, Wanted(s))
    <3>1. {c} \in SUBSET sch.columns /\ f \in [{c} -> Wanted(s)]
      BY <1>1 DEF Wanted
    <3> QED
      BY <3>1, MakesMap
  <2>2. Numeric(sch, f)
    BY <1>1 DEF Numeric
  <2> HIDE DEF f
  <2> QED
    BY <1>2, <2>1, <2>2, SettingIsGood DEF f
<1>3. ASSUME NEW c \in sch.methods.clear \cup sch.editByName.clear, n = ClearColumns(m, {c})
      PROVE  Good(sch, s, n) /\ Continues(n, m)
  <2>1. {c} \in SUBSET sch.columns
    BY <1>1
  <2> QED
    BY <1>3, <2>1, ClearColumnsIs DEF Good, Numeric
<1>4. ASSUME NEW c, n = ResetColumn(m, c)
      PROVE  Good(sch, s, n) /\ Continues(n, m)
  BY <1>4, ResetColumnIs DEF Good, Numeric
<1>5. \/ \E c \in settable : n = SetColumns(m, [x \in {c} |-> V(c)])
      \/ \E c \in sch.methods.clear \cup sch.editByName.clear : n = ClearColumns(m, {c})
      \/ \E c \in sch.editByName.reset : n = ResetColumn(m, c)
  BY DEF HookCalls
<1> QED
  BY <1>2, <1>3, <1>4, <1>5

(* defaults() of each builder; UpdateOne names no other column than its own*)
(* defaults.                                                               *)
LEMMA DefaultsAreGood ==
  ASSUME entity \in DOMAIN Schemas, NEW s \in Session, NEW m, Good(sch, s, m)
  PROVE  LET n == Defaults(s, m)
         IN /\ Good(sch, s, n) /\ Continues(n, m)
            /\ m.op = "UpdateOne" => Touched(n) \subseteq Touched(m) \cup sch.oneDefaults
<1>1. \A C \in {sch.createDefaults, sch.updateDefaults, sch.oneDefaults} :
         C \in SUBSET sch.columns /\ C \cap Counters(sch) = {}
  BY SchemaFits DEF Fitting, Counters
<1>2. CASE m.op = "Create"
  <2>1. Defaults(s, m) = FillIn(sch, m, sch.createDefaults, s)
    BY <1>2 DEF Defaults, CreateDefaults
  <2> QED
    BY <1>1, <1>2, <2>1, FillingIsGood
<1>3. CASE m.op = "UpdateOne"
  <2>1. Defaults(s, m) = FillIn(sch, m, sch.oneDefaults, s)
    BY <1>3 DEF Defaults, UpdateDefaults
  <2> QED
    BY <1>1, <1>3, <2>1, FillingIsGood
<1>4. CASE m.op = "Update"
  <2>1. Defaults(s, m) = FillIn(sch, m, sch.updateDefaults, s)
    BY <1>4 DEF Defaults, UpdateDefaults
  <2> QED
    BY <1>1, <1>4, <2>1, FillingIsGood
<1>5. CASE m.op \notin {"Create", "Update", "UpdateOne"}
  <2>1. Defaults(s, m) = m
    BY <1>5 DEF Defaults
  <2> QED
    BY <1>5, <2>1 DEF Continues
<1> QED
  BY <1>2, <1>3, <1>4, <1>5

(* What a goroutine gives its builder before the first Save. *)
Calls(sc, s, t, ms) ==
  /\ ms \in Seq(Mutation(sc, s)) /\ ms # << >>
  /\ \A k \in DOMAIN ms :
        /\ Numeric(sc, ms[k].set) /\ ms[k].op = ms[1].op
        /\ ms[k].old.state = "read" => \E i \in DOMAIN t : ms[k].old.row = Scan(sc, t[i])

(* A builder of one mutation. *)
LEMMA OneCall ==
  ASSUME NEW sc, NEW s, NEW t, NEW m, Good(sc, s, m),
         m.old.state = "read" => \E i \in DOMAIN t : m.old.row = Scan(sc, t[i])
  PROVE  Calls(sc, s, t, <<m>>)
<1>1. <<m>> \in Seq(Mutation(sc, s)) /\ DOMAIN <<m>> = {1} /\ <<m>>[1] = m /\ <<m>> # << >>
  BY DEF Good
<1> QED
  BY <1>1 DEF Calls, Good

(* A mutation that has not asked has read nothing. *)
LEMMA NothingRead ==
  ASSUME NEW m, m.old = Unread PROVE m.old.state # "read"
BY DEF Unread

(* The mutation of a create builder after its setters. *)
LEMMA CreateCalls ==
  ASSUME entity \in DOMAIN Schemas, NEW s \in Session, NEW C \in SUBSET sch.columns,
         NEW f \in Settings(s, C)
  PROVE  LET m == SetColumns(NewMutation("Create", 0), f)
         IN Good(sch, s, m) /\ m.op = "Create" /\ m.old = Unread
<1> DEFINE n == NewMutation("Create", 0)
<1>1. Good(sch, s, n) /\ n.op = "Create" /\ n.old = Unread
  BY NewIsGood, "Create" \in Op DEF Op
<1>2. f \in ColumnMap(sch.columns, Wanted(s)) /\ Numeric(sch, f)
  BY SettingsAre
<1> HIDE DEF n
<1>3. Good(sch, s, SetColumns(n, f)) /\ Continues(SetColumns(n, f), n)
  BY <1>1, <1>2, SettingIsGood
<1> QED
  BY <1>1, <1>3 DEF Continues, n

(* What create builders are given are columns of the table. *)
LEMMA MustSetIsColumns ==
  ASSUME entity \in DOMAIN Schemas, NEW s \in Session
  PROVE  MustSet \subseteq sch.columns /\ \A C \in CreateColumns(s) : C \subseteq sch.columns
<1>1. sch.createCheck.required \subseteq sch.columns /\ sch.createSets \subseteq sch.columns
  BY SchemaFits DEF Fitting
<1>2. MustSet \subseteq sch.columns
  BY <1>1 DEF MustSet
<1> QED
  BY <1>1, <1>2 DEF CreateColumns

(* What update and delete builders filter by are columns of the table. *)
LEMMA PredicatesAre ==
  ASSUME entity \in DOMAIN Schemas, NEW ps \in Predicates
  PROVE  ps \in SUBSET Predicate(sch)
<1>1. sch.table.key \subseteq sch.columns /\ sch.predicates.null \subseteq sch.columns
  BY SchemaFits DEF Fitting
<1> QED
  BY <1>1 DEF Predicates, Predicate

(* Whatever any caller of the generated API opens is a builder with calls  *)
(* as above.                                                               *)
LEMMA OpeningCalls ==
  ASSUME entity \in DOMAIN Schemas, TableOK(sch, rows, nextId), NEW s \in Session, Opening(s)
  PROVE  \E ms : Calls(sch, s, rows, ms) /\ Open(s, ms)
<1>0. \A op \in Op : \A id \in Int : LET m == NewMutation(op, id)
                                     IN Good(sch, s, m) /\ m.old = Unread
  BY NewIsGood
<1>1. CASE OpenCreate(s)
  <2>0. PICK C \in CreateColumns(s) : \E f \in Settings(s, C) :
             Open(s, <<SetColumns(NewMutation("Create", 0), f)>>)
    BY <1>1 DEF OpenCreate
  <2>1. PICK f \in Settings(s, C) : Open(s, <<SetColumns(NewMutation("Create", 0), f)>>)
    BY <2>0
  <2> DEFINE m == SetColumns(NewMutation("Create", 0), f)
  <2>2. Good(sch, s, m) /\ m.old = Unread
    BY MustSetIsColumns, CreateCalls
  <2> HIDE DEF m
  <2>3. Calls(sch, s, rows, <<m>>)
    BY <2>2, NothingRead, OneCall
  <2> QED
    BY <2>1, <2>3 DEF m
<1>2. CASE OpenCreateBulk(s)
  <2>1. PICK f \in Settings(s, MustSet), g \in Settings(s, MustSet) :
             Open(s, <<SetColumns(NewMutation("Create", 0), f),
                       SetColumns(NewMutation("Create", 0), g)>>)
    BY <1>2 DEF OpenCreateBulk
  <2> DEFINE m == SetColumns(NewMutation("Create", 0), f)
             n == SetColumns(NewMutation("Create", 0), g)
  <2>2. Good(sch, s, m) /\ m.op = "Create" /\ m.old = Unread
    BY MustSetIsColumns, CreateCalls
  <2>3. Good(sch, s, n) /\ n.op = "Create" /\ n.old = Unread
    BY MustSetIsColumns, CreateCalls
  <2> HIDE DEF m, n
  <2>4. /\ <<m, n>> \in Seq(Mutation(sch, s)) /\ DOMAIN <<m, n>> = {1, 2}
        /\ <<m, n>>[1] = m /\ <<m, n>>[2] = n /\ <<m, n>> # << >>
    BY <2>2, <2>3 DEF Good
  <2>5. Calls(sch, s, rows, <<m, n>>)
    BY <2>2, <2>3, <2>4, NothingRead DEF Calls, Good
  <2> QED
    BY <2>1, <2>5 DEF m, n
<1>3. CASE OpenUpdate(s)
  <2>0. PICK ps \in Predicates :
             \E n \in UpdateCalls(s, [NewMutation("Update", 0) EXCEPT !.ps = ps],
                                 sch.updateSets) : Open(s, <<n>>)
    BY <1>3 DEF OpenUpdate
  <2>1. PICK n \in UpdateCalls(s, [NewMutation("Update", 0) EXCEPT !.ps = ps],
                              sch.updateSets) : Open(s, <<n>>)
    BY <2>0
  <2> DEFINE o == NewMutation("Update", 0)
             m == [o EXCEPT !.ps = ps]
  <2>2. Good(sch, s, o) /\ o.old = Unread
    BY <1>0, "Update" \in Op DEF Op
  <2> HIDE DEF o
  <2>3. m \in Mutation(sch, s) /\ m.set = o.set /\ m.old = o.old
    BY <2>2, PredicatesAre DEF Good, Mutation
  <2>4. Good(sch, s, m) /\ m.old = Unread
    BY <2>2, <2>3 DEF Good
  <2>5. n \in UpdateCalls(s, m, sch.updateSets)
    BY <2>1 DEF o
  <2> HIDE DEF m
  <2>6. Good(sch, s, n) /\ n.old = Unread
    BY <2>4, <2>5, UpdateCallsAreGood DEF Continues
  <2> QED
    BY <2>1, <2>6, NothingRead, OneCall
<1>4. ASSUME NEW i \in Ids, OpenUpdateOneID(s, i)
      PROVE  \E ms : Calls(sch, s, rows, ms) /\ Open(s, ms)
  <2>1. PICK n \in UpdateCalls(s, NewMutation("UpdateOne", i), sch.oneSets) : Open(s, <<n>>)
    BY <1>4 DEF OpenUpdateOneID
  <2> DEFINE m == NewMutation("UpdateOne", i)
  <2>2. Good(sch, s, m) /\ m.old = Unread
    BY <1>0, "UpdateOne" \in Op, IdAssumption DEF Op
  <2> HIDE DEF m
  <2>3. Good(sch, s, n) /\ n.old = Unread
    BY <2>1, <2>2, UpdateCallsAreGood DEF Continues, m
  <2> QED
    BY <2>1, <2>3, NothingRead, OneCall
<1>5. ASSUME NEW i \in Ids, OpenUpdateOne(s, i)
      PROVE  \E ms : Calls(sch, s, rows, ms) /\ Open(s, ms)
  <2> DEFINE o == NewMutation("UpdateOne", i)
             v == [state |-> "read", row |-> Scan(sch, rows[i])]
             m == [o EXCEPT !.old = v]
  <2>1. i \in DOMAIN rows
    BY <1>5 DEF OpenUpdateOne
  <2>2. PICK n \in UpdateCalls(s, m, sch.oneSets) : Open(s, <<n>>)
    BY <1>5 DEF OpenUpdateOne
  <2>3. Good(sch, s, o)
    BY <1>0, "UpdateOne" \in Op, IdAssumption DEF Op
  <2>4. v \in Old(sch) /\ v.row = Scan(sch, rows[i])
    <3>1. Scan(sch, rows[i]) \in Row(sch)
      BY <2>1, ScanIs DEF TableOK
    <3> QED
      BY <3>1 DEF Old, Row
  <2> HIDE DEF o, v
  <2>5. m \in Mutation(sch, s) /\ m.set = o.set /\ m.old = v
    BY <2>3, <2>4 DEF Good, Mutation
  <2>6. Good(sch, s, m)
    BY <2>3, <2>5 DEF Good
  <2> HIDE DEF m
  <2>7. Good(sch, s, n) /\ n.old = v
    BY <2>2, <2>5, <2>6, UpdateCallsAreGood DEF Continues
  <2>8. Calls(sch, s, rows, <<n>>)
    BY <2>1, <2>4, <2>7, OneCall
  <2> QED
    BY <2>2, <2>8
<1>6. CASE OpenDelete(s)
  <2>1. PICK ps \in Predicates : Open(s, <<[NewMutation("Delete", 0) EXCEPT !.ps = ps]>>)
    BY <1>6 DEF OpenDelete
  <2> DEFINE o == NewMutation("Delete", 0)
             m == [o EXCEPT !.ps = ps]
  <2>2. Good(sch, s, o) /\ o.old = Unread
    BY <1>0, "Delete" \in Op DEF Op
  <2> HIDE DEF o
  <2>3. m \in Mutation(sch, s) /\ m.set = o.set /\ m.old = o.old
    BY <2>2, PredicatesAre DEF Good, Mutation
  <2>4. Good(sch, s, m) /\ m.old = Unread
    BY <2>2, <2>3 DEF Good
  <2>5. Open(s, <<m>>)
    BY <2>1 DEF o
  <2> HIDE DEF m
  <2>6. Calls(sch, s, rows, <<m>>)
    BY <2>4, NothingRead, OneCall
  <2> QED
    BY <2>5, <2>6
<1>7. ASSUME NEW i \in Ids, OpenDeleteOne(s, i)
      PROVE  \E ms : Calls(sch, s, rows, ms) /\ Open(s, ms)
  <2> DEFINE m == NewMutation("DeleteOne", i)
  <2>1. Good(sch, s, m) /\ m.old = Unread
    BY <1>0, "DeleteOne" \in Op, IdAssumption DEF Op
  <2>2. Open(s, <<m>>)
    BY <1>7 DEF OpenDeleteOne
  <2> HIDE DEF m
  <2> QED
    BY <2>1, <2>2, NothingRead, OneCall
<1>8. \/ OpenCreate(s) \/ OpenCreateBulk(s) \/ OpenUpdate(s) \/ OpenDelete(s)
      \/ \E i \in Ids : OpenUpdateOneID(s, i) \/ OpenDeleteOne(s, i) \/ OpenUpdateOne(s, i)
  BY DEF Opening
<1> QED
  BY <1>1, <1>2, <1>3, <1>4, <1>5, <1>6, <1>7, <1>8

-----------------------------------------------------------------------------
(* Builders.                                                               *)

(* A builder of s, by its phase. *)
BuilderOK(sc, s, B) ==
  /\ B = [phase |-> B.phase, muts |-> B.muts, saves |-> B.saves, ans |-> B.ans]
  /\ B.phase \in {"idle", "open", "saving", "closed"} /\ B.saves \in Nat
  /\ B.muts \in Seq(Mutation(sc, s))
  /\ \A k \in DOMAIN B.muts : Numeric(sc, B.muts[k].set) /\ B.muts[k].op = B.muts[1].op
  /\ B.phase # "idle" => B.muts # << >>
  /\ B.phase \in {"idle", "open"} => B.saves = 0
  /\ B.phase \in {"saving", "closed"} => B.saves >= 1
  /\ B.phase # "closed" => B.ans = NoAnswer
  /\ B.phase = "closed" /\ B.ans.is = "ok" => \A k \in DOMAIN B.muts : B.muts[k].done

(* A statement of s may have taken effect. *)
HasWritten(B) == B.saves > 1 \/ (B.phase = "closed" /\ B.ans.is \in {"ok", "error"})

(* Until then the table holds nothing of s, and what s has read since it   *)
(* was opened is not its own.                                              *)
OthersOnly(sc, s, t, B) ==
  /\ ~HasWritten(B) => \A i \in DOMAIN t : \A c \in sc.columns : t[i][c] # s
  /\ B.saves <= 1 /\ B.ans.is # "error" =>
        \A k \in DOMAIN B.muts : B.muts[k].old.state = "read" =>
           \A c \in sc.columns : B.muts[k].old.row[c] # s

StoreInv ==
  /\ entity \in DOMAIN Schemas
  /\ TableOK(sch, rows, nextId) /\ ValidTable(sch, rows)
  /\ b = [s \in Session |-> b[s]]
  /\ \A s \in Session : BuilderOK(sch, s, b[s]) /\ OthersOnly(sch, s, rows, b[s])

(* A builder in its next phase. *)
Opened(B, ms) == [phase |-> "open", muts |-> ms, saves |-> B.saves, ans |-> B.ans]

Saved(B, ms) == [phase |-> "saving", muts |-> ms, saves |-> B.saves + 1, ans |-> NoAnswer]

Asked(B, o) == [phase |-> B.phase, muts |-> [B.muts EXCEPT ![1].old = o], saves |-> B.saves,
                ans |-> B.ans]

Becomes(s, B) == b' = [b EXCEPT ![s] = B]

(* A builder written with EXCEPT is the record with the same fields. *)
LEMMA BuilderRecord ==
  ASSUME NEW p, NEW ms, NEW n, NEW ans,
         NEW B \in [phase : {p}, muts : {ms}, saves : {n}, ans : {ans}]
  PROVE  B = [phase |-> p, muts |-> ms, saves |-> n, ans |-> ans]
OBVIOUS

(* The fields of a builder. *)
LEMMA BuilderFields ==
  ASSUME NEW sc, NEW s, NEW B, BuilderOK(sc, s, B)
  PROVE  B \in [phase : {B.phase}, muts : {B.muts}, saves : {B.saves}, ans : {B.ans}]
<1>1. [phase |-> B.phase, muts |-> B.muts, saves |-> B.saves, ans |-> B.ans]
        \in [phase : {B.phase}, muts : {B.muts}, saves : {B.saves}, ans : {B.ans}]
  OBVIOUS
<1> QED
  BY <1>1 DEF BuilderOK

(* The builder that Open leaves. *)
LEMMA OpensTo ==
  ASSUME NEW sc, NEW s, NEW B, BuilderOK(sc, s, B), NEW ms
  PROVE  [B EXCEPT !.phase = "open", !.muts = ms] = Opened(B, ms)
<1>1. [B EXCEPT !.phase = "open", !.muts = ms]
        \in [phase : {"open"}, muts : {ms}, saves : {B.saves}, ans : {B.ans}]
  BY BuilderFields
<1> QED
  BY <1>1, BuilderRecord DEF Opened

(* The builder that AskOld leaves. *)
LEMMA AsksTo ==
  ASSUME NEW sc, NEW s, NEW B, BuilderOK(sc, s, B), NEW ms
  PROVE  [B EXCEPT !.muts = ms] =
           [phase |-> B.phase, muts |-> ms, saves |-> B.saves, ans |-> B.ans]
<1>1. [B EXCEPT !.muts = ms]
        \in [phase : {B.phase}, muts : {ms}, saves : {B.saves}, ans : {B.ans}]
  BY BuilderFields
<1> QED
  BY <1>1, BuilderRecord

(* Open, on the table of builders. *)
LEMMA OpenIs ==
  ASSUME NEW sc, NEW s \in Session, b = [t \in Session |-> b[t]], BuilderOK(sc, s, b[s]),
         NEW ms, Open(s, ms)
  PROVE  Becomes(s, Opened(b[s], ms))
<1> DEFINE B == [b[s] EXCEPT !.phase = "open", !.muts = ms]
<1>1. b' = [b EXCEPT ![s] = B]
  BY DEF Open
<1>2. B = Opened(b[s], ms)
  BY OpensTo
<1> QED
  BY <1>1, <1>2 DEF Becomes

(* Close, on the table of builders. *)
LEMMA CloseIs ==
  ASSUME NEW s \in Session, NEW ans, NEW done, Close(s, ans, done)
  PROVE  Becomes(s, [phase |-> "closed", muts |-> Left(s, ans, done), saves |-> b[s].saves,
                     ans |-> ans])
BY DEF Close, Becomes

(* AskOld, on the table of builders. *)
LEMMA AskIs ==
  ASSUME NEW sc, NEW s \in Session, b = [t \in Session |-> b[t]], BuilderOK(sc, s, b[s]),
         AskOld(s)
  PROVE  Becomes(s, Asked(b[s], OldValue(sch, b[s].muts[1], rows)))
<1> DEFINE o == OldValue(sch, b[s].muts[1], rows)
           L == [b[s].muts EXCEPT ![1].old = o]
           B == [b[s] EXCEPT !.muts = L]
<1>1. b' = [b EXCEPT ![s] = B]
  BY DEF AskOld
<1> HIDE DEF L, o
<1>2. B = [phase |-> b[s].phase, muts |-> L, saves |-> b[s].saves, ans |-> b[s].ans]
  BY AsksTo
<1> QED
  BY <1>1, <1>2 DEF Becomes, Asked, L, o

(* Save, on the table of builders. *)
LEMMA SaveIs ==
  ASSUME NEW sc, NEW s \in Session, b = [t \in Session |-> b[t]], BuilderOK(sc, s, b[s]),
         Save(s)
  PROVE  \E ms \in withHooks(s, [k \in DOMAIN b[s].muts |-> Defaults(s, b[s].muts[k])]) :
            Becomes(s, Saved(b[s], ms))
BY DEF Save, Becomes, Saved

(* A sequence made index by index has the length of its model. *)
LEMMA SameLength ==
  ASSUME NEW S, NEW ms \in Seq(S), NEW T, NEW ns,
         ns = [k \in DOMAIN ms |-> ns[k]], \A k \in DOMAIN ms : ns[k] \in T
  PROVE  /\ ns \in Seq(T) /\ DOMAIN ns = DOMAIN ms /\ Len(ns) = Len(ms)
         /\ ms # << >> => ns # << >>
<1>1. DOMAIN ms = 1 .. Len(ms) /\ Len(ms) \in Nat
  OBVIOUS
<1>2. ns \in [1 .. Len(ms) -> T]
  BY <1>1
<1>3. ns \in Seq(T) /\ Len(ns) = Len(ms)
  BY <1>1, <1>2
<1> QED
  BY <1>1, <1>2, <1>3

(* A sequence that is not empty has a first element. *)
LEMMA HasFirst ==
  ASSUME NEW S, NEW ms \in Seq(S), ms # << >>
  PROVE  1 \in DOMAIN ms /\ ms[1] \in S /\ Len(ms) \in Nat \ {0}
OBVIOUS

(* The values that a session writes are not those of another. *)
LEMMA Foreign ==
  ASSUME NEW s \in Session
  PROVE  /\ s \notin Int \cup {Nil, Zero, Bad, Seed}
         /\ \A t \in Session \ {s} : s \notin Wanted(t) \cup {Nil}
BY ValueAssumption DEF Wanted

(* Reading a row brings up no value that was not in it, except zero. *)
LEMMA OldIsForeign ==
  ASSUME NEW sc, NEW s \in Session, NEW row \in Row(sc),
         \A c \in sc.columns : row[c] # s
  PROVE  \A c \in sc.columns : Scan(sc, row)[c] # s
BY ScanIs, Foreign

(* A builder of s that is given its calls has neither written nor read its *)
(* own values.                                                             *)
LEMMA OpenStep ==
  ASSUME NEW sc, NEW s \in Session, NEW t, NEW next, TableOK(sc, t, next),
         NEW B, BuilderOK(sc, s, B), OthersOnly(sc, s, t, B), B.phase = "idle",
         NEW ms, Calls(sc, s, t, ms)
  PROVE  BuilderOK(sc, s, Opened(B, ms)) /\ OthersOnly(sc, s, t, Opened(B, ms))
<1> DEFINE N == Opened(B, ms)
<1>1. /\ N = [phase |-> N.phase, muts |-> N.muts, saves |-> N.saves, ans |-> N.ans]
      /\ N.phase = "open" /\ N.muts = ms /\ N.saves = B.saves /\ N.ans = B.ans
  BY DEF Opened
<1> HIDE DEF N
<1>2. B.saves = 0 /\ B.ans = NoAnswer
  BY DEF BuilderOK
<1>3. BuilderOK(sc, s, N)
  BY <1>1, <1>2 DEF BuilderOK, Calls
<1>4. \A i \in DOMAIN t : \A c \in sc.columns : t[i][c] # s
  BY <1>2 DEF OthersOnly, HasWritten
<1>5. ASSUME NEW k \in DOMAIN ms, ms[k].old.state = "read", NEW c \in sc.columns
      PROVE  ms[k].old.row[c] # s
  <2>1. PICK i \in DOMAIN t : ms[k].old.row = Scan(sc, t[i])
    BY <1>5 DEF Calls
  <2>2. t[i] \in Row(sc) /\ \A x \in sc.columns : t[i][x] # s
    BY <1>4 DEF TableOK
  <2> QED
    BY <2>1, <2>2, OldIsForeign
<1>6. OthersOnly(sc, s, t, N)
  BY <1>1, <1>4, <1>5 DEF OthersOnly
<1> QED
  BY <1>3, <1>6 DEF N

(* One more call on the builder s is building. *)
LEMMA AgainIs ==
  ASSUME entity \in DOMAIN Schemas, NEW s \in Session, b = [t \in Session |-> b[t]],
         BuilderOK(sch, s, b[s]), CallAgain(s)
  PROVE  \E ms \in Seq(Mutation(sch, s)) :
            /\ DOMAIN ms = DOMAIN b[s].muts /\ ms # << >>
            /\ \A k \in DOMAIN ms : Numeric(sch, ms[k].set) /\ Continues(ms[k], b[s].muts[k])
            /\ Becomes(s, Opened(b[s], ms))
<1> DEFINE ms == b[s].muts
<1>1. b[s].phase = "open"
  BY DEF CallAgain
<1>2. PICK k \in DOMAIN ms : \E n \in UpdateCalls(s, ms[k], Offered(ms[k].op)) :
                                 b' = [b EXCEPT ![s].muts[k] = n]
  BY DEF CallAgain
<1>3. PICK n \in UpdateCalls(s, ms[k], Offered(ms[k].op)) : b' = [b EXCEPT ![s].muts[k] = n]
  BY <1>2
<1>4. ms \in Seq(Mutation(sch, s)) /\ \A j \in DOMAIN ms : Good(sch, s, ms[j])
  BY DEF BuilderOK, Good
<1>5. Good(sch, s, n) /\ Continues(n, ms[k])
  BY <1>3, <1>4, OfferedIs, UpdateCallsAreGood
<1> DEFINE ns == [ms EXCEPT ![k] = n]
           B == [b[s] EXCEPT !.muts = ns]
<1>6. b' = [b EXCEPT ![s] = B]
  BY <1>3
<1> HIDE DEF ns
<1>7. B = [phase |-> b[s].phase, muts |-> ns, saves |-> b[s].saves, ans |-> b[s].ans]
  BY AsksTo
<1>8. Becomes(s, Opened(b[s], ns))
  BY <1>1, <1>6, <1>7 DEF Becomes, Opened
<1> HIDE DEF ms
<1>9. /\ ns = [j \in DOMAIN ms |-> ns[j]] /\ ns[k] = n
      /\ \A j \in DOMAIN ms \ {k} : ns[j] = ms[j]
  BY DEF ns
<1>10. \A j \in DOMAIN ms : Good(sch, s, ns[j]) /\ Continues(ns[j], ms[j])
  BY <1>4, <1>5, <1>9 DEF Continues
<1>11. \A j \in DOMAIN ms : ns[j] \in Mutation(sch, s) /\ Numeric(sch, ns[j].set)
  BY <1>10 DEF Good
<1>12. ns \in Seq(Mutation(sch, s)) /\ DOMAIN ns = DOMAIN ms /\ ns # << >>
  BY <1>2, <1>4, <1>9, <1>11, SameLength
<1> QED
  BY <1>8, <1>10, <1>11, <1>12 DEF ms

(* More calls on a builder that is open leave it open. *)
LEMMA AgainStep ==
  ASSUME NEW sc, NEW s \in Session, NEW t, NEW B, BuilderOK(sc, s, B), OthersOnly(sc, s, t, B),
         B.phase = "open",
         NEW ms \in Seq(Mutation(sc, s)), DOMAIN ms = DOMAIN B.muts, ms # << >>,
         \A k \in DOMAIN ms : Numeric(sc, ms[k].set) /\ Continues(ms[k], B.muts[k])
  PROVE  BuilderOK(sc, s, Opened(B, ms)) /\ OthersOnly(sc, s, t, Opened(B, ms))
<1> DEFINE N == Opened(B, ms)
<1>1. /\ N = [phase |-> N.phase, muts |-> N.muts, saves |-> N.saves, ans |-> N.ans]
      /\ N.phase = "open" /\ N.muts = ms /\ N.saves = B.saves /\ N.ans = B.ans
  BY DEF Opened
<1> HIDE DEF N
<1>2. 1 \in DOMAIN ms
  BY HasFirst
<1>3. \A k \in DOMAIN ms : ms[k].op = ms[1].op
  BY <1>2 DEF BuilderOK, Continues
<1>4. BuilderOK(sc, s, N)
  BY <1>1, <1>3 DEF BuilderOK
<1>5. ~HasWritten(N) => ~HasWritten(B)
  BY <1>1 DEF HasWritten
<1>6. \A k \in DOMAIN ms : ms[k].old = B.muts[k].old
  BY DEF Continues
<1>7. OthersOnly(sc, s, t, N)
  BY <1>1, <1>5, <1>6 DEF OthersOnly
<1> QED
  BY <1>4, <1>7 DEF N

(* The mutations that Save leaves to the statement. *)
LEMMA HookedAre ==
  ASSUME entity \in DOMAIN Schemas, NEW s \in Session, NEW ms \in Seq(Mutation(sch, s)),
         ms # << >>, \A k \in DOMAIN ms : Numeric(sch, ms[k].set),
         NEW ns \in withHooks(s, [k \in DOMAIN ms |-> Defaults(s, ms[k])])
  PROVE  /\ ns \in Seq(Mutation(sch, s)) /\ DOMAIN ns = DOMAIN ms /\ ns # << >>
         /\ \A k \in DOMAIN ms : Numeric(sch, ns[k].set) /\ Continues(ns[k], ms[k])
         /\ ~hook => \A k \in DOMAIN ms : ns[k] = Defaults(s, ms[k])
<1> DEFINE ds == [k \in DOMAIN ms |-> Defaults(s, ms[k])]
<1>1. ASSUME NEW k \in DOMAIN ms
      PROVE  Good(sch, s, ds[k]) /\ Continues(ds[k], ms[k])
  BY DefaultsAreGood DEF Good
<1>2. ds = [k \in DOMAIN ms |-> ds[k]] /\ DOMAIN ds = DOMAIN ms
  OBVIOUS
<1>3. \A k \in DOMAIN ms : ds[k] = Defaults(s, ms[k])
  OBVIOUS
<1> HIDE DEF ds
<1>4. 1 \in DOMAIN ms
  BY HasFirst
<1>5. ns = ds \/ (hook /\ \E m \in HookCalls(s, ds[1]) : ns = [ds EXCEPT ![1] = m])
  BY DEF withHooks, ds
<1>6. CASE ns = ds
  <2>1. \A k \in DOMAIN ms : ds[k] \in Mutation(sch, s) /\ Numeric(sch, ds[k].set)
    BY <1>1 DEF Good
  <2> QED
    BY <1>1, <1>2, <1>3, <1>6, <2>1, SameLength
<1>7. ASSUME hook, NEW m \in HookCalls(s, ds[1]), ns = [ds EXCEPT ![1] = m]
      PROVE  /\ ns = [k \in DOMAIN ms |-> ns[k]]
             /\ \A k \in DOMAIN ms : Good(sch, s, ns[k]) /\ Continues(ns[k], ms[k])
  <2>1. Good(sch, s, m) /\ Continues(m, ds[1])
    BY <1>1, <1>4, <1>7, HookCallsAreGood
  <2>2. Continues(m, ms[1])
    BY <1>1, <1>4, <2>1 DEF Continues
  <2>3. ns[1] = m /\ \A k \in DOMAIN ms \ {1} : ns[k] = ds[k]
    BY <1>2, <1>4, <1>7
  <2>4. ns = [k \in DOMAIN ms |-> ns[k]]
    BY <1>2, <1>7
  <2> QED
    BY <1>1, <2>1, <2>2, <2>3, <2>4
<1>8. CASE hook /\ \E m \in HookCalls(s, ds[1]) : ns = [ds EXCEPT ![1] = m]
  <2>1. /\ ns = [k \in DOMAIN ms |-> ns[k]]
        /\ \A k \in DOMAIN ms : /\ ns[k] \in Mutation(sch, s) /\ Numeric(sch, ns[k].set)
                                /\ Continues(ns[k], ms[k])
    BY <1>7, <1>8 DEF Good
  <2> QED
    BY <1>8, <2>1, SameLength
<1> QED
  BY <1>5, <1>6, <1>8

(* A first Save has written nothing yet; a later one may have, and the     *)
(* invariant no longer says that it has not.                               *)
LEMMA SaveStep ==
  ASSUME NEW sc, NEW s \in Session, NEW t, NEW B, BuilderOK(sc, s, B), OthersOnly(sc, s, t, B),
         B.phase \in {"open", "closed"},
         NEW ms \in Seq(Mutation(sc, s)), DOMAIN ms = DOMAIN B.muts, ms # << >>,
         \A k \in DOMAIN ms : Numeric(sc, ms[k].set) /\ Continues(ms[k], B.muts[k])
  PROVE  BuilderOK(sc, s, Saved(B, ms)) /\ OthersOnly(sc, s, t, Saved(B, ms))
<1> DEFINE N == Saved(B, ms)
<1>1. /\ N = [phase |-> N.phase, muts |-> N.muts, saves |-> N.saves, ans |-> N.ans]
      /\ N.phase = "saving" /\ N.muts = ms /\ N.saves = B.saves + 1 /\ N.ans = NoAnswer
  BY DEF Saved
<1> HIDE DEF N
<1>2. 1 \in DOMAIN ms
  BY HasFirst
<1>3. \A k \in DOMAIN ms : ms[k].op = ms[1].op
  BY <1>2 DEF BuilderOK, Continues
<1>4. BuilderOK(sc, s, N)
  <2>1. B.saves + 1 \in Nat /\ B.saves + 1 >= 1
    BY DEF BuilderOK
  <2> QED
    BY <1>1, <1>3, <2>1 DEF BuilderOK
<1>5. OthersOnly(sc, s, t, N)
  <2>1. CASE B.phase = "open"
    <3>1. B.saves = 0 /\ B.ans = NoAnswer /\ NoAnswer.is # "error"
      BY <2>1 DEF BuilderOK, NoAnswer
    <3>2. \A i \in DOMAIN t : \A c \in sc.columns : t[i][c] # s
      BY <2>1, <3>1 DEF OthersOnly, HasWritten
    <3>3. \A k \in DOMAIN ms : ms[k].old.state = "read" =>
             \A c \in sc.columns : ms[k].old.row[c] # s
      BY <3>1 DEF OthersOnly, Continues
    <3> QED
      BY <1>1, <3>2, <3>3 DEF OthersOnly
  <2>2. CASE B.phase = "closed"
    <3>1. N.saves > 1
      BY <1>1, <2>2 DEF BuilderOK
    <3>2. ~(N.saves <= 1)
      BY <1>1, <3>1 DEF BuilderOK
    <3> QED
      BY <3>1, <3>2 DEF OthersOnly, HasWritten
  <2> QED
    BY <2>1, <2>2
<1> QED
  BY <1>4, <1>5 DEF N

(* An old value is read from the table once; until a statement of s may    *)
(* have taken effect, the table holds nothing of s.                        *)
LEMMA AskStep ==
  ASSUME NEW sc, NEW s \in Session, NEW t, NEW next, TableOK(sc, t, next),
         NEW B, BuilderOK(sc, s, B), OthersOnly(sc, s, t, B),
         B.phase # "idle", B.muts[1].old = Unread
  PROVE  LET N == Asked(B, OldValue(sc, B.muts[1], t))
         IN BuilderOK(sc, s, N) /\ OthersOnly(sc, s, t, N)
<1> DEFINE m == B.muts[1]
           o == OldValue(sc, m, t)
           n == [m EXCEPT !.old = o]
           ms == [B.muts EXCEPT ![1] = n]
           N == Asked(B, o)
<1>1. 1 \in DOMAIN B.muts /\ B.muts \in Seq(Mutation(sc, s)) /\ B.muts # << >>
  BY HasFirst DEF BuilderOK
<1>2. m \in Mutation(sc, s) /\ Numeric(sc, m.set)
  BY <1>1, HasFirst DEF BuilderOK
<1>3. /\ o \in Old(sc)
      /\ o.state = "read" => ~m.done /\ \E i \in DOMAIN t : o.row = Scan(sc, t[i])
  BY <1>2, OldValueIs
<1>4. ms = [B.muts EXCEPT ![1].old = o]
  OBVIOUS
<1> HIDE DEF o
<1>5. n \in Mutation(sc, s) /\ n.set = m.set /\ n.op = m.op /\ n.done = m.done /\ n.old = o
  BY <1>2, <1>3 DEF Mutation
<1> HIDE DEF n
<1>6. ms[1] = n /\ \A k \in DOMAIN B.muts \ {1} : ms[k] = B.muts[k]
  BY <1>1
<1>7. ms \in Seq(Mutation(sc, s)) /\ DOMAIN ms = DOMAIN B.muts /\ ms # << >>
  <2>1. ms = [k \in DOMAIN B.muts |-> ms[k]]
    OBVIOUS
  <2>2. \A k \in DOMAIN B.muts : ms[k] \in Mutation(sc, s)
    BY <1>1, <1>5, <1>6
  <2> HIDE DEF ms
  <2> QED
    BY <1>1, <2>1, <2>2, SameLength
<1>8. /\ N = [phase |-> N.phase, muts |-> N.muts, saves |-> N.saves, ans |-> N.ans]
      /\ N.phase = B.phase /\ N.muts = ms /\ N.saves = B.saves /\ N.ans = B.ans
  BY <1>4 DEF Asked
<1> HIDE DEF ms, N
<1>9. BuilderOK(sc, s, N)
  <2>1. \A k \in DOMAIN ms : /\ Numeric(sc, ms[k].set) /\ ms[k].op = B.muts[k].op
                             /\ ms[k].done = B.muts[k].done
    BY <1>2, <1>5, <1>6, <1>7 DEF BuilderOK
  <2> QED
    BY <1>1, <1>7, <1>8, <2>1 DEF BuilderOK
<1>10. OthersOnly(sc, s, t, N)
  <2>1. ~HasWritten(N) => \A i \in DOMAIN t : \A c \in sc.columns : t[i][c] # s
    BY <1>8 DEF OthersOnly, HasWritten
  <2>2. ASSUME N.saves <= 1, N.ans.is # "error", o.state = "read", NEW c \in sc.columns
        PROVE  o.row[c] # s
    <3>1. ~HasWritten(N)
      BY <1>1, <1>3, <1>8, <2>2 DEF HasWritten, BuilderOK
    <3>2. PICK i \in DOMAIN t : o.row = Scan(sc, t[i])
      BY <1>3, <2>2
    <3>3. t[i] \in Row(sc) /\ \A x \in sc.columns : t[i][x] # s
      BY <2>1, <3>1 DEF TableOK
    <3> QED
      BY <3>2, <3>3, OldIsForeign
  <2>3. ASSUME N.saves <= 1, N.ans.is # "error", NEW k \in DOMAIN ms,
               ms[k].old.state = "read", NEW c \in sc.columns
        PROVE  ms[k].old.row[c] # s
    <3>1. CASE k = 1
      BY <1>5, <1>6, <2>2, <2>3, <3>1
    <3>2. CASE k # 1
      BY <1>6, <1>7, <1>8, <2>3, <3>2 DEF OthersOnly
    <3> QED
      BY <3>1, <3>2
  <2> QED
    BY <1>8, <2>1, <2>3 DEF OthersOnly
<1> QED
  BY <1>9, <1>10 DEF N, o

(* l is what is left of m. *)
Remains(l, m, done) ==
  /\ l.op = m.op /\ l.old = m.old /\ l.done = done
  /\ l.set = m.set \/ DOMAIN l.set = {}
  /\ Touched(l) \subseteq Touched(m)

(* What is left of the mutations when the statement has been answered. *)
LEMMA LeftAre ==
  ASSUME NEW sc, NEW s \in Session, NEW ans, NEW done \in BOOLEAN, BuilderOK(sc, s, b[s])
  PROVE  LET ls == Left(s, ans, done)
             ms == b[s].muts
         IN /\ ls \in Seq(Mutation(sc, s)) /\ DOMAIN ls = DOMAIN ms
            /\ ms # << >> => ls # << >>
            /\ \A k \in DOMAIN ms : Numeric(sc, ls[k].set) /\ Remains(ls[k], ms[k], done)
<1> DEFINE ms == b[s].muts
           ls == Left(s, ans, done)
           Kept(m) == [m EXCEPT !.done = done]
<1>1. ms \in Seq(Mutation(sc, s)) /\ \A k \in DOMAIN ms : Numeric(sc, ms[k].set)
  BY DEF BuilderOK
<1>2. \A k \in DOMAIN ms : ms[k] \in Mutation(sc, s)
  BY <1>1
<1>3. ASSUME NEW m \in Mutation(sc, s), Numeric(sc, m.set)
      PROVE  LET l == Kept(m)
             IN /\ l \in Mutation(sc, s) /\ l.op = m.op /\ l.old = m.old /\ l.done = done
                /\ l.set = m.set /\ Numeric(sc, l.set) /\ Touched(l) \subseteq Touched(m)
  <2> DEFINE l == Kept(m)
  <2>1. /\ l \in Mutation(sc, s) /\ l.op = m.op /\ l.old = m.old /\ l.done = done
        /\ l.set = m.set /\ l.added = m.added /\ l.cleared = m.cleared
    BY DEF Mutation
  <2> HIDE DEF l
  <2> QED
    BY <1>3, <2>1 DEF Touched, l
<1>4. ASSUME NEW m \in Mutation(sc, s)
      PROVE  LET l == Spent(m, done)
             IN /\ l \in Mutation(sc, s) /\ l.op = m.op /\ l.old = m.old /\ l.done = done
                /\ DOMAIN l.set = {} /\ Numeric(sc, l.set) /\ Touched(l) = {}
  <2> DEFINE o == NewMutation(m.op, m.id)
             l == [o EXCEPT !.done = done, !.old = m.old]
  <2>1. /\ o \in Mutation(sc, s) /\ o.op = m.op /\ DOMAIN o.set = {} /\ DOMAIN o.added = {}
        /\ o.cleared = {}
    <3>1. m.op \in Op /\ m.id \in Int
      BY DEF Mutation
    <3> QED
      BY <3>1, NewMutationIs
  <2>2. l = Spent(m, done)
    BY DEF Spent
  <2> HIDE DEF o
  <2>3. /\ l \in Mutation(sc, s) /\ l.op = o.op /\ l.old = m.old /\ l.done = done
        /\ l.set = o.set /\ l.added = o.added /\ l.cleared = o.cleared
    BY <2>1 DEF Mutation
  <2> HIDE DEF l
  <2> QED
    BY <2>1, <2>2, <2>3 DEF Touched, Numeric
<1>5. \/ ls = [k \in DOMAIN ms |-> Kept(ms[k])]
      \/ ls = [k \in DOMAIN ms |-> Spent(ms[k], done)]
  BY DEF Left
<1> HIDE DEF ms, ls, Kept
<1>6. /\ ls = [k \in DOMAIN ms |-> ls[k]]
      /\ \A k \in DOMAIN ms : ls[k] = Kept(ms[k]) \/ ls[k] = Spent(ms[k], done)
  BY <1>5
<1>7. ASSUME NEW k \in DOMAIN ms
      PROVE  /\ ls[k] \in Mutation(sc, s)
             /\ Numeric(sc, ls[k].set) /\ ls[k].op = ms[k].op /\ ls[k].old = ms[k].old
             /\ ls[k].done = done
             /\ ls[k].set = ms[k].set \/ DOMAIN ls[k].set = {}
             /\ Touched(ls[k]) \subseteq Touched(ms[k])
  <2>1. CASE ls[k] = Kept(ms[k])
    BY <1>1, <1>2, <1>3, <2>1
  <2>2. CASE ls[k] = Spent(ms[k], done)
    BY <1>2, <1>4, <2>2
  <2> QED
    BY <1>6, <2>1, <2>2
<1>8. ls \in Seq(Mutation(sc, s)) /\ DOMAIN ls = DOMAIN ms /\ (ms # << >> => ls # << >>)
  BY <1>1, <1>6, <1>7, SameLength
<1>9. \A k \in DOMAIN ms : Numeric(sc, ls[k].set) /\ Remains(ls[k], ms[k], done)
  BY <1>7 DEF Remains
<1> QED
  BY <1>8, <1>9 DEF ms, ls

(* The answer to a statement of s; with an error that left the table alone *)
(* nothing of s is in it yet.                                              *)
LEMMA CloseStep ==
  ASSUME NEW sc, NEW s \in Session, NEW t, NEW u,
         BuilderOK(sc, s, b[s]), OthersOnly(sc, s, t, b[s]), b[s].phase = "saving",
         NEW ans, NEW done \in BOOLEAN, ans.is = "ok" => done,
         ans.is \notin {"ok", "error"} => \A i \in DOMAIN u : i \in DOMAIN t /\ u[i] = t[i]
  PROVE  LET N == [phase |-> "closed", muts |-> Left(s, ans, done), saves |-> b[s].saves,
                   ans |-> ans]
         IN BuilderOK(sc, s, N) /\ OthersOnly(sc, s, u, N)
<1> DEFINE ls == Left(s, ans, done)
           N == [phase |-> "closed", muts |-> ls, saves |-> b[s].saves, ans |-> ans]
<1>1. /\ ls \in Seq(Mutation(sc, s)) /\ DOMAIN ls = DOMAIN b[s].muts /\ ls # << >>
      /\ \A k \in DOMAIN b[s].muts :
            /\ Numeric(sc, ls[k].set) /\ ls[k].op = b[s].muts[k].op
            /\ ls[k].old = b[s].muts[k].old /\ ls[k].done = done
  <2>1. b[s].muts # << >>
    BY DEF BuilderOK
  <2>2. /\ ls \in Seq(Mutation(sc, s)) /\ DOMAIN ls = DOMAIN b[s].muts /\ ls # << >>
        /\ \A k \in DOMAIN b[s].muts : /\ Numeric(sc, ls[k].set)
                                       /\ Remains(ls[k], b[s].muts[k], done)
    BY <2>1, LeftAre
  <2> HIDE DEF ls
  <2> QED
    BY <2>2 DEF Remains
<1> HIDE DEF ls
<1>2. /\ N = [phase |-> N.phase, muts |-> N.muts, saves |-> N.saves, ans |-> N.ans]
      /\ N.phase = "closed" /\ N.muts = ls /\ N.saves = b[s].saves /\ N.ans = ans
  OBVIOUS
<1> HIDE DEF N
<1>3. BuilderOK(sc, s, N)
  <2>1. 1 \in DOMAIN ls
    BY <1>1, HasFirst
  <2> QED
    BY <1>1, <1>2, <2>1 DEF BuilderOK
<1>4. b[s].ans.is # "error"
  BY DEF BuilderOK, NoAnswer
<1>5. ASSUME ~HasWritten(N), NEW i \in DOMAIN u, NEW c \in sc.columns
      PROVE  u[i][c] # s
  <2>1. ans.is \notin {"ok", "error"} /\ ~(N.saves > 1)
    BY <1>2, <1>5 DEF HasWritten
  <2>2. ~HasWritten(b[s])
    BY <1>2, <2>1 DEF HasWritten
  <2> QED
    BY <1>5, <2>1, <2>2 DEF OthersOnly
<1>6. OthersOnly(sc, s, u, N)
  BY <1>1, <1>2, <1>4, <1>5 DEF OthersOnly
<1> QED
  BY <1>3, <1>6 DEF N, ls

(* A builder of another goroutine: s writes only its own values, numbers,  *)
(* zero and NULL, so what the other has read stays foreign to the other.   *)
LEMMA OtherStep ==
  ASSUME NEW sc, NEW s \in Session, NEW o \in Session \ {s}, NEW t, NEW u, NEW B,
         OthersOnly(sc, o, t, B),
         \A i \in DOMAIN u : \A c \in sc.columns :
            \/ u[i][c] \in {Nil} \cup Wanted(s)
            \/ i \in DOMAIN t /\ u[i][c] = t[i][c]
  PROVE  OthersOnly(sc, o, u, B)
<1>1. o \notin {Nil} \cup Wanted(s)
  BY Foreign
<1> QED
  BY <1>1 DEF OthersOnly

-----------------------------------------------------------------------------
(* Statements and their answers.                                           *)

(* A statement of s with the mutation m makes u of the table t. *)
Writes(sc, s, m, t, u, next) ==
  /\ TableOK(sc, u, next) /\ ValidTable(sc, u)
  /\ \A i \in DOMAIN u : \A c \in sc.columns :
        \/ u[i][c] \in {Nil} \cup Wanted(s)
        \/ i \in DOMAIN t /\ u[i][c] = t[i][c]
  /\ \A i \in DOMAIN t \cap DOMAIN u :
        /\ \A c \in sc.columns : u[i][c] # t[i][c] => i \in Targets(m, t) /\ c \in Touched(m)
        /\ \A c \in sc.immutable : u[i][c] = t[i][c]
  /\ m.op \notin {"Delete", "DeleteOne"} => DOMAIN t \subseteq DOMAIN u
  /\ m.op = "Create" => \A i \in DOMAIN t \cap DOMAIN u : u[i] = t[i]

Statement(s) ==
  \/ CheckRefuses(s) \/ DriverFails(s) \/ Insert(s) \/ UpdateNodes(s) \/ UpdateNode(s)
  \/ DeleteNodes(s) \/ DeleteNode(s)

(* The answer to a statement of s. *)
Answers(s, ans, done) ==
  /\ Close(s, ans, done) /\ done \in BOOLEAN
  /\ ans.is = "ok" => done
  /\ ans.is \notin {"ok", "error"} => rows' = rows
  /\ AnswerFits(s, ans)

(* The fields of an answer. *)
LEMMA AnswerIs ==
  ASSUME NEW is, NEW n, NEW nodes
  PROVE  LET a == Answer(is, n, nodes) IN a.is = is /\ a.n = n /\ a.nodes = nodes
BY DEF Answer

(* An answer without entities. *)
LEMMA NoNodes == DOMAIN NoAnswer.nodes = {}
BY DEF NoAnswer

(* A statement without effect. *)
LEMMA NothingWritten ==
  ASSUME NEW sc, Fitting(sc), NEW s, NEW m, NEW t, NEW next, TableOK(sc, t, next), ValidTable(sc, t)
  PROVE  Writes(sc, s, m, t, t, next)
BY DEF Writes, Fitting

(* An error that left the table alone answers truthfully. *)
LEMMA RefusalFits ==
  ASSUME NEW s, NEW is \in {"invalid", "constraint", "notfound", "error"}, rows' = rows,
         is = "notfound" => b[s].muts[1].id \notin DOMAIN rows
  PROVE  AnswerFits(s, Answer(is, 0, NoAnswer.nodes))
<1> DEFINE ans == Answer(is, 0, NoAnswer.nodes)
<1>1. ans.is = is /\ ans.nodes = NoAnswer.nodes
  BY AnswerIs
<1> HIDE DEF ans
<1>2. DOMAIN ans.nodes = {} /\ DOMAIN rows' \ DOMAIN rows = {}
  BY <1>1, NoNodes
<1>3. AnswerFits(s, ans)
  BY <1>1, <1>2 DEF AnswerFits
<1> QED
  BY <1>3 DEF ans

(* NoEffect leaves the table and answers with an error. *)
LEMMA NoEffectAnswers ==
  ASSUME NEW s \in Session, NEW is \in {"invalid", "constraint", "notfound"}, NoEffect(s, is),
         is = "notfound" => b[s].muts[1].id \notin DOMAIN rows
  PROVE  Answers(s, Answer(is, 0, NoAnswer.nodes), FALSE)
<1>1. rows' = rows /\ Close(s, Answer(is, 0, NoAnswer.nodes), FALSE)
  BY DEF NoEffect
<1>2. AnswerFits(s, Answer(is, 0, NoAnswer.nodes))
  BY <1>1, RefusalFits
<1>3. Answer(is, 0, NoAnswer.nodes).is = is
  BY AnswerIs
<1> QED
  BY <1>1, <1>2, <1>3 DEF Answers

(* The statement took effect: the answer arrived, or an error. *)
LEMMA EffectAnswers ==
  ASSUME NEW s \in Session, NEW after, NEW ans, Effect(s, after, ans),
         ans.is \in {"ok", "notfound"}, ans.is = "notfound" => after = rows,
         AnswerFits(s, ans),
         LET new == DOMAIN after \ DOMAIN rows
         IN new # {} => Cardinality(new) = Len(b[s].muts)
  PROVE  \E a, done : Answers(s, a, done)
<1> DEFINE e == Answer("error", 0, NoAnswer.nodes)
           d == b[s].muts[1].op \in {"Delete", "DeleteOne"}
<1>1. rows' = after /\ (Close(s, ans, TRUE) \/ Close(s, e, d))
  BY DEF Effect
<1>2. CASE Close(s, ans, TRUE)
  <2>1. Answers(s, ans, TRUE)
    BY <1>1, <1>2 DEF Answers
  <2> QED
    BY <2>1
<1>3. CASE Close(s, e, d)
  <2>1. e.is = "error" /\ e.nodes = NoAnswer.nodes
    BY AnswerIs
  <2>2. d \in BOOLEAN
    OBVIOUS
  <2> HIDE DEF e, d
  <2>3. DOMAIN e.nodes = {}
    BY <2>1, NoNodes
  <2>4. AnswerFits(s, e)
    BY <1>1, <2>1, <2>3 DEF AnswerFits
  <2>5. Answers(s, e, d)
    BY <1>3, <2>1, <2>2, <2>4 DEF Answers
  <2> QED
    BY <2>5
<1> QED
  BY <1>1, <1>2, <1>3

(* What a statement finds: the mutations of its builder, a table in order. *)
LEMMA SendingIs ==
  ASSUME StoreInv, NEW s \in Session, b[s].phase = "saving"
  PROVE  /\ Fitting(sch) /\ b[s].muts \in Seq(Mutation(sch, s)) /\ Len(b[s].muts) \in Nat \ {0}
         /\ 1 \in DOMAIN b[s].muts /\ b[s].muts[1] \in Mutation(sch, s)
         /\ b[s].muts[1].id \in Int
         /\ \A k \in DOMAIN b[s].muts : /\ Numeric(sch, b[s].muts[k].set)
                                        /\ b[s].muts[k].op = b[s].muts[1].op
<1>1. BuilderOK(sch, s, b[s]) /\ entity \in DOMAIN Schemas
  BY DEF StoreInv
<1>2. b[s].muts \in Seq(Mutation(sch, s)) /\ b[s].muts # << >>
  BY <1>1 DEF BuilderOK
<1>3. 1 \in DOMAIN b[s].muts /\ b[s].muts[1] \in Mutation(sch, s) /\ Len(b[s].muts) \in Nat \ {0}
  BY <1>2, HasFirst
<1> QED
  BY <1>1, <1>2, <1>3, SchemaFits DEF BuilderOK, Mutation

(* sqlSave of Create and CreateBulk. *)
LEMMA InsertWrites ==
  ASSUME StoreInv, NEW s \in Session, Insert(s)
  PROVE  /\ b[s].phase = "saving" /\ entity' = entity /\ hook' = hook
         /\ Writes(sch, s, b[s].muts[1], rows, rows', nextId')
         /\ \E ans, done : Answers(s, ans, done)
<1> DEFINE ms == b[s].muts
           after == AfterInsert(sch, ms, rows, nextId)
           nodes == CreatedNodes(sch, ms, nextId)
           ans == Answer("ok", Len(ms), nodes)
           new == DOMAIN after \ DOMAIN rows
<1>1. b[s].phase = "saving" /\ ms[1].op = "Create" /\ \A k \in DOMAIN ms : Check(sch, ms[k])
  BY DEF Insert, Sending, Checked
<1>2. /\ Fitting(sch) /\ ms \in Seq(Mutation(sch, s)) /\ Len(ms) \in Nat \ {0}
      /\ \A k \in DOMAIN ms : Numeric(sch, ms[k].set) /\ ms[k].op = "Create"
  BY <1>1, SendingIs
<1>3. TableOK(sch, rows, nextId) /\ ValidTable(sch, rows)
  BY DEF StoreInv
<1>4. /\ TableOK(sch, after, nextId + Len(ms)) /\ DOMAIN rows \subseteq DOMAIN after
      /\ \A i \in DOMAIN rows : after[i] = rows[i]
      /\ new = nextId .. nextId + Len(ms) - 1 /\ Cardinality(new) = Len(ms)
      /\ \A i \in new : /\ ValidRow(sch, after[i])
                        /\ \A c \in sch.columns : after[i][c] \in {Nil} \cup Wanted(s)
      /\ ReadBack(sch, nodes, after)
  <2>1. \A k \in DOMAIN ms : /\ ms[k].op = "Create" /\ Numeric(sch, ms[k].set)
                              /\ Check(sch, ms[k])
    BY <1>1, <1>2
  <2>2. Fitting(sch) /\ ms \in Seq(Mutation(sch, s))
    BY <1>2
  <2>3. TableOK(sch, rows, nextId)
    BY <1>3
  <2> HIDE DEF ms
  <2>4. TableOK(sch, after, nextId + Len(ms)) /\ DOMAIN rows \subseteq DOMAIN after
    BY <2>1, <2>2, <2>3, AfterInsertIs, Zenon
  <2>5. \A i \in DOMAIN rows : after[i] = rows[i]
    BY <2>1, <2>2, <2>3, AfterInsertIs, Zenon
  <2>6. new = nextId .. nextId + Len(ms) - 1 /\ Cardinality(new) = Len(ms)
    BY <2>1, <2>2, <2>3, AfterInsertIs, Zenon
  <2>7. \A i \in new : ValidRow(sch, after[i])
    BY <2>1, <2>2, <2>3, AfterInsertIs, Zenon
  <2>8. \A i \in new : \A c \in sch.columns : after[i][c] \in {Nil} \cup Wanted(s)
    BY <2>1, <2>2, <2>3, AfterInsertIs, Zenon
  <2>9. ReadBack(sch, nodes, after)
    BY <2>1, <2>2, <2>3, AfterInsertIs, Zenon
  <2> HIDE DEF new, after, nodes
  <2> QED
    BY <2>4, <2>5, <2>6, <2>7, <2>8, <2>9
<1>5. DOMAIN nodes = new /\ \A i \in DOMAIN nodes : nodes[i] = Scan(sch, after[i])
  BY <1>4 DEF CreatedNodes, ReadBack
<1>6. ans.is = "ok" /\ ans.nodes = nodes
  BY AnswerIs
<1>7. \/ /\ Effect(s, after, ans) /\ nextId' = nextId + Len(ms)
      \/ NoEffect(s, "constraint")
  BY DEF Insert, CreatedNodes
<1> HIDE DEF ms, after, nodes, ans
<1>8. Writes(sch, s, ms[1], rows, after, nextId + Len(ms))
  <2>1. ValidTable(sch, after)
    BY <1>3, <1>4 DEF ValidTable
  <2>2. \A i \in DOMAIN after : i \in DOMAIN rows \/ i \in new
    OBVIOUS
  <2>3. \A i \in DOMAIN rows \cap DOMAIN after : \A c \in sch.immutable : after[i][c] = rows[i][c]
    BY <1>4
  <2> HIDE DEF new
  <2> QED
    BY <1>4, <2>1, <2>2, <2>3 DEF Writes
<1>9. CASE Effect(s, after, ans) /\ nextId' = nextId + Len(ms)
  <2>1. rows' = after /\ entity' = entity /\ hook' = hook
    BY <1>9 DEF Effect
  <2>2. AnswerFits(s, ans)
    BY <1>1, <1>4, <1>5, <1>6, <2>1 DEF AnswerFits, ms
  <2>3. \E a, done : Answers(s, a, done)
    BY <1>4, <1>6, <1>9, <2>2, EffectAnswers DEF ms
  <2> QED
    BY <1>1, <1>8, <1>9, <2>1, <2>3 DEF ms
<1>10. CASE NoEffect(s, "constraint")
  <2>1. rows' = rows /\ entity' = entity /\ hook' = hook /\ nextId' = nextId
    BY <1>10 DEF NoEffect
  <2>2. Writes(sch, s, b[s].muts[1], rows, rows, nextId)
    BY <1>2, <1>3, NothingWritten
  <2> QED
    BY <1>1, <1>10, <2>1, <2>2, NoEffectAnswers
<1> QED
  BY <1>7, <1>9, <1>10

(* The UPDATE of a checked mutation writes what Writes allows. *)
LEMMA UpdateWrites ==
  ASSUME StoreInv, NEW s \in Session, b[s].phase = "saving", Checked(s),
         b[s].muts[1].op \in {"Update", "UpdateOne"}
  PROVE  LET after == AfterUpdate(sch, b[s].muts[1], rows)
         IN /\ Writes(sch, s, b[s].muts[1], rows, after, nextId)
            /\ DOMAIN after = DOMAIN rows
            /\ Cardinality({i \in DOMAIN rows : after[i] # rows[i]})
                  <= Affected(sch, b[s].muts[1], rows)
<1> DEFINE m == b[s].muts[1]
           after == AfterUpdate(sch, m, rows)
<1>1. Fitting(sch) /\ m \in Mutation(sch, s) /\ Numeric(sch, m.set) /\ Check(sch, m)
  BY SendingIs DEF Checked
<1>2. TableOK(sch, rows, nextId) /\ ValidTable(sch, rows)
  BY DEF StoreInv
<1>3. m.op \in {"Update", "UpdateOne"}
  OBVIOUS
<1> HIDE DEF m
<1>4. /\ TableOK(sch, after, nextId) /\ DOMAIN after = DOMAIN rows
      /\ \A i \in DOMAIN rows : \A c \in sch.columns :
            /\ after[i][c] \in {rows[i][c], Nil} \cup Wanted(s)
            /\ after[i][c] # rows[i][c] => i \in Targets(m, rows) /\ c \in Touched(m)
      /\ \A i \in DOMAIN rows : \A c \in sch.immutable : after[i][c] = rows[i][c]
      /\ Check(sch, m) /\ m.op \in {"Update", "UpdateOne"} /\ ValidTable(sch, rows)
           => ValidTable(sch, after)
      /\ Cardinality({i \in DOMAIN rows : after[i] # rows[i]}) <= Affected(sch, m, rows)
  <2>1. Fitting(sch) /\ m \in Mutation(sch, s) /\ Numeric(sch, m.set)
    BY <1>1
  <2>2. TableOK(sch, rows, nextId)
    BY <1>2
  <2> QED
    BY <2>1, <2>2, AfterUpdateIs, Zenon
<1> HIDE DEF after
<1>5. Writes(sch, s, m, rows, after, nextId)
  BY <1>1, <1>2, <1>3, <1>4 DEF Writes
<1> QED
  BY <1>4, <1>5 DEF m, after

(* What every statement of s and its answer do. *)
Runs(s) ==
  /\ b[s].phase = "saving" /\ entity' = entity /\ hook' = hook
  /\ Writes(sch, s, b[s].muts[1], rows, rows', nextId')
  /\ \E ans, done : Answers(s, ans, done)

(* Errors of the check and of the database. *)
LEMMA RefusalRuns ==
  ASSUME StoreInv, NEW s \in Session, b[s].phase = "saving",
         NEW is \in {"invalid", "constraint", "notfound"}, NoEffect(s, is),
         is = "notfound" => b[s].muts[1].id \notin DOMAIN rows
  PROVE  Runs(s)
<1>1. rows' = rows /\ entity' = entity /\ hook' = hook /\ nextId' = nextId
  BY DEF NoEffect
<1>2. Writes(sch, s, b[s].muts[1], rows, rows, nextId)
  BY SendingIs, NothingWritten DEF StoreInv
<1>3. \E ans, done : Answers(s, ans, done)
  BY NoEffectAnswers
<1> QED
  BY <1>1, <1>2, <1>3 DEF Runs

(* A mutation that the check refuses is not sent. *)
LEMMA CheckRefusesRuns ==
  ASSUME StoreInv, NEW s \in Session, CheckRefuses(s)
  PROVE  Runs(s)
BY RefusalRuns DEF CheckRefuses

(* The driver fails before the statement has an effect. *)
LEMMA DriverFailsRuns ==
  ASSUME StoreInv, NEW s \in Session, DriverFails(s)
  PROVE  Runs(s)
<1> DEFINE e == Answer("error", 0, NoAnswer.nodes)
           d == b[s].muts[1].op \in {"Delete", "DeleteOne"}
<1>1. /\ b[s].phase = "saving" /\ Close(s, e, d)
      /\ rows' = rows /\ entity' = entity /\ hook' = hook /\ nextId' = nextId
  BY DEF DriverFails
<1>2. Writes(sch, s, b[s].muts[1], rows, rows, nextId)
  BY <1>1, SendingIs, NothingWritten DEF StoreInv
<1>3. AnswerFits(s, e)
  BY <1>1, RefusalFits
<1>4. e.is = "error" /\ d \in BOOLEAN
  BY AnswerIs
<1> HIDE DEF e, d
<1>5. Answers(s, e, d)
  BY <1>1, <1>3, <1>4 DEF Answers
<1> QED
  BY <1>1, <1>2, <1>5 DEF Runs

(* sqlSave of Update answers with a count. *)
LEMMA UpdateNodesRuns ==
  ASSUME StoreInv, NEW s \in Session, UpdateNodes(s)
  PROVE  Runs(s)
<1> DEFINE m == b[s].muts[1]
           after == AfterUpdate(sch, m, rows)
           n == Affected(sch, m, rows)
           ans == Answer("ok", n, NoAnswer.nodes)
<1>1. b[s].phase = "saving" /\ m.op = "Update" /\ Checked(s)
  BY DEF UpdateNodes, Sending
<1>2. /\ Writes(sch, s, m, rows, after, nextId) /\ DOMAIN after = DOMAIN rows
      /\ Cardinality({i \in DOMAIN rows : after[i] # rows[i]}) <= n
  <2>1. m.op \in {"Update", "UpdateOne"}
    BY <1>1
  <2> QED
    BY <1>1, <2>1, UpdateWrites, Zenon
<1>3. (Effect(s, after, ans) /\ nextId' = nextId) \/ NoEffect(s, "constraint")
  BY DEF UpdateNodes
<1>4. ans.is = "ok" /\ ans.n = n /\ DOMAIN ans.nodes = {}
  BY AnswerIs, NoNodes
<1> HIDE DEF after, ans, n
<1>5. CASE Effect(s, after, ans) /\ nextId' = nextId
  <2>1. rows' = after /\ entity' = entity /\ hook' = hook
    BY <1>5 DEF Effect
  <2>2. Cardinality({i \in Both : rows'[i] # rows[i]}) <= n
    <3>1. {i \in Both : rows'[i] # rows[i]} = {i \in DOMAIN rows : after[i] # rows[i]}
      BY <1>2, <2>1 DEF Both
    <3> QED
      BY <1>2, <3>1
  <2>3. DOMAIN rows' \ DOMAIN rows = {}
    BY <1>2, <2>1
  <2>4. AnswerFits(s, ans)
    BY <1>1, <1>4, <2>2, <2>3 DEF AnswerFits
  <2>5. \E a, done : Answers(s, a, done)
    BY <1>2, <1>4, <1>5, <2>4, EffectAnswers
  <2> QED
    BY <1>1, <1>2, <1>5, <2>1, <2>5 DEF Runs
<1>6. CASE NoEffect(s, "constraint")
  BY <1>1, <1>6, RefusalRuns
<1> QED
  BY <1>3, <1>5, <1>6

(* sqlSave of UpdateOne reads the entity back. *)
LEMMA UpdateNodeRuns ==
  ASSUME StoreInv, NEW s \in Session, UpdateNode(s)
  PROVE  Runs(s)
<1> DEFINE m == b[s].muts[1]
           after == AfterUpdate(sch, m, rows)
           nodes == [i \in {m.id} |-> Scan(sch, after[i])]
           ans == Answer("ok", 1, nodes)
<1>1. b[s].phase = "saving" /\ m.op = "UpdateOne" /\ Checked(s)
  BY DEF UpdateNode, Sending
<1>2. Writes(sch, s, m, rows, after, nextId) /\ DOMAIN after = DOMAIN rows
  <2>1. m.op \in {"Update", "UpdateOne"}
    BY <1>1
  <2> QED
    BY <1>1, <2>1, UpdateWrites, Zenon
<1>3. \/ Effect(s, after, ans) /\ nextId' = nextId
      \/ NoEffect(s, "constraint")
      \/ NoEffect(s, "notfound") /\ m.id \notin DOMAIN rows
  BY DEF UpdateNode
<1>4. ans.is = "ok" /\ ans.nodes = nodes
  BY AnswerIs
<1>5. \A i \in DOMAIN nodes : nodes[i] = Scan(sch, after[i])
  OBVIOUS
<1> HIDE DEF after, nodes, ans
<1>6. CASE Effect(s, after, ans) /\ nextId' = nextId
  <2>1. rows' = after /\ entity' = entity /\ hook' = hook
    BY <1>6 DEF Effect
  <2>2. DOMAIN rows' \ DOMAIN rows = {}
    BY <1>2, <2>1
  <2>3. AnswerFits(s, ans)
    BY <1>1, <1>4, <1>5, <2>1, <2>2 DEF AnswerFits
  <2>4. \E a, done : Answers(s, a, done)
    BY <1>2, <1>4, <1>6, <2>3, EffectAnswers
  <2> QED
    BY <1>1, <1>2, <1>6, <2>1, <2>4 DEF Runs
<1>7. CASE NoEffect(s, "constraint")
  BY <1>1, <1>7, RefusalRuns
<1>8. CASE NoEffect(s, "notfound") /\ m.id \notin DOMAIN rows
  BY <1>1, <1>8, RefusalRuns
<1> QED
  BY <1>3, <1>6, <1>7, <1>8

(* A DELETE takes rows out and changes none; when it selects no row, the   *)
(* one row that DeleteOne is for is not there.                             *)
LEMMA DeleteWrites ==
  ASSUME StoreInv, NEW s \in Session, b[s].phase = "saving",
         b[s].muts[1].op \in {"Delete", "DeleteOne"}
  PROVE  LET m == b[s].muts[1]
             after == AfterDelete(m, rows)
         IN /\ Writes(sch, s, m, rows, after, nextId) /\ DOMAIN after \subseteq DOMAIN rows
            /\ Cardinality(Targets(m, rows)) = 0 =>
                  /\ after = rows
                  /\ m.op = "DeleteOne" => m.id \notin DOMAIN rows
<1> DEFINE m == b[s].muts[1]
           after == AfterDelete(m, rows)
<1>1. TableOK(sch, rows, nextId) /\ ValidTable(sch, rows) /\ Fitting(sch)
  BY SendingIs DEF StoreInv
<1>2. m.op \in {"Delete", "DeleteOne"}
  OBVIOUS
<1> HIDE DEF m
<1>3. /\ TableOK(sch, after, nextId) /\ DOMAIN after = DOMAIN rows \ Targets(m, rows)
      /\ \A i \in DOMAIN after : after[i] = rows[i]
      /\ Targets(m, rows) = {} => after = rows
  BY <1>1 DEF AfterDelete, TableOK
<1> HIDE DEF after
<1>4. ASSUME Cardinality(Targets(m, rows)) = 0
      PROVE  after = rows /\ (m.op = "DeleteOne" => m.id \notin DOMAIN rows)
  <2>1. IsFiniteSet(Targets(m, rows))
    BY <1>1, TableIsFinite, TargetsAreRows, FS_Subset
  <2>2. Targets(m, rows) = {}
    BY <1>4, <2>1, FS_EmptySet
  <2> QED
    BY <1>3, <2>2 DEF Targets
<1>5. Writes(sch, s, m, rows, after, nextId)
  <2>1. ValidTable(sch, after)
    BY <1>1, <1>3 DEF ValidTable
  <2>2. sch.immutable \subseteq sch.columns
    BY <1>1 DEF Fitting
  <2> QED
    BY <1>2, <1>3, <2>1, <2>2 DEF Writes
<1> QED
  BY <1>3, <1>4, <1>5 DEF m, after

(* The two deletes differ in what they make of 'no row'. *)
LEMMA DeleteRuns ==
  ASSUME StoreInv, NEW s \in Session, b[s].phase = "saving",
         b[s].muts[1].op \in {"Delete", "DeleteOne"},
         NEW ans, ans.is \in {"ok", "notfound"}, DOMAIN ans.nodes = {},
         ans.is = "notfound" => /\ b[s].muts[1].op = "DeleteOne"
                                /\ Cardinality(Targets(b[s].muts[1], rows)) = 0,
         Effect(s, AfterDelete(b[s].muts[1], rows), ans), nextId' = nextId
  PROVE  Runs(s)
<1> DEFINE m == b[s].muts[1]
           after == AfterDelete(m, rows)
<1>1. /\ Writes(sch, s, m, rows, after, nextId) /\ DOMAIN after \subseteq DOMAIN rows
      /\ ans.is = "notfound" => after = rows /\ m.id \notin DOMAIN rows
  BY DeleteWrites
<1>2. Effect(s, after, ans)
  OBVIOUS
<1> HIDE DEF after
<1>3. rows' = after /\ entity' = entity /\ hook' = hook
  BY <1>2 DEF Effect
<1>4. DOMAIN rows' \ DOMAIN rows = {}
  BY <1>1, <1>3
<1>5. AnswerFits(s, ans)
  BY <1>1, <1>3, <1>4 DEF AnswerFits
<1>6. \E a, done : Answers(s, a, done)
  BY <1>1, <1>2, <1>5, EffectAnswers
<1> QED
  BY <1>1, <1>3, <1>6 DEF Runs

(* sqlExec of Delete answers with a count. *)
LEMMA DeleteNodesRuns ==
  ASSUME StoreInv, NEW s \in Session, DeleteNodes(s)
  PROVE  Runs(s)
<1> DEFINE ans == Answer("ok", Cardinality(Targets(b[s].muts[1], rows)), NoAnswer.nodes)
<1>1. /\ b[s].phase = "saving" /\ b[s].muts[1].op = "Delete"
      /\ Effect(s, AfterDelete(b[s].muts[1], rows), ans) /\ nextId' = nextId
  BY DEF DeleteNodes, Sending
<1>2. ans.is = "ok" /\ DOMAIN ans.nodes = {}
  BY AnswerIs, NoNodes
<1> HIDE DEF ans
<1> QED
  BY <1>1, <1>2, DeleteRuns

(* DeleteOne turns a count of zero into NotFoundError. *)
LEMMA DeleteNodeRuns ==
  ASSUME StoreInv, NEW s \in Session, DeleteNode(s)
  PROVE  Runs(s)
<1> DEFINE n == Cardinality(Targets(b[s].muts[1], rows))
           is == IF n = 0 THEN "notfound" ELSE "ok"
           ans == Answer(is, n, NoAnswer.nodes)
<1>1. /\ b[s].phase = "saving" /\ b[s].muts[1].op = "DeleteOne"
      /\ Effect(s, AfterDelete(b[s].muts[1], rows), ans) /\ nextId' = nextId
  BY DEF DeleteNode, Sending
<1>2. ans.is = is /\ DOMAIN ans.nodes = {}
  BY AnswerIs, NoNodes
<1>3. is \in {"ok", "notfound"} /\ (is = "notfound" => n = 0)
  OBVIOUS
<1> HIDE DEF ans, is
<1> QED
  BY <1>1, <1>2, <1>3, DeleteRuns

(* Whatever a builder in Save sends, the statement and its answer do no    *)
(* more than Runs says.                                                    *)
LEMMA StatementRuns ==
  ASSUME StoreInv, NEW s \in Session, Statement(s)
  PROVE  Runs(s)
<1>1. CASE Insert(s)
  BY <1>1, InsertWrites DEF Runs
<1> QED
  BY <1>1, CheckRefusesRuns, DriverFailsRuns, UpdateNodesRuns, UpdateNodeRuns,
     DeleteNodesRuns, DeleteNodeRuns DEF Statement

-----------------------------------------------------------------------------
(* StoreInv is kept.                                                       *)

(* A step of s changes the builder of s and what it writes into the table. *)
LEMMA BuilderStep ==
  ASSUME StoreInv, NEW s \in Session, NEW N, Becomes(s, N), entity' = entity,
         BuilderOK(sch, s, N), OthersOnly(sch, s, rows', N),
         TableOK(sch, rows', nextId'), ValidTable(sch, rows'),
         \A i \in DOMAIN rows' : \A c \in sch.columns :
            \/ rows'[i][c] \in {Nil} \cup Wanted(s)
            \/ i \in DOMAIN rows /\ rows'[i][c] = rows[i][c]
  PROVE  StoreInv'
<1>1. sch' = sch
  BY DEF sch
<1>2. b = [o \in Session |-> b[o]]
  BY DEF StoreInv
<1>3. b' = [o \in Session |-> b'[o]] /\ b'[s] = N /\ \A o \in Session \ {s} : b'[o] = b[o]
  BY <1>2 DEF Becomes
<1>4. ASSUME NEW o \in Session
      PROVE  BuilderOK(sch, o, b'[o]) /\ OthersOnly(sch, o, rows', b'[o])
  <2>1. CASE o = s
    BY <1>3, <2>1
  <2>2. CASE o # s
    <3>1. BuilderOK(sch, o, b[o]) /\ OthersOnly(sch, o, rows, b[o]) /\ b'[o] = b[o]
      BY <1>3, <2>2 DEF StoreInv
    <3>2. OthersOnly(sch, o, rows', b[o])
      BY <2>2, <3>1, OtherStep
    <3> QED
      BY <3>1, <3>2
  <2> QED
    BY <2>1, <2>2
<1>5. entity' \in DOMAIN Schemas
  BY DEF StoreInv
<1> QED
  BY <1>1, <1>3, <1>4, <1>5 DEF StoreInv

(* A step of s that changes nothing but its builder. *)
LEMMA QuietStep ==
  ASSUME StoreInv, NEW s \in Session, NEW N, Becomes(s, N),
         UNCHANGED <<entity, hook, rows, nextId>>,
         BuilderOK(sch, s, N), OthersOnly(sch, s, rows, N)
  PROVE  StoreInv'
<1>1. TableOK(sch, rows, nextId) /\ ValidTable(sch, rows)
  BY DEF StoreInv
<1>2. \A i \in DOMAIN rows : \A c \in sch.columns :
            \/ rows[i][c] \in {Nil} \cup Wanted(s)
            \/ i \in DOMAIN rows /\ rows[i][c] = rows[i][c]
  OBVIOUS
<1> QED
  BY <1>1, <1>2, BuilderStep

(* StoreInv for one builder. *)
LEMMA BuilderIs ==
  ASSUME StoreInv, NEW s \in Session
  PROVE  /\ BuilderOK(sch, s, b[s]) /\ OthersOnly(sch, s, rows, b[s])
         /\ TableOK(sch, rows, nextId) /\ entity \in DOMAIN Schemas
         /\ b = [o \in Session |-> b[o]]
BY DEF StoreInv

(* Opening a builder keeps StoreInv. *)
LEMMA CallsKeep ==
  ASSUME StoreInv, NEW s \in Session, b[s].phase = "idle",
         NEW ms, Calls(sch, s, rows, ms), Open(s, ms)
  PROVE  StoreInv' /\ Becomes(s, Opened(b[s], ms)) /\ UNCHANGED <<entity, hook, rows, nextId>>
<1>1. UNCHANGED <<entity, hook, rows, nextId>>
  BY DEF Open
<1>2. Becomes(s, Opened(b[s], ms))
  BY BuilderIs, OpenIs
<1>3. BuilderOK(sch, s, Opened(b[s], ms)) /\ OthersOnly(sch, s, rows, Opened(b[s], ms))
  BY BuilderIs, OpenStep
<1> QED
  BY <1>1, <1>2, <1>3, QuietStep

(* What a caller does with a builder that is open. *)
Talks(s) == CallAgain(s) \/ AskOld(s)

(* One more call keeps StoreInv. *)
LEMMA AgainKeeps ==
  ASSUME StoreInv, NEW s \in Session, CallAgain(s)
  PROVE  StoreInv' /\ \E N : Becomes(s, N) /\ N.phase = b[s].phase
<1>1. UNCHANGED <<entity, hook, rows, nextId>> /\ b[s].phase = "open"
  BY DEF CallAgain
<1>2. PICK ms \in Seq(Mutation(sch, s)) :
         /\ DOMAIN ms = DOMAIN b[s].muts /\ ms # << >>
         /\ \A k \in DOMAIN ms : Numeric(sch, ms[k].set) /\ Continues(ms[k], b[s].muts[k])
         /\ Becomes(s, Opened(b[s], ms))
  BY BuilderIs, AgainIs
<1>3. BuilderOK(sch, s, Opened(b[s], ms)) /\ OthersOnly(sch, s, rows, Opened(b[s], ms))
  BY <1>1, <1>2, BuilderIs, AgainStep
<1>4. Opened(b[s], ms).phase = b[s].phase
  BY <1>1 DEF Opened
<1> QED
  BY <1>1, <1>2, <1>3, <1>4, QuietStep

(* Asking for an old value keeps StoreInv. *)
LEMMA AskKeeps ==
  ASSUME StoreInv, NEW s \in Session, AskOld(s)
  PROVE  StoreInv' /\ \E N : Becomes(s, N) /\ N.phase = b[s].phase
<1> DEFINE N == Asked(b[s], OldValue(sch, b[s].muts[1], rows))
<1>1. UNCHANGED <<entity, hook, rows, nextId>> /\ b[s].phase # "idle" /\ b[s].muts[1].old = Unread
  BY DEF AskOld
<1>2. Becomes(s, N)
  BY BuilderIs, AskIs
<1>3. BuilderOK(sch, s, N) /\ OthersOnly(sch, s, rows, N)
  BY <1>1, BuilderIs, AskStep
<1>4. N.phase = b[s].phase
  BY DEF Asked
<1> HIDE DEF N
<1> QED
  BY <1>1, <1>2, <1>3, <1>4, QuietStep

(* Neither touches more than its builder, which stays in its phase. *)
LEMMA TalkKeeps ==
  ASSUME StoreInv, NEW s \in Session, Talks(s)
  PROVE  /\ StoreInv' /\ UNCHANGED <<entity, hook, rows, nextId>>
         /\ \E N : Becomes(s, N) /\ N.phase = b[s].phase
<1>1. UNCHANGED <<entity, hook, rows, nextId>>
  BY DEF Talks, CallAgain, AskOld
<1> QED
  BY <1>1, AgainKeeps, AskKeeps DEF Talks

(* Save keeps StoreInv and gives the builder the mutations with their      *)
(* defaults.                                                               *)
LEMMA SaveKeeps ==
  ASSUME StoreInv, NEW s \in Session, Save(s)
  PROVE  /\ StoreInv' /\ UNCHANGED <<entity, hook, rows, nextId>>
         /\ \E ms : /\ Becomes(s, Saved(b[s], ms)) /\ DOMAIN ms = DOMAIN b[s].muts
                    /\ \A k \in DOMAIN ms : Continues(ms[k], b[s].muts[k])
                    /\ ~hook => \A k \in DOMAIN ms : ms[k] = Defaults(s, b[s].muts[k])
<1>1. /\ UNCHANGED <<entity, hook, rows, nextId>> /\ b[s].phase \in {"open", "closed"}
  BY DEF Save
<1>2. PICK ms \in withHooks(s, [k \in DOMAIN b[s].muts |-> Defaults(s, b[s].muts[k])]) :
         Becomes(s, Saved(b[s], ms))
  BY BuilderIs, SaveIs
<1>3. /\ b[s].muts \in Seq(Mutation(sch, s)) /\ b[s].muts # << >>
      /\ \A k \in DOMAIN b[s].muts : Numeric(sch, b[s].muts[k].set)
  BY <1>1, BuilderIs DEF BuilderOK
<1>4. /\ ms \in Seq(Mutation(sch, s)) /\ DOMAIN ms = DOMAIN b[s].muts /\ ms # << >>
      /\ \A k \in DOMAIN ms : Numeric(sch, ms[k].set) /\ Continues(ms[k], b[s].muts[k])
      /\ ~hook => \A k \in DOMAIN ms : ms[k] = Defaults(s, b[s].muts[k])
  BY <1>3, BuilderIs, HookedAre
<1>5. BuilderOK(sch, s, Saved(b[s], ms)) /\ OthersOnly(sch, s, rows, Saved(b[s], ms))
  BY <1>1, <1>4, BuilderIs, SaveStep
<1>6. StoreInv'
  BY <1>1, <1>2, <1>5, QuietStep
<1> QED
  BY <1>1, <1>2, <1>4, <1>6

(* A statement and its answer keep StoreInv. *)
LEMMA RunKeeps ==
  ASSUME StoreInv, NEW s \in Session, Runs(s)
  PROVE  StoreInv'
<1>1. /\ b[s].phase = "saving" /\ entity' = entity
      /\ Writes(sch, s, b[s].muts[1], rows, rows', nextId')
  BY DEF Runs
<1>2. PICK ans, done : Answers(s, ans, done)
  BY DEF Runs
<1> DEFINE N == [phase |-> "closed", muts |-> Left(s, ans, done), saves |-> b[s].saves,
                 ans |-> ans]
<1>3. Becomes(s, N)
  BY <1>2, CloseIs DEF Answers
<1>4. /\ done \in BOOLEAN /\ (ans.is = "ok" => done)
      /\ ans.is \notin {"ok", "error"} =>
            \A i \in DOMAIN rows' : i \in DOMAIN rows /\ rows'[i] = rows[i]
  BY <1>2 DEF Answers
<1>5. BuilderOK(sch, s, N) /\ OthersOnly(sch, s, rows', N)
  BY <1>1, <1>4, BuilderIs, CloseStep
<1> HIDE DEF N
<1>6. /\ TableOK(sch, rows', nextId') /\ ValidTable(sch, rows')
      /\ \A i \in DOMAIN rows' : \A c \in sch.columns :
            \/ rows'[i][c] \in {Nil} \cup Wanted(s)
            \/ i \in DOMAIN rows /\ rows'[i][c] = rows[i][c]
  BY <1>1 DEF Writes
<1> QED
  BY <1>1, <1>3, <1>5, <1>6, BuilderStep
=============================================================================
