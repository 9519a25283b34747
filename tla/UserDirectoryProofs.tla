------------------------- MODULE UserDirectoryProofs --------------------------
(***************************************************************************)
(* The generated client with any callers, and the server's list of users   *)
(* while registrations, logins and switches write them.                    *)
(*                                                                         *)
(* StepInv adds to StoreInv that the server's own callers never change a   *)
(* name or delete a user. WalkInv is about the reader: the place of a user *)
(* in the list is its rank, the number of users with a greater id;         *)
(* registrations get greater ids and so only raise ranks. What the reader  *)
(* has not met is therefore at or behind the next page, and a page that    *)
(* ends the walk leaves no place when the total it was counted with is     *)
(* still right.                                                            *)
(***************************************************************************)
EXTENDS UserDirectory, EntStoreProofs

-----------------------------------------------------------------------------
(* The server's writers.                                                   *)

(* Builders as the server uses them: none deletes, and a name is given once. *)
Plain(ms) ==
  \A k \in DOMAIN ms : /\ ms[k].op \in {"Create", "UpdateOne"}
                       /\ ms[k].op = "UpdateOne" => "username" \notin Touched(ms[k])

(* The server's own callers work on users, without a hook. *)
ServerOnly ==
  walk.phase # "off" => entity = "users" /\ ~hook /\ \A s \in Session : Plain(b[s].muts)

(* A new mutation names no column. *)
LEMMA FreshIs ==
  ASSUME NEW sc, NEW s, NEW op \in Op, NEW i \in Int
  PROVE  LET m == NewMutation(op, i)
         IN Good(sc, s, m) /\ Touched(m) = {} /\ m.op = op /\ m.old = Unread
<1>1. Good(sc, s, NewMutation(op, i)) /\ Touched(NewMutation(op, i)) = {}
  BY NewIsGood, Zenon
<1> QED
  BY <1>1 DEF NewMutation

(* The columns that the server's repositories name. *)
LEMMA UsersHave ==
  ASSUME entity = "users"
  PROVE  /\ entity \in DOMAIN Schemas
         /\ {"username", "password_hash", "last_login_at", "updated_at", "disabled"}
              \subseteq sch.columns
         /\ sch.table.key = {"username"} /\ "username" \notin sch.oneDefaults
<1>1. /\ entity \in DOMAIN Schemas /\ sch.table.key = {"username"}
      /\ {"username", "password_hash", "last_login_at", "updated_at", "disabled"}
              \subseteq sch.columns
  BY UsersAssumption DEF sch
<1>2. "username" \notin sch.oneDefaults
  BY <1>1, SchemaFits DEF Fitting
<1> QED
  BY <1>1, <1>2

(* Setting only columns that are not keys. *)
LEMMA PlainSetting ==
  ASSUME entity = "users", NEW s \in Session, NEW i \in Int,
         NEW C \in SUBSET {"password_hash", "last_login_at", "updated_at", "disabled"}
  PROVE  LET m == SetColumns(NewMutation("UpdateOne", i), [c \in C |-> s])
         IN Calls(sch, s, rows, <<m>>) /\ Plain(<<m>>)
<1> DEFINE o == NewMutation("UpdateOne", i)
           f == [c \in C |-> s]
           m == SetColumns(o, f)
<1>1. Good(sch, s, o) /\ Touched(o) = {} /\ o.op = "UpdateOne" /\ o.old = Unread
  <2>1. "UpdateOne" \in Op
    BY DEF Op
  <2> QED
    BY <2>1, FreshIs
<1>2. C \subseteq sch.columns /\ C \cap sch.table.key = {} /\ entity \in DOMAIN Schemas
  BY UsersHave
<1>3. f \in ColumnMap(sch.columns, Wanted(s)) /\ DOMAIN f = C
  <2>1. f \in [C -> Wanted(s)]
    BY DEF Wanted
  <2>2. DOMAIN f = C
    OBVIOUS
  <2> HIDE DEF f
  <2>3. C \in SUBSET sch.columns
    BY <1>2
  <2>4. f \in ColumnMap(sch.columns, Wanted(s))
    BY <2>1, <2>3, MakesMap, Zenon
  <2> QED
    BY <2>2, <2>4
<1>4. Numeric(sch, f)
  BY <1>2, <1>3, SchemaFits DEF Numeric, Fitting, Counters
<1> HIDE DEF o, f
<1>5. Good(sch, s, m) /\ Continues(m, o) /\ Touched(m) \subseteq Touched(o) \cup DOMAIN f
  BY <1>1, <1>3, <1>4, SettingIsGood
<1> HIDE DEF m
<1>6. m.op = "UpdateOne" /\ m.old = Unread /\ "username" \notin Touched(m)
  BY <1>1, <1>3, <1>5 DEF Continues
<1>7. Calls(sch, s, rows, <<m>>)
  BY <1>5, <1>6, NothingRead, OneCall
<1>8. Plain(<<m>>)
  BY <1>6 DEF Plain
<1> QED
  BY <1>7, <1>8 DEF m, o, f

(* CreateUser, UpdateUserLastLogin and SetUserDisabled open builders as    *)
(* above, and none of them changes the name of a user that exists.         *)
LEMMA ServerCalls ==
  ASSUME entity = "users", NEW s \in Session, Server(s)
  PROVE  \E ms : Calls(sch, s, rows, ms) /\ Open(s, ms) /\ Plain(ms)
<1>0. LET o == NewMutation("Create", 0)
      IN Good(sch, s, o) /\ o.op = "Create" /\ o.old = Unread
  <2>1. "Create" \in Op /\ 0 \in Int
    BY DEF Op
  <2> QED
    BY <2>1, FreshIs
<1>1. ASSUME CreateUser(s)
      PROVE  \E ms : Calls(sch, s, rows, ms) /\ Open(s, ms) /\ Plain(ms)
  <2> DEFINE o == NewMutation("Create", 0)
             F(name) == [c \in {"username", "password_hash"} |->
                            IF c = "username" THEN name ELSE s]
  <2>1. PICK name \in 1 .. MaxName : Open(s, <<SetColumns(o, F(name))>>)
    BY <1>1 DEF CreateUser, RepoWrites
  <2> DEFINE f == F(name)
             m == SetColumns(o, f)
  <2>2. Good(sch, s, o) /\ o.op = "Create" /\ o.old = Unread
    BY <1>0
  <2>3. f \in [{"username", "password_hash"} -> Wanted(s)] /\ f["username"] \in Int
    BY DEF Wanted
  <2>4. DOMAIN f = {"username", "password_hash"}
    OBVIOUS
  <2>5. Open(s, <<m>>)
    BY <2>1
  <2> HIDE DEF o, f
  <2>6. f \in ColumnMap(sch.columns, Wanted(s))
    BY <2>3, UsersHave, MakesMap
  <2>7. Numeric(sch, f)
    BY <2>3, <2>4, UsersHave, SchemaFits DEF Numeric, Fitting, Counters
  <2>8. Good(sch, s, m) /\ Continues(m, o)
    BY <2>2, <2>6, <2>7, SettingIsGood
  <2> HIDE DEF m
  <2>9. m.op = "Create" /\ m.old = Unread
    BY <2>2, <2>8 DEF Continues
  <2>10. Calls(sch, s, rows, <<m>>)
    BY <2>8, <2>9, NothingRead, OneCall
  <2>11. Plain(<<m>>)
    BY <2>9 DEF Plain
  <2> QED
    BY <2>5, <2>10, <2>11
<1>2. ASSUME NEW i \in Ids, UpdateUserLastLogin(s, i)
      PROVE  \E ms : Calls(sch, s, rows, ms) /\ Open(s, ms) /\ Plain(ms)
  <2> DEFINE C == {"last_login_at", "updated_at"}
             ms == <<SetColumns(NewMutation("UpdateOne", i), [c \in C |-> s])>>
  <2>1. Calls(sch, s, rows, ms) /\ Plain(ms)
    <3>1. i \in Int /\ C \in SUBSET {"password_hash", "last_login_at", "updated_at", "disabled"}
      BY IdAssumption
    <3> HIDE DEF C
    <3> QED
      BY <3>1, PlainSetting
  <2>2. Open(s, ms)
    BY <1>2 DEF UpdateUserLastLogin, RepoWrites
  <2> QED
    BY <2>1, <2>2
<1>3. ASSUME NEW i \in Ids, SetUserDisabled(s, i)
      PROVE  \E ms : Calls(sch, s, rows, ms) /\ Open(s, ms) /\ Plain(ms)
  <2> DEFINE C == {"disabled"}
             ms == <<SetColumns(NewMutation("UpdateOne", i), [c \in C |-> s])>>
  <2>1. Calls(sch, s, rows, ms) /\ Plain(ms)
    <3>1. i \in Int /\ C \in SUBSET {"password_hash", "last_login_at", "updated_at", "disabled"}
      BY IdAssumption
    <3> HIDE DEF C
    <3> QED
      BY <3>1, PlainSetting
  <2>2. Open(s, ms)
    BY <1>3 DEF SetUserDisabled, RepoWrites
  <2> QED
    BY <2>1, <2>2
<1> QED
  BY <1>1, <1>2, <1>3 DEF Server

(* The rows that are there at the start are valid and nobody's of the run. *)
LEMMA SeedRowIs ==
  ASSUME NEW sc, Fitting(sc), NEW k \in Int
  PROVE  /\ SeedRow(sc, k) \in Row(sc) /\ Numeric(sc, SeedRow(sc, k))
         /\ ValidRow(sc, SeedRow(sc, k))
         /\ \A s \in Session : \A c \in sc.columns : SeedRow(sc, k)[c] # s
<1> DEFINE r == SeedRow(sc, k)
<1>1. /\ r = [c \in sc.columns |-> r[c]]
      /\ \A c \in sc.columns :
            \/ c \in sc.table.key /\ r[c] = k
            \/ c \notin sc.table.key /\ c \in sc.table.null /\ r[c] = Nil
            \/ c \notin sc.table.key /\ r[c] = Seed
  BY DEF SeedRow
<1> HIDE DEF r
<1>2. r \in Row(sc)
  BY <1>1 DEF Row, Value
<1>3. Numeric(sc, r)
  BY <1>1 DEF Numeric, Fitting, Counters
<1>4. ValidRow(sc, r)
  BY <1>1, ValueAssumption DEF ValidRow, Refuses
<1>5. \A s \in Session : \A c \in sc.columns : r[c] # s
  BY <1>1, Foreign
<1> QED
  BY <1>2, <1>3, <1>4, <1>5 DEF r

(* A table of such rows and idle builders satisfies StoreInv. *)
LEMMA StartIs ==
  ASSUME NEW Tables \in SUBSET DOMAIN Schemas, NEW n \in Nat, NEW hooked,
         StoreInit(Tables, n, hooked)
  PROVE  StoreInv
<1>1. /\ entity \in DOMAIN Schemas /\ rows = [i \in 1 .. n |-> SeedRow(sch, i)]
      /\ nextId = n + 1 /\ b = [s \in Session |-> Idle]
  BY DEF StoreInit
<1>2. \A i \in DOMAIN rows : /\ rows[i] \in Row(sch) /\ Numeric(sch, rows[i])
                             /\ ValidRow(sch, rows[i])
                             /\ \A s \in Session : \A c \in sch.columns : rows[i][c] # s
  <2>1. \A i \in 1 .. n : rows[i] = SeedRow(sch, i) /\ i \in Int
    BY <1>1
  <2>2. DOMAIN rows = 1 .. n /\ Fitting(sch)
    BY <1>1, SchemaFits
  <2> QED
    BY <2>1, <2>2, SeedRowIs
<1>3. TableOK(sch, rows, nextId)
  <2>1. /\ nextId \in Int /\ nextId >= 1 /\ DOMAIN rows \subseteq 1 .. nextId - 1
        /\ rows = [i \in DOMAIN rows |-> rows[i]]
    BY <1>1
  <2> QED
    BY <1>2, <2>1 DEF TableOK
<1>4. ASSUME NEW s \in Session
      PROVE  BuilderOK(sch, s, b[s]) /\ OthersOnly(sch, s, rows, b[s])
  <2> DEFINE B == b[s]
  <2>1. /\ B = [phase |-> B.phase, muts |-> B.muts, saves |-> B.saves, ans |-> B.ans]
        /\ B.phase = "idle" /\ B.muts = << >> /\ B.saves = 0 /\ B.ans = NoAnswer
    BY <1>1 DEF Idle
  <2> HIDE DEF B
  <2>2. << >> \in Seq(Mutation(sch, s)) /\ DOMAIN << >> = {}
    OBVIOUS
  <2>3. BuilderOK(sch, s, B)
    BY <2>1, <2>2 DEF BuilderOK
  <2>4. OthersOnly(sch, s, rows, B)
    BY <1>2, <2>1, <2>2 DEF OthersOnly
  <2> QED
    BY <2>3, <2>4 DEF B
<1>5. ValidTable(sch, rows) /\ b = [s \in Session |-> b[s]]
  BY <1>1, <1>2 DEF ValidTable
<1> QED
  BY <1>1, <1>3, <1>4, <1>5 DEF StoreInv

(* What is true of the builders and the table in every state. *)
StepInv == StoreInv /\ ServerOnly

(* Both starts, any caller's and the server's, satisfy StepInv. *)
LEMMA StepInvInit == DirInit => StepInv
<1> SUFFICES ASSUME DirInit PROVE StepInv
  OBVIOUS
<1>1. CASE StoreInit(DOMAIN Schemas, 1, TRUE) /\ walk = NoReader
  <2>1. StoreInv
    BY <1>1, StartIs
  <2>2. walk.phase = "off"
    BY <1>1 DEF NoReader, Reader
  <2> QED
    BY <2>1, <2>2 DEF StepInv, ServerOnly
<1>2. CASE StoreInit({"users"}, 2, FALSE)
  <2>1. StoreInv
    BY <1>2, StartIs, UsersAssumption
  <2>2. entity = "users" /\ hook = FALSE /\ \A s \in Session : b[s].muts = << >>
    BY <1>2 DEF StoreInit, Idle
  <2> QED
    BY <2>1, <2>2 DEF StepInv, ServerOnly, Plain
<1> QED
  BY <1>1, <1>2 DEF DirInit

(* What a step of a builder of s does to the other builders. *)
LEMMA PlainStep ==
  ASSUME StepInv, NEW s \in Session, NEW N, Becomes(s, N),
         UNCHANGED <<entity, hook, walk>>, walk.phase # "off" => Plain(N.muts)
  PROVE  ServerOnly'
<1>1. b = [o \in Session |-> b[o]]
  BY DEF StepInv, StoreInv
<1>2. b'[s] = N /\ \A o \in Session \ {s} : b'[o] = b[o]
  BY <1>1 DEF Becomes
<1> QED
  BY <1>2 DEF StepInv, ServerOnly

(* The defaults of UpdateOne set no name. *)
LEMMA DefaultsPlain ==
  ASSUME entity = "users", NEW s \in Session, NEW m, Good(sch, s, m), m.op = "UpdateOne",
         "username" \notin Touched(m)
  PROVE  "username" \notin Touched(Defaults(s, m))
<1>1. entity \in DOMAIN Schemas /\ "username" \notin sch.oneDefaults
  BY UsersHave
<1>2. Touched(Defaults(s, m)) \subseteq Touched(m) \cup sch.oneDefaults
  BY <1>1, DefaultsAreGood
<1> QED
  BY <1>1, <1>2

(* What a statement leaves in a builder sets no name either. *)
LEMMA LeftPlain ==
  ASSUME NEW sc, NEW s \in Session, NEW ans, NEW done \in BOOLEAN, BuilderOK(sc, s, b[s]),
         Plain(b[s].muts)
  PROVE  Plain(Left(s, ans, done))
<1> DEFINE ls == Left(s, ans, done)
<1>1. /\ DOMAIN ls = DOMAIN b[s].muts
      /\ \A k \in DOMAIN b[s].muts : Remains(ls[k], b[s].muts[k], done)
  BY LeftAre
<1> HIDE DEF ls
<1>2. Plain(ls)
  BY <1>1 DEF Plain, Remains
<1> QED
  BY <1>2 DEF ls

(* Save and the statements are what a goroutine in Saving may do. *)
LEMMA SavingIs == ASSUME NEW s, Saving(s) PROVE Save(s) \/ Statement(s)
BY DEF Saving, Statement

(* Save keeps StepInv. *)
LEMMA SavePlain ==
  ASSUME StepInv, NEW s \in Session, Save(s), UNCHANGED walk
  PROVE  StepInv'
<1>1. StoreInv' /\ UNCHANGED <<entity, hook, rows, nextId>>
  BY SaveKeeps DEF StepInv
<1>2. PICK ms : /\ Becomes(s, Saved(b[s], ms)) /\ DOMAIN ms = DOMAIN b[s].muts
                /\ \A k \in DOMAIN ms : Continues(ms[k], b[s].muts[k])
                /\ ~hook => \A k \in DOMAIN ms : ms[k] = Defaults(s, b[s].muts[k])
  BY SaveKeeps DEF StepInv
<1>3. ASSUME walk.phase # "off"
      PROVE  Plain(ms)
  <2>1. entity = "users" /\ ~hook /\ Plain(b[s].muts)
    BY <1>3 DEF StepInv, ServerOnly
  <2>2. \A k \in DOMAIN b[s].muts : Good(sch, s, b[s].muts[k])
    <3>1. BuilderOK(sch, s, b[s])
      BY BuilderIs DEF StepInv
    <3>2. /\ b[s].muts \in Seq(Mutation(sch, s))
          /\ \A k \in DOMAIN b[s].muts : Numeric(sch, b[s].muts[k].set)
      BY <3>1 DEF BuilderOK
    <3>3. \A k \in DOMAIN b[s].muts : b[s].muts[k] \in Mutation(sch, s)
      BY <3>2
    <3> QED
      BY <3>2, <3>3 DEF Good
  <2> SUFFICES ASSUME NEW k \in DOMAIN ms
               PROVE  /\ ms[k].op \in {"Create", "UpdateOne"}
                      /\ ms[k].op = "UpdateOne" => "username" \notin Touched(ms[k])
    BY DEF Plain
  <2> DEFINE m == b[s].muts[k]
  <2>3. /\ Good(sch, s, m) /\ m.op \in {"Create", "UpdateOne"}
        /\ m.op = "UpdateOne" => "username" \notin Touched(m)
        /\ ms[k] = Defaults(s, m) /\ ms[k].op = m.op
    BY <1>2, <2>1, <2>2 DEF Plain, Continues
  <2> HIDE DEF m
  <2> QED
    BY <2>1, <2>3, DefaultsPlain
<1>4. Saved(b[s], ms).muts = ms
  BY DEF Saved
<1>5. ServerOnly'
  BY <1>1, <1>2, <1>3, <1>4, PlainStep
<1> QED
  BY <1>1, <1>5 DEF StepInv

(* A statement and its answer keep StepInv. *)
LEMMA RunPlain ==
  ASSUME StepInv, NEW s \in Session, Runs(s), UNCHANGED walk
  PROVE  StepInv'
<1>1. StoreInv' /\ UNCHANGED <<entity, hook>>
  BY RunKeeps DEF StepInv, Runs
<1>2. PICK ans, done : Answers(s, ans, done)
  BY DEF Runs
<1> DEFINE N == [phase |-> "closed", muts |-> Left(s, ans, done), saves |-> b[s].saves,
                 ans |-> ans]
<1>3. Becomes(s, N) /\ done \in BOOLEAN
  BY <1>2, CloseIs DEF Answers
<1>4. N.muts = Left(s, ans, done)
  OBVIOUS
<1> HIDE DEF N
<1>5. ASSUME walk.phase # "off"
      PROVE  Plain(N.muts)
  <2>1. Plain(b[s].muts)
    BY <1>5 DEF StepInv, ServerOnly
  <2>2. BuilderOK(sch, s, b[s])
    BY BuilderIs DEF StepInv
  <2> QED
    BY <1>3, <1>4, <2>1, <2>2, LeftPlain
<1>6. ServerOnly'
  BY <1>1, <1>3, <1>5, PlainStep
<1> QED
  BY <1>1, <1>6 DEF StepInv

(* A goroutine gives a builder its calls. *)
Opens(s) ==
  /\ b[s].phase = "idle"
  /\ \E ms : /\ Calls(sch, s, rows, ms) /\ Open(s, ms)
             /\ walk.phase # "off" => Plain(ms)

(* Every step is one of a builder of one goroutine or one of the reader. *)
LEMMA DirStep ==
  ASSUME StepInv, DirNext
  PROVE  \/ \E s \in Session : /\ UNCHANGED walk
                               /\ \/ Opens(s) \/ Save(s) \/ Runs(s)
                                  \/ Talks(s) /\ walk.phase = "off"
         \/ UNCHANGED storeVars /\ (ListCount \/ ListPage \/ ListFails)
<1>1. ASSUME NEW s \in Session, walk.phase = "off", AnyCaller(s)
      PROVE  Opens(s) \/ Talks(s)
  <2>1. CASE Opening(s)
    <3>1. b[s].phase = "idle"
      BY <2>1 DEF Opening
    <3>2. \E ms : Calls(sch, s, rows, ms) /\ Open(s, ms)
      BY <2>1, BuilderIs, OpeningCalls DEF StepInv
    <3> QED
      BY <1>1, <3>1, <3>2 DEF Opens
  <2> QED
    BY <1>1, <2>1 DEF AnyCaller, Talks
<1>2. ASSUME NEW s \in Session, walk.phase # "off", Server(s)
      PROVE  Opens(s)
  <2>1. b[s].phase = "idle"
    BY <1>2 DEF Server
  <2>2. entity = "users"
    BY <1>2 DEF StepInv, ServerOnly
  <2>3. \E ms : Calls(sch, s, rows, ms) /\ Open(s, ms) /\ Plain(ms)
    BY <1>2, <2>2, ServerCalls
  <2> QED
    BY <2>1, <2>3 DEF Opens
<1>3. ASSUME NEW s \in Session, Saving(s)
      PROVE  Save(s) \/ Runs(s)
  BY <1>3, SavingIs, StatementRuns DEF StepInv
<1>4. CASE ListCount \/ ListPage \/ ListFails
  BY <1>4 DEF ListCount, ListPage, ListFails
<1>5. CASE \E s \in Session :
              /\ \/ walk.phase = "off" /\ AnyCaller(s)
                 \/ walk.phase # "off" /\ Server(s)
                 \/ Saving(s)
              /\ UNCHANGED walk
  BY <1>1, <1>2, <1>3, <1>5
<1> QED
  BY <1>4, <1>5 DEF DirNext

(* Opening a builder keeps StepInv. *)
LEMMA OpensPlain ==
  ASSUME StepInv, NEW s \in Session, Opens(s), UNCHANGED walk
  PROVE  StepInv'
<1>1. PICK ms : /\ Calls(sch, s, rows, ms) /\ Open(s, ms)
                /\ walk.phase # "off" => Plain(ms)
  BY DEF Opens
<1>2. StoreInv' /\ Becomes(s, Opened(b[s], ms)) /\ UNCHANGED <<entity, hook, rows, nextId>>
  BY <1>1, CallsKeep DEF StepInv, Opens
<1>3. Opened(b[s], ms).muts = ms
  BY DEF Opened
<1>4. ServerOnly'
  BY <1>1, <1>2, <1>3, PlainStep
<1> QED
  BY <1>2, <1>4 DEF StepInv

(* StepInv is inductive. *)
LEMMA StepInvStep == StepInv /\ [DirNext]_dirVars => StepInv'
<1> SUFFICES ASSUME StepInv, [DirNext]_dirVars PROVE StepInv'
  OBVIOUS
<1>1. CASE UNCHANGED dirVars
  BY <1>1 DEF dirVars, StepInv, StoreInv, ServerOnly, sch, Plain
<1>2. ASSUME NEW s \in Session, UNCHANGED walk, walk.phase = "off", Talks(s)
      PROVE  StepInv'
  <2>1. StoreInv'
    BY <1>2, TalkKeeps DEF StepInv
  <2> QED
    BY <1>2, <2>1 DEF StepInv, ServerOnly
<1>3. ASSUME UNCHANGED storeVars, ListCount \/ ListPage \/ ListFails
      PROVE  StepInv'
  <2>1. walk.phase # "off"
    BY <1>3 DEF ListCount, ListPage, ListFails
  <2> QED
    BY <1>3, <2>1 DEF storeVars, StepInv, StoreInv, ServerOnly, sch, Plain
<1>4. CASE DirNext
  BY <1>2, <1>3, <1>4, DirStep, OpensPlain, SavePlain, RunPlain
<1> QED
  BY <1>1, <1>4

(* In every state of a run the table is in order and valid, every builder  *)
(* is in the state that its phase promises (client.go, the *_create.go,    *)
(* *_update.go and *_delete.go of ent), and the server's writers stay away *)
(* from names.                                                             *)
THEOREM StoreInvariant == DirSpec => []StepInv
<1> QED
  BY StepInvInit, StepInvStep, PTL DEF DirSpec

(* EveryRowValid: whoever writes, with whatever hook, every row satisfies  *)
(* the validators and the NOT NULLs of its schema (check() before every    *)
(* INSERT and UPDATE), for any schema, number of goroutines and values.    *)
THEOREM RowsValid == DirSpec => []EveryRowValid
<1>1. StepInv => EveryRowValid
  BY DEF StepInv, StoreInv, ValidTable, ValidRow, EveryRowValid
<1> QED
  BY <1>1, StoreInvariant, PTL

(* OldIsCommitted: what Old<Column> answers before a statement of the      *)
(* builder may have taken effect was written by somebody else (withUser and*)
(* oldValue in mutation.go).                                               *)
THEOREM OldValuesCommitted == DirSpec => []OldIsCommitted
<1>1. StepInv => OldIsCommitted
  BY DEF StepInv, StoreInv, OthersOnly, OldIsCommitted
<1> QED
  BY <1>1, StoreInvariant, PTL

(* What does not send a statement changes no row and closes no builder. *)
LEMMA Quiet ==
  ASSUME StepInv, NEW s \in Session, Opens(s) \/ Save(s) \/ Talks(s)
  PROVE  rows' = rows /\ ~(b[s].phase = "saving" /\ b'[s].phase = "closed")
                      /\ \A o \in Session \ {s} : b'[o] = b[o]
<1>1. b = [o \in Session |-> b[o]] /\ BuilderOK(sch, s, b[s])
  BY BuilderIs DEF StepInv
<1>2. CASE Opens(s)
  <2>1. PICK ms : Open(s, ms)
    BY <1>2 DEF Opens
  <2> QED
    BY <1>1, <1>2, <2>1 DEF Opens, Open
<1>3. CASE Save(s)
  BY <1>1, <1>3 DEF Save
<1>4. CASE Talks(s)
  <2>1. PICK N : Becomes(s, N) /\ N.phase = b[s].phase
    BY <1>4, TalkKeeps DEF StepInv
  <2>2. rows' = rows
    BY <1>4, TalkKeeps DEF StepInv
  <2> QED
    BY <1>1, <2>1, <2>2 DEF Becomes
<1> QED
  BY <1>2, <1>3, <1>4

(* A statement closes its own builder with an answer that fits. *)
LEMMA RunIs ==
  ASSUME StepInv, NEW s \in Session, Runs(s)
  PROVE  /\ b[s].phase = "saving" /\ b'[s].phase = "closed"
         /\ Writes(sch, s, b[s].muts[1], rows, rows', nextId')
         /\ AnswerFits(s, b'[s].ans)
         /\ \A o \in Session \ {s} : b'[o] = b[o]
<1>1. PICK ans, done : Answers(s, ans, done)
  BY DEF Runs
<1> DEFINE N == [phase |-> "closed", muts |-> Left(s, ans, done), saves |-> b[s].saves,
                 ans |-> ans]
<1>2. Becomes(s, N)
  BY <1>1, CloseIs DEF Answers
<1>3. N.phase = "closed" /\ N.ans = ans
  OBVIOUS
<1> HIDE DEF N
<1>4. b'[s] = N /\ \A o \in Session \ {s} : b'[o] = b[o]
  BY <1>2, BuilderIs DEF StepInv, Becomes
<1> QED
  BY <1>1, <1>3, <1>4 DEF Runs, Answers

(* The table changes only by the statement of one builder. *)
LEMMA StepIs ==
  ASSUME StepInv, [DirNext]_dirVars
  PROVE  \/ rows' = rows /\ \A s \in Session : ~(b[s].phase = "saving" /\ b'[s].phase = "closed")
         \/ \E s \in Session : Runs(s) /\ UNCHANGED walk
<1>1. CASE UNCHANGED dirVars
  BY <1>1 DEF dirVars
<1>2. ASSUME NEW s \in Session, Opens(s) \/ Save(s) \/ Talks(s)
      PROVE  rows' = rows /\ \A o \in Session : ~(b[o].phase = "saving" /\ b'[o].phase = "closed")
  BY <1>2, Quiet
<1>3. CASE UNCHANGED storeVars
  BY <1>3 DEF storeVars
<1>4. CASE DirNext
  BY <1>2, <1>3, <1>4, DirStep
<1> QED
  BY <1>1, <1>4

(* A row has every column of its schema. *)
LEMMA RowColumns ==
  ASSUME StepInv, NEW i \in DOMAIN rows
  PROVE  DOMAIN rows[i] = sch.columns
BY DEF StepInv, StoreInv, TableOK, Row

(* OnlyWhatWasSet: a column of a row changes only by a statement of a      *)
(* builder that selected the row and named the column (sqlSave in          *)
(* *_update.go).                                                           *)
THEOREM ColumnsKept == DirSpec => OnlyWhatWasSet
<1> DEFINE A == \A i \in Both : \A c \in DOMAIN rows[i] :
                   rows'[i][c] # rows[i][c] =>
                      \E s \in Session :
                         /\ b[s].phase = "saving" /\ b'[s].phase = "closed"
                         /\ i \in Targets(b[s].muts[1], rows)
                         /\ c \in Touched(b[s].muts[1])
<1>1. ASSUME StepInv, [DirNext]_dirVars PROVE A
  <2>1. ASSUME NEW s \in Session, Runs(s) PROVE A
    BY <1>1, <2>1, RunIs, RowColumns DEF Writes, Both
  <2> QED
    BY <1>1, <2>1, StepIs
<1>2. StepInv /\ [DirNext]_dirVars => [A]_storeVars
  BY <1>1
<1> QED
  BY <1>2, StoreInvariant, PTL DEF DirSpec, OnlyWhatWasSet

(* ImmutableStay: no statement changes an immutable column, created_at     *)
(* among them (the update builders have no setter for it and sqlSave does  *)
(* not write it).                                                          *)
THEOREM ImmutableKept == DirSpec => ImmutableStay
<1> DEFINE A == \A i \in Both : \A c \in sch.immutable : rows'[i][c] = rows[i][c]
<1>1. ASSUME StepInv, [DirNext]_dirVars PROVE A
  <2>1. ASSUME NEW s \in Session, Runs(s) PROVE A
    BY <1>1, <2>1, RunIs DEF Writes, Both
  <2> QED
    BY <1>1, <2>1, StepIs
<1>2. StepInv /\ [DirNext]_dirVars => [A]_storeVars
  BY <1>1
<1> QED
  BY <1>2, StoreInvariant, PTL DEF DirSpec, ImmutableStay

(* AnswerIsTrue: what Save and Exec answer is what the statement did: ids  *)
(* and entities as the rows now are, counts that cover the change, NotFound*)
(* only for a row that is not there, no change with a refusal.             *)
THEOREM AnswersTrue == DirSpec => AnswerIsTrue
<1> DEFINE A == \A s \in Session : b[s].phase = "saving" /\ b'[s].phase = "closed" =>
                   AnswerFits(s, b'[s].ans)
<1>1. ASSUME StepInv, [DirNext]_dirVars PROVE A
  <2>1. ASSUME NEW s \in Session, Runs(s) PROVE A
    BY <1>1, <2>1, RunIs
  <2> QED
    BY <1>1, <2>1, StepIs
<1>2. StepInv /\ [DirNext]_dirVars => [A]_storeVars
  BY <1>1
<1> QED
  BY <1>2, StoreInvariant, PTL DEF DirSpec, AnswerIsTrue

-----------------------------------------------------------------------------
(* Places in a list by descending id.                                      *)

(* How many of M a list by descending id shows before i, and one page of it. *)
Rank(M, i) == Cardinality({j \in M : j > i})

Page(M, o, l) == {i \in M : Rank(M, i) >= o /\ Rank(M, i) < o + l}

(* A rank is below the number of rows. *)
LEMMA RankIs ==
  ASSUME NEW M \in SUBSET Int, IsFiniteSet(M), NEW i \in M
  PROVE  Rank(M, i) \in 0 .. Cardinality(M) - 1
<1> DEFINE L == {j \in M : j > i}
<1>1. L \in SUBSET (M \ {i})
  OBVIOUS
<1>2. IsFiniteSet(M \ {i}) /\ Cardinality(M \ {i}) = Cardinality(M) - 1
  BY FS_RemoveElement
<1>3. IsFiniteSet(L) /\ Cardinality(L) <= Cardinality(M \ {i})
  BY <1>1, <1>2, FS_Subset
<1>4. Cardinality(L) \in Nat /\ Cardinality(M) \in Nat
  BY <1>3, FS_CardinalityType
<1> QED
  BY <1>2, <1>3, <1>4 DEF Rank

(* A row with a greater id has a smaller rank. *)
LEMMA RankFalls ==
  ASSUME NEW M \in SUBSET Int, IsFiniteSet(M), NEW i \in M, NEW k \in M, i < k
  PROVE  Rank(M, k) < Rank(M, i)
<1> DEFINE L == {j \in M : j > k}
           G == {j \in M : j > i}
<1>1. L \in SUBSET M /\ G \in SUBSET M /\ k \notin L
  OBVIOUS
<1>6. L \cup {k} \in SUBSET G
  <2>1. \A j \in M : j > k => j > i
    OBVIOUS
  <2>2. k \in G
    OBVIOUS
  <2> QED
    BY <2>1, <2>2
<1>2. IsFiniteSet(L) /\ IsFiniteSet(G)
  BY <1>1, FS_Subset
<1>3. Cardinality(L \cup {k}) = Cardinality(L) + 1
  BY <1>1, <1>2, FS_AddElement
<1>4. Cardinality(L \cup {k}) <= Cardinality(G)
  BY <1>2, <1>6, FS_Subset
<1>5. Cardinality(L) \in Nat /\ Cardinality(G) \in Nat
  BY <1>2, FS_CardinalityType
<1> QED
  BY <1>3, <1>4, <1>5 DEF Rank

(* No place of the list is empty. *)
LEMMA RankCovers ==
  ASSUME NEW M \in SUBSET Int, IsFiniteSet(M), NEW r \in 0 .. Cardinality(M) - 1
  PROVE  \E i \in M : Rank(M, i) = r
<1> DEFINE n == Cardinality(M)
           T == 0 .. n - 1
           f == [i \in M |-> Rank(M, i)]
<1>1. n \in Nat
  BY FS_CardinalityType
<1> HIDE DEF n
<1>2. IsFiniteSet(T) /\ Cardinality(T) = n
  <2>1. 0 \in Int /\ n - 1 \in Int
    BY <1>1
  <2>2. Cardinality(T) = IF 0 > n - 1 THEN 0 ELSE n - 1 - 0 + 1
    BY <2>1, FS_Interval
  <2> QED
    BY <1>1, <2>1, <2>2, FS_Interval
<1>3. \A i \in M : Rank(M, i) \in T
  BY RankIs DEF n
<1>4. \A i, k \in M : Rank(M, i) = Rank(M, k) => i = k
  <2>1. ASSUME NEW i \in M, NEW k \in M, Rank(M, i) = Rank(M, k), i # k
        PROVE  FALSE
    <3>1. i < k \/ k < i
      BY <2>1
    <3>2. Rank(M, i) \in Int /\ Rank(M, k) \in Int
      BY <1>3
    <3>3. Rank(M, k) < Rank(M, i) \/ Rank(M, i) < Rank(M, k)
      BY <3>1, RankFalls
    <3> QED
      BY <2>1, <3>2, <3>3
  <2> QED
    BY <2>1
<1> HIDE DEF T
<1>5. f \in Injection(M, T)
  <2>1. f \in [M -> T]
    BY <1>3
  <2>2. \A i, k \in M : f[i] = f[k] => i = k
    BY <1>4
  <2> HIDE DEF f
  <2> QED
    BY <2>1, <2>2 DEF Injection, IsInjective
<1> HIDE DEF f
<1>6. f \in Surjection(M, T)
  BY <1>2, <1>5, FS_Injection DEF n
<1> QED
  BY <1>6 DEF Surjection, f, T, n

(* More rows push a row to later places only. *)
LEMMA RankGrows ==
  ASSUME NEW M \in SUBSET Int, NEW N \in SUBSET Int, IsFiniteSet(N), M \subseteq N,
         NEW i \in M
  PROVE  Rank(M, i) <= Rank(N, i)
<1> DEFINE L == {j \in M : j > i}
           G == {j \in N : j > i}
<1>1. G \in SUBSET N /\ L \in SUBSET G
  OBVIOUS
<1>2. IsFiniteSet(G)
  BY <1>1, FS_Subset
<1> QED
  BY <1>1, <1>2, FS_Subset DEF Rank

(* A page that is not full reaches the end of the list: the rows from its  *)
(* offset on fill it place by place.                                       *)
LEMMA ShortPage ==
  ASSUME NEW M \in SUBSET Int, IsFiniteSet(M), NEW o \in Nat, NEW l \in Nat,
         Cardinality(Page(M, o, l)) < l
  PROVE  o + Cardinality(Page(M, o, l)) >= Cardinality(M)
<1> DEFINE n == Cardinality(M)
           P == Page(M, o, l)
           hi == IF o + l < n THEN o + l - 1 ELSE n - 1
           g == [i \in P |-> Rank(M, i)]
<1>1. n \in Nat
  BY FS_CardinalityType
<1>2. \A t \in o .. hi : \E i \in P : Rank(M, i) = t
  <2> SUFFICES ASSUME NEW t \in o .. hi PROVE \E i \in P : Rank(M, i) = t
    OBVIOUS
  <2>1. t \in 0 .. Cardinality(M) - 1 /\ t >= o /\ t < o + l
    BY <1>1
  <2>2. PICK i \in M : Rank(M, i) = t
    BY <2>1, RankCovers
  <2>3. i \in P
    BY <2>1, <2>2 DEF Page
  <2> QED
    BY <2>2, <2>3
<1>3. \A i \in P : Rank(M, i) \in o .. hi
  <2> SUFFICES ASSUME NEW i \in P PROVE Rank(M, i) \in o .. hi
    OBVIOUS
  <2>1. i \in M /\ Rank(M, i) >= o /\ Rank(M, i) < o + l
    BY DEF Page
  <2>2. Rank(M, i) \in 0 .. Cardinality(M) - 1
    BY <2>1, RankIs
  <2> QED
    BY <1>1, <2>1, <2>2
<1>4. IsFiniteSet(P)
  <2>1. P \in SUBSET M
    BY DEF Page
  <2> QED
    BY <2>1, FS_Subset
<1>5. hi \in Int
  BY <1>1
<1> HIDE DEF n, P, hi
<1>6. g \in Surjection(P, o .. hi)
  BY <1>2, <1>3 DEF Surjection
<1> HIDE DEF g
<1>7. Cardinality(o .. hi) <= Cardinality(P)
  BY <1>4, <1>6, FS_Surjection
<1>8. Cardinality(o .. hi) = IF o > hi THEN 0 ELSE hi - o + 1
  <2>1. o \in Int
    OBVIOUS
  <2> QED
    BY <1>5, <2>1, FS_Interval
<1>9. Cardinality(P) \in Nat
  BY <1>4, FS_CardinalityType
<1> QED
  BY <1>1, <1>7, <1>8, <1>9 DEF n, P, hi

-----------------------------------------------------------------------------
(* The reader of the list.                                                 *)

(* The users that the reader's filter accepts. *)
Found == Matching(walk.q.ps, rows)

WalkType ==
  walk \in [phase : {"off", "ready", "counted", "ended"}, limit : Int, page : Nat \ {0},
            q : {NewQuery, Filter}, total : Int, due : SUBSET Int, seen : SUBSET Int,
            reply : [n : Int, total : Int, limit : Int, offset : Int, now : Int]]

(* What the reader still has to meet is not before the page that is next,  *)
(* and what was counted is still there.                                    *)
WalkInv ==
  /\ WalkType /\ ShortPageCoversTotal
  /\ walk.phase # "off" =>
        /\ walk.due \subseteq Found
        /\ walk.phase = "counted" => walk.total <= Cardinality(Found)
        /\ walk.phase \in {"ready", "counted"} /\ walk.limit = PageSize =>
              \A i \in walk.due : i \in walk.seen \/ Rank(Found, i) >= (walk.page - 1) * PageSize
        /\ WalkMissesOnlyByRace

DirInv == StepInv /\ WalkInv

(* The users that the filter accepts are finitely many. *)
LEMMA FoundIs ==
  ASSUME StepInv
  PROVE  Found \in SUBSET Int /\ IsFiniteSet(Found) /\ Cardinality(Found) \in Nat
<1>1. TableOK(sch, rows, nextId)
  BY DEF StepInv, StoreInv
<1>2. IsFiniteSet(DOMAIN rows) /\ DOMAIN rows \subseteq Int
  BY <1>1, TableIsFinite DEF TableOK
<1>3. Found \in SUBSET DOMAIN rows
  BY DEF Found, Matching
<1>4. IsFiniteSet(Found)
  BY <1>2, <1>3, FS_Subset
<1> QED
  BY <1>2, <1>3, <1>4, FS_CardinalityType

(* The same as a formula, for the next state. *)
LEMMA FoundIsAlways ==
  StepInv => Found \in SUBSET Int /\ IsFiniteSet(Found) /\ Cardinality(Found) \in Nat
BY FoundIs

(* A predicate of the reader's asks for the name only. *)
LEMMA FilterIs ==
  ASSUME NEW q \in {NewQuery, Filter}, NEW p \in q.ps
  PROVE  p.c = "username"
BY DEF NewQuery, Filter, Where

(* While a reader walks, the server's writers delete nobody and change no  *)
(* name.                                                                   *)
LEMMA NamesStay ==
  ASSUME StepInv, walk.phase # "off", NEW s \in Session, Runs(s)
  PROVE  /\ DOMAIN rows \subseteq DOMAIN rows'
         /\ \A i \in DOMAIN rows : rows'[i]["username"] = rows[i]["username"]
<1> DEFINE m == b[s].muts[1]
<1>1. b[s].phase = "saving" /\ Writes(sch, s, m, rows, rows', nextId')
  BY RunIs
<1>2. 1 \in DOMAIN b[s].muts
  BY <1>1, SendingIs DEF StepInv
<1>3. /\ m.op \in {"Create", "UpdateOne"}
      /\ m.op = "UpdateOne" => "username" \notin Touched(m)
      /\ "username" \in sch.columns
  BY <1>2, UsersHave DEF StepInv, ServerOnly, Plain
<1> HIDE DEF m
<1> QED
  BY <1>1, <1>3 DEF Writes

(* So what the filter accepts only grows. *)
LEMMA FoundGrows ==
  ASSUME StepInv, WalkType, walk.phase # "off", NEW s \in Session, Runs(s), UNCHANGED walk
  PROVE  Found \subseteq Found'
<1>1. /\ DOMAIN rows \subseteq DOMAIN rows'
      /\ \A i \in DOMAIN rows : rows'[i]["username"] = rows[i]["username"]
  BY NamesStay
<1>2. walk.q \in {NewQuery, Filter}
  BY DEF WalkType
<1>3. ASSUME NEW i \in DOMAIN rows, NEW p \in walk.q.ps, Holds(p, i, rows[i])
      PROVE  Holds(p, i, rows'[i])
  <2>1. p.c = "username"
    BY <1>2, FilterIs
  <2> QED
    BY <1>1, <1>3, <2>1 DEF Holds
<1> QED
  BY <1>1, <1>3 DEF Found, Matching

(* ListUsers: the limit in use is positive, and the page size is left as it*)
(* is.                                                                     *)
LEMMA LimitIs ==
  ASSUME NEW limit \in Int
  PROVE  ClampLimit(limit) \in Nat \ {0} /\ ClampLimit(PageSize) = PageSize
BY LimitAssumption DEF ClampLimit

(* ListUsers: the offset in use is not negative. *)
LEMMA OffsetIs ==
  ASSUME NEW offset \in Int
  PROVE  ClampOffset(offset) \in Nat /\ (offset >= 0 => ClampOffset(offset) = offset)
BY DEF ClampOffset

(* A reader that starts. *)
LEMMA NewWalkType ==
  ASSUME NEW phase \in {"off", "ready"}, NEW limit \in Int, NEW q \in {NewQuery, Filter},
         NEW due \in SUBSET Int, walk = Reader(phase, limit, q, due)
  PROVE  /\ WalkType /\ walk.phase = phase /\ walk.limit = limit /\ walk.q = q
         /\ walk.page = 1 /\ walk.due = due /\ walk.reply = NoReply
BY DEF WalkType, Reader, NoReply

(* At the start the reader has everything ahead of it. *)
LEMMA WalkInvInit == DirInit => DirInv
<1> SUFFICES ASSUME DirInit PROVE WalkInv
  BY StepInvInit DEF DirInv
<1>1. StepInv
  BY StepInvInit
<1>2. CASE walk = NoReader
  <2>1. PageSize \in Int /\ {} \in SUBSET Int
    BY LimitAssumption
  <2>2. WalkType /\ walk.phase = "off" /\ walk.reply = NoReply
    BY <1>2, <2>1, NewWalkType DEF NoReader
  <2> QED
    BY <2>2 DEF WalkInv, ShortPageCoversTotal, NoReply
<1>3. ASSUME NEW q \in {NewQuery, Filter}, NEW limit \in Requests \cup {PageSize},
             walk = Reader("ready", limit, q, Matching(q.ps, rows))
      PROVE  WalkInv
  <2> DEFINE due == Matching(q.ps, rows)
  <2>1. due \in SUBSET Int
    BY <1>1 DEF Matching, StepInv, StoreInv, TableOK
  <2>2. limit \in Int
    BY LimitAssumption
  <2>3. walk = Reader("ready", limit, q, due)
    BY <1>3
  <2> HIDE DEF due
  <2>4. /\ WalkType /\ walk.phase = "ready" /\ walk.q = q /\ walk.page = 1 /\ walk.due = due
        /\ walk.reply = NoReply
    BY <2>1, <2>2, <2>3, NewWalkType
  <2>5. Found = due
    BY <2>4 DEF Found, due
  <2>6. \A i \in due : Rank(Found, i) >= (walk.page - 1) * PageSize
    <3>1. (walk.page - 1) * PageSize = 0
      BY <2>4, LimitAssumption
    <3> QED
      BY <1>1, <2>5, <3>1, FoundIs, RankIs
  <2> QED
    BY <2>4, <2>5, <2>6 DEF WalkInv, ShortPageCoversTotal, WalkMissesOnlyByRace, NoReply
<1> QED
  BY <1>2, <1>3 DEF DirInit

(* A writer that adds rows moves what the reader still has to meet to later*)
(* places, never back.                                                     *)
LEMMA WritersKeep ==
  ASSUME DirInv, UNCHANGED walk, Found \subseteq Found' \/ walk.phase = "off", StepInv'
  PROVE  WalkInv'
<1>1. WalkType' /\ ShortPageCoversTotal'
  BY DEF DirInv, WalkInv, WalkType, ShortPageCoversTotal
<1>2. ASSUME walk.phase # "off"
      PROVE  /\ walk.due \subseteq Found'
             /\ walk.phase = "counted" => walk.total <= Cardinality(Found')
             /\ \A i \in walk.due : Rank(Found, i) <= Rank(Found', i)
             /\ \A i \in walk.due : Rank(Found, i) \in Int /\ Rank(Found', i) \in Int
  <2>1. /\ Found \in SUBSET Int /\ IsFiniteSet(Found) /\ Cardinality(Found) \in Nat
    BY FoundIs DEF DirInv
  <2>2. Found' \in SUBSET Int /\ IsFiniteSet(Found') /\ Cardinality(Found') \in Nat
    <3>1. (Found \in SUBSET Int /\ IsFiniteSet(Found) /\ Cardinality(Found) \in Nat)'
      BY FoundIsAlways, PTL
    <3> QED
      BY <3>1
  <2>3. Found \subseteq Found' /\ walk.due \subseteq Found
    BY <1>2 DEF DirInv, WalkInv
  <2>4. Cardinality(Found) <= Cardinality(Found')
    BY <2>2, <2>3, FS_Subset
  <2>5. walk.phase = "counted" => walk.total <= Cardinality(Found')
    BY <1>2, <2>1, <2>2, <2>4 DEF DirInv, WalkInv, WalkType
  <2>6. \A i \in walk.due : Rank(Found, i) <= Rank(Found', i)
    <3> SUFFICES ASSUME NEW i \in walk.due PROVE Rank(Found, i) <= Rank(Found', i)
      OBVIOUS
    <3>1. i \in Found
      BY <2>3
    <3> QED
      BY <2>1, <2>2, <2>3, <3>1, RankGrows, Zenon
  <2>7. \A i \in walk.due : Rank(Found, i) \in Int /\ Rank(Found', i) \in Int
    <3> SUFFICES ASSUME NEW i \in walk.due
                 PROVE  Rank(Found, i) \in Int /\ Rank(Found', i) \in Int
      OBVIOUS
    <3>1. i \in Found /\ i \in Found'
      BY <2>3
    <3>2. Rank(Found, i) \in 0 .. Cardinality(Found) - 1
      BY <2>1, <3>1, RankIs, Zenon
    <3>3. Rank(Found', i) \in 0 .. Cardinality(Found') - 1
      BY <2>2, <3>1, RankIs, Zenon
    <3> QED
      BY <3>2, <3>3
  <2> QED
    BY <2>3, <2>5, <2>6, <2>7
<1>3. ASSUME walk.phase # "off", walk.phase \in {"ready", "counted"}, walk.limit = PageSize,
             NEW i \in walk.due
      PROVE  i \in walk.seen \/ Rank(Found', i) >= (walk.page - 1) * PageSize
  <2>1. i \in walk.seen \/ Rank(Found, i) >= (walk.page - 1) * PageSize
    BY <1>3 DEF DirInv, WalkInv
  <2>2. (walk.page - 1) * PageSize \in Int
    BY LimitAssumption DEF DirInv, WalkInv, WalkType
  <2> HIDE DEF Found
  <2> QED
    BY <1>2, <1>3, <2>1, <2>2
<1>4. WalkMissesOnlyByRace' <=> WalkMissesOnlyByRace
  BY DEF WalkMissesOnlyByRace
<1> QED
  BY <1>1, <1>2, <1>3, <1>4 DEF DirInv, WalkInv

(* The first statement of user.list counts what is there. *)
LEMMA CountKeeps ==
  ASSUME DirInv, ListCount
  PROVE  WalkInv'
<1>1. /\ walk.phase = "ready" /\ UNCHANGED rows
      /\ walk' = [walk EXCEPT !.phase = "counted", !.total = Count(walk.q, rows)]
  BY DEF ListCount, storeVars
<1>2. WalkType /\ WalkInv
  BY DEF DirInv, WalkInv
<1>3. Count(walk.q, rows) = Cardinality(Found) /\ Cardinality(Found) \in Nat
  BY FoundIs DEF DirInv, Count, Found
<1> DEFINE n == Count(walk.q, rows)
<1>6. n \in Int
  BY <1>3
<1> HIDE DEF n
<1>4. /\ WalkType' /\ walk'.phase = "counted" /\ walk'.total = n
      /\ walk'.limit = walk.limit /\ walk'.page = walk.page /\ walk'.q = walk.q
      /\ walk'.due = walk.due /\ walk'.seen = walk.seen /\ walk'.reply = walk.reply
  <2>1. walk' = [walk EXCEPT !.phase = "counted", !.total = n]
    BY <1>1 DEF n
  <2> QED
    BY <1>2, <1>6, <2>1 DEF WalkType
<1>5. Found' = Found
  BY <1>1, <1>4 DEF Found
<1>7. n = Cardinality(Found)
  BY <1>3 DEF n
<1> QED
  BY <1>1, <1>2, <1>3, <1>4, <1>5, <1>7 DEF WalkInv, ShortPageCoversTotal, WalkMissesOnlyByRace

(* A failed reply changes neither what was met nor the page. *)
LEMMA FailKeeps ==
  ASSUME DirInv, ListFails
  PROVE  WalkInv'
<1>1. /\ walk.phase = "counted" /\ UNCHANGED rows
      /\ walk' = [walk EXCEPT !.phase = "ready"]
  BY DEF ListFails, storeVars
<1>2. WalkType /\ WalkInv
  BY DEF DirInv, WalkInv
<1>3. /\ WalkType' /\ walk'.phase = "ready" /\ walk'.total = walk.total
      /\ walk'.limit = walk.limit /\ walk'.page = walk.page /\ walk'.q = walk.q
      /\ walk'.due = walk.due /\ walk'.seen = walk.seen /\ walk'.reply = walk.reply
  BY <1>1, <1>2 DEF WalkType
<1>4. Found' = Found
  BY <1>1, <1>3 DEF Found
<1> QED
  BY <1>1, <1>2, <1>3, <1>4 DEF WalkInv, ShortPageCoversTotal, WalkMissesOnlyByRace

(* A query with a limit reads a page of what it finds. *)
LEMMA AllIsPage ==
  ASSUME NEW q \in {NewQuery, Filter}, NEW l \in Nat \ {0}, NEW o \in Nat, NEW t
  PROVE  All([q EXCEPT !.limit = l, !.offset = o], t) = Page(Matching(q.ps, t), o, l)
<1> DEFINE r == [q EXCEPT !.limit = l, !.offset = o]
<1>1. r.ps = q.ps /\ r.limit = l /\ r.offset = o
  BY DEF NewQuery, Filter, Where
<1> HIDE DEF r
<1>2. All(r, t) = Page(Matching(q.ps, t), o, l)
  BY <1>1 DEF All, Page, Rank
<1> QED
  BY <1>2 DEF r

(* The fields of a reader and its reply after a page. *)
LEMMA PageIs ==
  ASSUME DirInv, ListPage
  PROVE  \E o \in Nat, l \in Nat \ {0} :
            LET P == Page(Found, o, l)
            IN /\ walk.limit = PageSize => l = PageSize /\ o = (walk.page - 1) * PageSize
               /\ UNCHANGED rows /\ walk.phase = "counted" /\ WalkType'
               /\ walk'.phase = IF walk.page * walk.limit < walk.total THEN "ready" ELSE "ended"
               /\ walk'.limit = walk.limit /\ walk'.page = walk.page + 1 /\ walk'.q = walk.q
               /\ walk'.total = walk.total /\ walk'.due = walk.due
               /\ walk'.seen = walk.seen \cup P
               /\ walk'.reply = [n |-> Cardinality(P), total |-> walk.total, limit |-> l,
                                 offset |-> o, now |-> Cardinality(Found)]
<1> DEFINE l == ClampLimit(walk.limit)
           o == ClampOffset(Requested)
           ids == All([walk.q EXCEPT !.limit = l, !.offset = o], rows)
           P == Page(Found, o, l)
           phase == IF walk.page * walk.limit < walk.total THEN "ready" ELSE "ended"
           reply == [n |-> Cardinality(ids), total |-> walk.total, limit |-> l,
                     offset |-> o, now |-> Count(walk.q, rows)]
<1>1. /\ walk.phase = "counted" /\ UNCHANGED rows
      /\ walk' = [walk EXCEPT !.phase = phase, !.page = @ + 1, !.seen = @ \cup ids,
                              !.reply = reply]
  BY DEF ListPage, storeVars
<1>2. WalkType /\ walk.limit \in Int /\ walk.page \in Nat \ {0} /\ walk.q \in {NewQuery, Filter}
      /\ walk.total \in Int
  BY DEF DirInv, WalkInv, WalkType
<1>3. PageSize \in Nat \ {0}
  BY LimitAssumption
<1>4. Requested \in Int /\ (walk.limit = PageSize => Requested = (walk.page - 1) * PageSize)
  BY <1>2, <1>3 DEF Requested
<1>5. l \in Nat \ {0} /\ o \in Nat
  BY <1>2, <1>4, LimitIs, OffsetIs
<1>6. walk.limit = PageSize => l = PageSize
  BY LimitIs, <1>2
<1>7. ids = P /\ Count(walk.q, rows) = Cardinality(Found)
  BY <1>2, <1>5, AllIsPage DEF Found, Count
<1>8. Found \in SUBSET Int /\ IsFiniteSet(Found) /\ Cardinality(Found) \in Nat
  BY FoundIs DEF DirInv
<1>9. P \in SUBSET Int /\ Cardinality(P) \in Nat
  <2>1. P \in SUBSET Found
    BY DEF Page
  <2>2. IsFiniteSet(P)
    BY <1>8, <2>1, FS_Subset
  <2> QED
    BY <1>8, <2>1, <2>2, FS_CardinalityType
<1>10. phase \in {"ready", "ended"}
  OBVIOUS
<1>11. /\ reply \in [n : Int, total : Int, limit : Int, offset : Int, now : Int]
       /\ reply = [n |-> Cardinality(P), total |-> walk.total, limit |-> l,
                   offset |-> o, now |-> Cardinality(Found)]
  BY <1>2, <1>5, <1>7, <1>8, <1>9
<1>12. ids \in SUBSET Int
  BY <1>7, <1>9
<1>13. phase = IF walk.page * walk.limit < walk.total THEN "ready" ELSE "ended"
  OBVIOUS
<1> HIDE DEF phase, reply, ids, l, o
<1>14. /\ WalkType' /\ walk'.phase = phase /\ walk'.limit = walk.limit
       /\ walk'.page = walk.page + 1 /\ walk'.q = walk.q /\ walk'.total = walk.total
       /\ walk'.due = walk.due /\ walk'.seen = walk.seen \cup ids /\ walk'.reply = reply
  <2>1. walk' = [walk EXCEPT !.phase = phase, !.page = walk.page + 1,
                             !.seen = walk.seen \cup ids, !.reply = reply]
    BY <1>1
  <2>2. walk.page + 1 \in Nat \ {0} /\ walk.seen \cup ids \in SUBSET Int
    <3>1. walk.seen \in SUBSET Int
      BY <1>2 DEF WalkType
    <3>2. walk.seen \cup ids \in SUBSET Int
      BY <1>12, <3>1, Zenon
    <3>3. walk.page + 1 \in Nat \ {0}
      BY <1>2
    <3> QED
      BY <3>2, <3>3
  <2> QED
    BY <1>2, <1>10, <1>11, <2>1, <2>2 DEF WalkType
<1>15. walk.limit = PageSize => o = (walk.page - 1) * PageSize
  <2>1. walk.page - 1 \in Nat
    BY <1>2
  <2>2. (walk.page - 1) * PageSize \in Nat
    <3>1. \A x, y \in Nat : x * y \in Nat
      OBVIOUS
    <3> QED
      BY <1>3, <2>1, <3>1
  <2> QED
    BY <1>4, <2>2, OffsetIs DEF o
<1>16. l \in Nat \ {0} /\ o \in Nat
  BY <1>5 DEF l, o
<1>17. /\ walk.limit = PageSize => l = PageSize
       /\ ids = P
  BY <1>6, <1>7 DEF l, o, ids
<1> QED
  BY <1>1, <1>11, <1>13, <1>14, <1>15, <1>16, <1>17 DEF o, l, P

(* A page takes the reader past exactly its places; when the total says    *)
(* that it was the last and is still right, no place is left.              *)
LEMMA PageKeeps ==
  ASSUME DirInv, ListPage
  PROVE  WalkInv'
<1>1. PICK o \in Nat, l \in Nat \ {0} :
         LET P == Page(Found, o, l)
         IN /\ walk.limit = PageSize => l = PageSize /\ o = (walk.page - 1) * PageSize
            /\ UNCHANGED rows /\ walk.phase = "counted" /\ WalkType'
            /\ walk'.phase = IF walk.page * walk.limit < walk.total THEN "ready" ELSE "ended"
            /\ walk'.limit = walk.limit /\ walk'.page = walk.page + 1 /\ walk'.q = walk.q
            /\ walk'.total = walk.total /\ walk'.due = walk.due
            /\ walk'.seen = walk.seen \cup P
            /\ walk'.reply = [n |-> Cardinality(P), total |-> walk.total, limit |-> l,
                              offset |-> o, now |-> Cardinality(Found)]
  BY PageIs
<1> DEFINE P == Page(Found, o, l)
<1>2. /\ Found \in SUBSET Int /\ IsFiniteSet(Found) /\ Cardinality(Found) \in Nat
      /\ WalkType /\ WalkInv
  BY FoundIs DEF DirInv, WalkInv
<1>3. Found' = Found
  BY <1>1 DEF Found
<1>4. walk.due \subseteq Found /\ walk.total <= Cardinality(Found)
  BY <1>1, <1>2 DEF WalkInv
<1>5. /\ walk.total \in Int /\ walk.limit \in Int /\ walk.page \in Nat \ {0}
      /\ PageSize \in Nat \ {0}
  BY <1>2, LimitAssumption DEF WalkType
<1>6. walk'.reply.n = Cardinality(P) /\ walk'.reply.total = walk.total
      /\ walk'.reply.limit = l /\ walk'.reply.offset = o
      /\ walk'.reply.now = Cardinality(Found)
  BY <1>1
<1>7. ShortPageCoversTotal'
  <2>1. Cardinality(P) < l => o + Cardinality(P) >= Cardinality(Found)
    BY <1>2, ShortPage
  <2>2. Cardinality(P) \in Nat
    <3>1. P \in SUBSET Found
      BY DEF Page
    <3> QED
      BY <1>2, <3>1, FS_Subset, FS_CardinalityType
  <2> HIDE DEF P
  <2> QED
    BY <1>2, <1>4, <1>5, <1>6, <2>1, <2>2 DEF ShortPageCoversTotal
<1>8. ASSUME walk.limit = PageSize, NEW i \in walk.due, i \notin walk'.seen
      PROVE  Rank(Found, i) >= walk.page * PageSize
  <2>1. i \notin walk.seen /\ i \notin P
    BY <1>1, <1>8
  <2>2. Rank(Found, i) >= (walk.page - 1) * PageSize
    BY <1>1, <1>2, <1>8, <2>1 DEF WalkInv
  <2>3. i \in Found /\ o = (walk.page - 1) * PageSize /\ l = PageSize
    BY <1>1, <1>4, <1>8
  <2>4. Rank(Found, i) \in 0 .. Cardinality(Found) - 1
    BY <1>2, <2>3, RankIs
  <2>5. Rank(Found, i) >= o + l
    BY <1>1, <2>1, <2>2, <2>3, <2>4 DEF Page
  <2>6. (walk.page - 1) * PageSize + PageSize = walk.page * PageSize
    BY <1>5
  <2> QED
    BY <2>3, <2>5, <2>6
<1>9. ASSUME walk.limit = PageSize, walk'.phase = "ended", walk'.reply.now = walk'.reply.total
      PROVE  walk.due \subseteq walk'.seen
  <2>1. ~(walk.page * PageSize < walk.total) /\ walk.total = Cardinality(Found)
    BY <1>1, <1>6, <1>9
  <2>2. ASSUME NEW i \in walk.due, i \notin walk'.seen
        PROVE  FALSE
    <3>1. Rank(Found, i) >= walk.page * PageSize
      BY <1>8, <1>9, <2>2
    <3>2. i \in Found
      BY <1>4, <2>2
    <3>3. Rank(Found, i) \in 0 .. Cardinality(Found) - 1
      BY <1>2, <3>2, RankIs
    <3>4. walk.page * PageSize \in Int
      BY <1>5
    <3> QED
      BY <1>2, <2>1, <3>1, <3>3, <3>4
  <2> QED
    BY <2>2
<1>10. WalkMissesOnlyByRace'
  BY <1>1, <1>9 DEF WalkMissesOnlyByRace
<1>11. ASSUME walk'.phase \in {"ready", "counted"}, walk'.limit = PageSize, NEW i \in walk'.due
       PROVE  i \in walk'.seen \/ Rank(Found', i) >= (walk'.page - 1) * PageSize
  <2>1. walk'.page - 1 = walk.page
    BY <1>1, <1>5
  <2> QED
    BY <1>1, <1>3, <1>8, <1>11, <2>1
<1>12. walk'.phase # "counted" /\ walk'.due \subseteq Found' /\ WalkType'
  BY <1>1, <1>3, <1>4
<1> QED
  BY <1>7, <1>10, <1>11, <1>12 DEF WalkInv

(* DirInv is inductive. *)
LEMMA DirInvStep == DirInv /\ [DirNext]_dirVars => DirInv'
<1> SUFFICES ASSUME DirInv, [DirNext]_dirVars PROVE DirInv'
  OBVIOUS
<1>1. StepInv'
  BY StepInvStep DEF DirInv
<1>2. CASE UNCHANGED dirVars
  <2>1. UNCHANGED walk /\ Found' = Found
    BY <1>2 DEF dirVars, Found
  <2> QED
    BY <1>1, <2>1, WritersKeep DEF DirInv
<1>3. ASSUME NEW s \in Session, UNCHANGED walk,
             \/ Opens(s) \/ Save(s) \/ Runs(s)
             \/ Talks(s) /\ walk.phase = "off"
      PROVE  WalkInv'
  <2>1. CASE walk.phase = "off"
    BY <1>1, <1>3, <2>1, WritersKeep
  <2>2. CASE Runs(s) /\ walk.phase # "off"
    <3>1. Found \subseteq Found'
      BY <1>3, <2>2, FoundGrows DEF DirInv, WalkInv
    <3> QED
      BY <1>1, <1>3, <3>1, WritersKeep
  <2>3. CASE Opens(s) \/ Save(s)
    <3>1. Found' = Found
      BY <1>3, <2>3, Quiet DEF Found, DirInv
    <3> QED
      BY <1>1, <1>3, <3>1, WritersKeep
  <2> QED
    BY <1>3, <2>1, <2>2, <2>3
<1>4. CASE DirNext
  <2>1. \/ \E s \in Session : /\ UNCHANGED walk
                               /\ \/ Opens(s) \/ Save(s) \/ Runs(s)
                                  \/ Talks(s) /\ walk.phase = "off"
        \/ UNCHANGED storeVars /\ (ListCount \/ ListPage \/ ListFails)
    BY <1>4, DirStep DEF DirInv
  <2> QED
    BY <1>1, <1>3, <2>1, CountKeeps, PageKeeps, FailKeeps, Zenon DEF DirInv
<1> QED
  BY <1>2, <1>4

(* StepInv and WalkInv hold in every state: the reader of user.list and the*)
(* writers of users together.                                              *)
THEOREM DirInvariant == DirSpec => []DirInv
<1> QED
  BY WalkInvInit, DirInvStep, PTL DEF DirSpec

(* WalkMissesOnlyByRace: an administrator who turns all pages has met every*)
(* user that was there at the first, unless the count and the page of the  *)
(* last reply disagree (ListUsers), for any page size and number of users. *)
THEOREM WalkComplete == DirSpec => []WalkMissesOnlyByRace
<1>1. DirInv => WalkMissesOnlyByRace
  BY DEF DirInv, WalkInv, WalkMissesOnlyByRace
<1> QED
  BY <1>1, DirInvariant, PTL

(* ShortPageCoversTotal: a page that is not full reaches the total of its  *)
(* own reply (ListUsers counts before it reads), whatever limit and offset *)
(* were asked for.                                                         *)
THEOREM PagesCoverTotal == DirSpec => []ShortPageCoversTotal
<1>1. DirInv => ShortPageCoversTotal
  BY DEF DirInv, WalkInv
<1> QED
  BY <1>1, DirInvariant, PTL
=============================================================================
