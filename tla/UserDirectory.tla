---------------------------- MODULE UserDirectory ---------------------------
(***************************************************************************)
(* The ent client at work: either any caller of the generated API, or the  *)
(* server's own: registrations, logins and the administrator's switch      *)
(* write users while an administrator pages through user.list, which reads *)
(* its total and its page with two statements.                             *)
(***************************************************************************)
EXTENDS EntStore

CONSTANTS DefaultLimit, MaxLimit,  \* of ListUsers: 30 and 200
          PageSize,                \* of the administrators' page: 30
          Requests,                \* other limits that a caller may ask for
          MaxName,                 \* bound: names that register
          MaxPage                  \* bound: pages that are turned

ASSUME LimitAssumption ==
    /\ {DefaultLimit, MaxLimit, PageSize} \subseteq Nat \ {0}
    /\ DefaultLimit <= MaxLimit /\ PageSize <= MaxLimit
    /\ Requests \subseteq Int

(* The columns that the server's own statements name; a name is a key, and *)
(* no update fills it in.                                                  *)
ASSUME UsersAssumption ==
    /\ "users" \in DOMAIN Schemas
    /\ {"username", "password_hash", "last_login_at", "updated_at", "disabled"}
         \subseteq Schemas["users"].columns
    /\ Schemas["users"].table.key = {"username"}

VARIABLE walk  \* the reader of the list

dirVars == <<entity, hook, rows, nextId, b, walk>>

-----------------------------------------------------------------------------
(* The server's writers.                                                   *)

RepoWrites(s, m, f) == Open(s, <<SetColumns(m, f)>>)

(* Its checks of the two tables are in UserAuth. *)
CreateUser(s) ==
    \E name \in 1 .. MaxName :
        RepoWrites(s, NewMutation("Create", 0),
                   [c \in {"username", "password_hash"} |->
                       IF c = "username" THEN name ELSE s])

UpdateUserLastLogin(s, i) ==
    RepoWrites(s, NewMutation("UpdateOne", i),
               [c \in {"last_login_at", "updated_at"} |-> s])

SetUserDisabled(s, i) ==
    RepoWrites(s, NewMutation("UpdateOne", i), [c \in {"disabled"} |-> s])

Server(s) ==
    /\ b[s].phase = "idle"
    /\ \/ CreateUser(s)
       \/ \E i \in Ids : UpdateUserLastLogin(s, i) \/ SetUserDisabled(s, i)

-----------------------------------------------------------------------------
(* ListUsers.                                                              *)

ClampLimit(limit) ==
    IF limit <= 0 THEN DefaultLimit ELSE IF limit > MaxLimit THEN MaxLimit ELSE limit

ClampOffset(offset) == IF offset < 0 THEN 0 ELSE offset

Filter == Where(NewQuery, [c |-> "username", in |-> {1, 3}])

(* A reader: what it asks for, the page it is on, the users it should meet *)
(* and has met, and the numbers of its last reply.                         *)
NoReply == [n |-> 0, total |-> 0, limit |-> 1, offset |-> 0, now |-> 0]

Reader(phase, limit, q, due) ==
    [phase |-> phase, limit |-> limit, page |-> 1, q |-> q, total |-> 0,
     due |-> due, seen |-> {}, reply |-> NoReply]

NoReader == Reader("off", PageSize, NewQuery, {})

Requested == IF walk.limit = PageSize THEN (walk.page - 1) * PageSize
             ELSE walk.page - 2  \* any offset, -1 first

ListCount ==
    /\ walk.phase = "ready" /\ walk.page <= MaxPage
    /\ walk' = [walk EXCEPT !.phase = "counted", !.total = Count(walk.q, rows)]
    /\ UNCHANGED storeVars

(* The page arrives; there is a next one while the total says so. *)
ListPage ==
    /\ walk.phase = "counted"
    /\ LET limit == ClampLimit(walk.limit)
           offset == ClampOffset(Requested)
           ids == All([walk.q EXCEPT !.limit = limit, !.offset = offset], rows)
       IN walk' = [walk EXCEPT
             !.phase = IF walk.page * walk.limit < walk.total THEN "ready" ELSE "ended",
             !.page = @ + 1,
             !.seen = @ \cup ids,
             !.reply = [n |-> Cardinality(ids), total |-> walk.total, limit |-> limit,
                        offset |-> offset, now |-> Count(walk.q, rows)]]
    /\ UNCHANGED storeVars

(* The second statement fails: the reply is an error, the page asks again. *)
ListFails ==
    /\ walk.phase = "counted"
    /\ walk' = [walk EXCEPT !.phase = "ready"]
    /\ UNCHANGED storeVars

-----------------------------------------------------------------------------
DirInit ==
    \/ StoreInit(DOMAIN Schemas, 1, TRUE) /\ walk = NoReader
    \/ /\ StoreInit({"users"}, 2, FALSE)
       /\ \E q \in {NewQuery, Filter}, limit \in Requests \cup {PageSize} :
             walk = Reader("ready", limit, q, Matching(q.ps, rows))

DirNext ==
    \/ \E s \in Session :
          /\ \/ walk.phase = "off" /\ AnyCaller(s)
             \/ walk.phase # "off" /\ Server(s)
             \/ Saving(s)
          /\ UNCHANGED walk
    \/ ListCount \/ ListPage \/ ListFails

DirSpec == DirInit /\ [][DirNext]_dirVars

-----------------------------------------------------------------------------
(* Properties.                                                             *)

(* An administrator who turns all pages has met every user that was there  *)
(* at the first, unless somebody registered between the two statements of  *)
(* the last reply: users that register meanwhile move others to later      *)
(* pages only (ListUsers orders by descending id, no user is deleted).     *)
WalkMissesOnlyByRace ==
    walk.phase = "ended" /\ walk.limit = PageSize =>
        walk.due \subseteq walk.seen \/ walk.reply.now # walk.reply.total

(* A page that is not full reaches the total that is in the same reply,    *)
(* whatever limit and offset were asked for (ListUsers counts before it    *)
(* reads the page, with the same filter).                                  *)
ShortPageCoversTotal ==
    walk.reply.n < walk.reply.limit =>
        walk.reply.offset + walk.reply.n >= walk.reply.total

=============================================================================
