----------------------------- MODULE WebSession ------------------------------
(***************************************************************************)
(* One login scope of the browser side: web/src/common/auth/auth.js,       *)
(* utils/jsonRpc.js and the back-fill of AdminLayout.jsx.  The tabs of one *)
(* browser share localStorage; each keeps a React state that is set by its *)
(* own changes at once and by those of other tabs later, by a storage      *)
(* event.  A state that was set is rendered, and the effects that depend   *)
(* on it run, in a later step.  Answers to calls arrive in any order.  A   *)
(* synchronous block of JavaScript is one step.                            *)
(***************************************************************************)
EXTENDS Naturals, FiniteSets

CONSTANTS
  Tab,
  Call,      (* slots for calls in flight                                     *)
  Token,     (* access tokens, one per login                                  *)
  NoPerms,   (* tokens of accounts without any permission                     *)
  None       (* no token                                                      *)

ASSUME WebSessionAssumption == None \notin Token /\ NoPerms \subseteq Token

VARIABLES
  key,       (* localStorage: the token under the key of the scope            *)
  legacy,    (* localStorage: the token under access_token, before the scopes *)
  snapshot,  (* localStorage: the token whose permissions are stored          *)
  view,      (* useCurrentUser of each tab                                    *)
  stale,     (* a storage event has not reached the tab yet                   *)
  due,       (* what the effect of AdminLayout does at the next render        *)
  call,      (* the calls                                                     *)
  issued,    (* tokens the server has issued                                  *)
  expired,   (* tokens past their exp                                         *)
  gone       (* history: tokens that were logged out or replaced              *)

storage == <<key, legacy, snapshot, gone>>
tabs    == <<view, stale, due>>
server  == <<issued, expired>>
vars    == <<storage, tabs, call, server>>

Kind   == {"login", "me", "work", "logout"}
Answers == {"none", "ok", "rejected", "denied", "lost"}
Effects == {"none",   (* no render is due                                       *)
            "skip",   (* only the cleanup of the effect before                  *)
            "ask"}    (* the user has no permissions: auth.me is called         *)
Idle   == [kind |-> "work", tab |-> None, sent |-> None, answer |-> "none", live |-> FALSE]

TypeOK ==
  /\ {key, legacy, snapshot} \subseteq Token \cup {None}
  /\ view \in [Tab -> Token \cup {None}]
  /\ stale \in [Tab -> BOOLEAN]
  /\ due \in [Tab -> Effects]
  /\ call \in [Call -> [kind : Kind, tab : Tab \cup {None}, sent : Token \cup {None},
                        answer : Answers, live : BOOLEAN]]
  /\ {issued, expired, gone} \subseteq SUBSET Token

(* What getToken returns: the scoped key, else the legacy one. *)
Session == IF key # None THEN key ELSE legacy

(* A browser that kept a token, under either key, from before the permission
   snapshot was stored, or none. *)
Init ==
  /\ \E t \in Token \cup {None} :
       /\ \/ key = t /\ legacy = None
          \/ key = None /\ legacy = t
       /\ issued = {t} \ {None}
  /\ snapshot = None
  /\ view = [b \in Tab |-> Session]
  /\ stale = [b \in Tab |-> FALSE]
  /\ due = [b \in Tab |-> IF Session # None THEN "ask" ELSE "none"]
  /\ call = [c \in Call |-> Idle]
  /\ expired = {}
  /\ gone = {}

-----------------------------------------------------------------------------
(* localStorage                                                               *)

Write(newKey, newLegacy, newSnapshot) ==
  /\ key' = newKey
  /\ legacy' = newLegacy
  /\ snapshot' = newSnapshot
  /\ gone' = gone \cup ({Session} \ {newKey, None})

(* migrateLegacyUserToken, done by whoever looks at the token. *)
Migrate == Write(Session, None, snapshot)

(* Seeded fault: logout forgets the legacy key. *)
Logout_KeepsLegacy == Write(None, legacy, None)

(* logout: token, metadata and the legacy key go. *)
Logout == Write(None, None, None)

(* persistAuth after a login. *)
PersistAuth(t) == Write(t, None, IF t \in NoPerms THEN None ELSE t)

(* updateAuthMeta: nothing without a token. *)
UpdateAuthMeta(t) ==
  IF Session = None THEN Migrate
  ELSE Write(Session, None, IF t \in NoPerms THEN None ELSE t)

(* getCurrentUser: an expired token is logged out. *)
CheckCurrentUser == IF Session \in expired THEN Logout ELSE Migrate

-----------------------------------------------------------------------------
(* The browser tells the tabs other than b that b changed the storage. *)
Told(b) ==
  [o \in Tab |-> stale[o] \/ (o # b /\ <<key', legacy', snapshot'>> # <<key, legacy, snapshot>>)]

(* setUser(getCurrentUser()) in tab b.  A user is a new object every time, so the
   tab renders again and the effect of AdminLayout is due; null after null is no
   change. *)
SetUser(b) ==
  /\ view' = [view EXCEPT ![b] = key']
  /\ due' = [due EXCEPT ![b] = IF key' # None /\ snapshot' = None THEN "ask"
                              ELSE IF <<view[b], key'>> # <<None, None>> THEN "skip" ELSE @]

(* notifyAuthChanged in tab b: its useCurrentUser reads the storage again. *)
Notify(b) == SetUser(b) /\ stale' = Told(b)

(* The request goes out with the token stored now; `calls` are the calls before. *)
Send(c, b, kind, calls) ==
  /\ call[c] = Idle
  /\ call' = [calls EXCEPT ![c] = [kind |-> kind, tab |-> b, sent |-> Session,
                                   answer |-> "none", live |-> TRUE]]
  /\ Migrate
  /\ stale' = Told(b)
  /\ UNCHANGED server

-----------------------------------------------------------------------------
(* Seeded faults                                                              *)

(* Every business error is taken for the end of the session. *)
Fails_AnyError(c) == call[c].answer \in {"rejected", "denied"}

(* AdminLayout without the cleanup that sets the flag `cancelled`. *)
Cancelled_Never(b) == call

(* No storage listener: a tab never hears of the others. *)
StorageEvent_Ignored(b) ==
  /\ stale[b]
  /\ stale' = [stale EXCEPT ![b] = FALSE]
  /\ UNCHANGED <<storage, view, due, call, server>>

-----------------------------------------------------------------------------
(* What a tab does                                                            *)

(* The login form, which is open to all; a call of a page behind AuthGuard; the
   button of its layout.  A page stays on the screen until the next render. *)
UserCalls(c, b) ==
  /\ \/ Send(c, b, "login", call)
     \/ /\ view[b] # None \/ due[b] # "none"
        /\ \E kind \in {"work", "logout"} : Send(c, b, kind, call)
  /\ UNCHANGED <<view, due>>

(* The cleanup of the effect: an answer of me is not wanted any more. *)
Cancelled(b) ==
  [c \in Call |-> IF call[c].tab = b /\ call[c].kind = "me"
                  THEN [call[c] EXCEPT !.live = FALSE] ELSE call[c]]

(* The tab renders the user that was set last and the effect of AdminLayout runs
   again: its cleanup, and auth.me for a session without permissions. *)
Render(b) ==
  /\ due[b] # "none"
  /\ due' = [due EXCEPT ![b] = "none"]
  /\ \/ due[b] = "skip" /\ call' = Cancelled(b) /\ UNCHANGED <<storage, stale, server>>
     \/ due[b] = "ask" /\ \E c \in Call : Send(c, b, "me", Cancelled(b))
  /\ UNCHANGED view

(* useCurrentUser's storage listener; what it changes in turn, a logout of an
   expired token, is announced like any other. *)
StorageEvent(b) ==
  /\ stale[b]
  /\ CheckCurrentUser
  /\ SetUser(b)
  /\ stale' = [Told(b) EXCEPT ![b] = FALSE]
  /\ UNCHANGED <<call, server>>

(* The page is loaded anew: its calls are forgotten. *)
Reload(b) ==
  /\ CheckCurrentUser
  /\ view' = [view EXCEPT ![b] = key']
  /\ due' = [due EXCEPT ![b] = IF key' # None /\ snapshot' = None THEN "ask" ELSE "none"]
  /\ stale' = [Told(b) EXCEPT ![b] = FALSE]
  /\ call' = [c \in Call |-> IF call[c].tab = b THEN Idle ELSE call[c]]
  /\ UNCHANGED server

-----------------------------------------------------------------------------
(* The server, the network and the clock                                      *)

Answer(c, what) ==
  /\ call[c].tab # None /\ call[c].answer = "none"
  /\ call' = [call EXCEPT ![c].answer = what]

(* A login issues a token no one has seen; it travels in `sent`. *)
AnswerLogin(c) ==
  /\ call[c].kind = "login" /\ call[c].tab # None /\ call[c].answer = "none"
  /\ \E t \in Token \ issued :
       /\ call' = [call EXCEPT ![c].answer = "ok", ![c].sent = t]
       /\ issued' = issued \cup {t}
  /\ UNCHANGED <<storage, tabs, expired>>

(* Other methods need a valid token (requireLogin); logout is public. *)
AnswerCall(c) ==
  /\ \/ /\ call[c].kind \in {"me", "work"}
        /\ \/ call[c].sent \in expired \cup {None} /\ Answer(c, "rejected")
           \/ /\ call[c].sent \notin expired \cup {None}
              /\ Answer(c, "ok") \/ Answer(c, "denied")
     \/ call[c].kind = "logout" /\ Answer(c, "ok")
     \/ call[c].kind = "login" /\ Answer(c, "denied")
     \/ Answer(c, "lost")
  /\ UNCHANGED <<storage, tabs, server>>

Expire(t) ==
  /\ t \in issued \ expired
  /\ expired' = expired \cup {t}
  /\ UNCHANGED <<storage, tabs, call, issued>>

-----------------------------------------------------------------------------
(* JsonRpc.call gets its answer, and what its caller does with it             *)

(* isAuthFailureCode: permission and other errors do not end the session. *)
Fails(c) == call[c].answer = "rejected"

(* The caller of me uses an answer only if its effect was not cleaned up. *)
Wanted(c) == call[c].kind = "me" /\ call[c].answer = "ok" /\ call[c].live

(* handleLogout's finally, whatever the server said. *)
LogsOut(c) == call[c].kind = "logout" /\ call[c].answer # "none"

Arrive(c) ==
  LET b == call[c].tab
      loggedIn == call[c].kind = "login" /\ call[c].answer = "ok"
      restored == Wanted(c) /\ Session # None
  IN
  /\ call[c].answer # "none"
  /\ \/ (Fails(c) \/ LogsOut(c)) /\ Logout /\ Notify(b)
     \/ loggedIn /\ PersistAuth(call[c].sent) /\ Notify(b)
     \/ restored /\ UpdateAuthMeta(call[c].sent) /\ Notify(b)
     \/ ~Fails(c) /\ ~LogsOut(c) /\ ~loggedIn /\ ~restored /\ UNCHANGED <<storage, tabs>>
  /\ call' = [call EXCEPT ![c] = Idle]
  /\ UNCHANGED server

-----------------------------------------------------------------------------
Next ==
  \/ \E c \in Call, b \in Tab : UserCalls(c, b)
  \/ \E b \in Tab : Render(b) \/ StorageEvent(b) \/ Reload(b)
  \/ \E c \in Call : AnswerLogin(c) \/ AnswerCall(c) \/ Arrive(c)
  \/ \E t \in Token : Expire(t)

Spec == Init /\ [][Next]_vars

-----------------------------------------------------------------------------
(* A tab shows the session that is stored, unless a storage event is still on
   its way or the token expired since the tab last looked. *)
TabsAgree ==
  \A b \in Tab : view[b] = Session \/ stale[b] \/ view[b] \in expired

(* A token that was logged out or replaced is never the session again: not by a
   late answer, not by another tab, not out of the legacy key. *)
NoResurrection == gone \cap {key, legacy} = {}

(* Stored permissions that are not those of the session come from one place: an
   answer of auth.me to a tab which has not yet heard of another tab's login, or
   has not yet rendered a change that it heard of or made itself.  From that render
   on, an answer that outlived its login is dropped. *)
SnapshotOfSession ==
  [][snapshot' \notin {None, Session'} =>
       \/ snapshot \notin {None, Session}
       \/ \E c \in Call, b \in Tab : /\ stale[b] \/ due[b] # "none"
                                    /\ call[c].tab = b /\ call[c].kind = "me"
                                    /\ call'[c] = Idle]_vars

(* A session ends only by a logout, because its token expired, or by an answer
   that rejects a token; refusals and lost answers leave it alone. *)
SessionEndsForCause ==
  [][Session # None /\ Session' = None =>
       \/ Session \in expired
       \/ \E c \in Call : /\ call[c] # Idle /\ call'[c] = Idle
                          /\ call[c].kind = "logout" \/ call[c].answer = "rejected"]_vars

(* What handleAuthError's comment says: only a login state that became invalid is
   cleared.  The code also clears a valid one, when the rejection of an older
   token comes in late. *)
OnlyInvalidSessionEnds ==
  [][Session # None /\ Session' = None =>
       \/ Session \in expired
       \/ \E c \in Call : call[c].kind = "logout" /\ call'[c] = Idle]_vars
=============================================================================
