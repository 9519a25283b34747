--------------------------- MODULE WebSessionProofs ---------------------------
(***************************************************************************)
(* What the tabs of a browser agree on although they share nothing but     *)
(* localStorage, for any number of tabs, calls and tokens: a tab that has  *)
(* not been told shows a flag, the storage event on its way; and a token   *)
(* that nobody has seen yet travels in one call only.                      *)
(***************************************************************************)
EXTENDS WebSession, TLAPS

(* The answer of a login carries a token that nobody else has. *)
Carries(c) == call[c].kind = "login" /\ call[c].answer = "ok"

FreshTokens ==
  /\ gone \cup ({key, legacy} \ {None}) \subseteq issued
  /\ \A c \in Call : Carries(c) =>
       /\ call[c].sent \in issued \ (gone \cup {key, legacy})
       /\ \A d \in Call \ {c} : Carries(d) => call[d].sent # call[c].sent

(* A call of me whose answer is still wanted asked for the session's permissions,
   or its tab has not heard of a change, or a render of the tab is due. *)
WantedFits(c) ==
  LET b == call[c].tab IN
  \/ due[b] # "none"
  \/ view[b] # None /\ (stale[b] \/ call[c].sent = Session)

LiveCalls ==
  \A c \in Call : call[c].kind = "me" /\ call[c].live =>
    call[c].tab \in Tab /\ WantedFits(c)

(* Only the render of a user asks for permissions. *)
AsksForUser == \A b \in Tab : due[b] = "ask" => view[b] # None

IInv == TypeOK /\ FreshTokens /\ NoResurrection /\ TabsAgree /\ LiveCalls /\ AsksForUser

-----------------------------------------------------------------------------
(* What the operations on localStorage do to the session.                     *)

Keeps     == /\ Session' = Session /\ gone' = gone
             /\ key' = Session /\ legacy' = None
Ends      == /\ Session' = None /\ gone' = gone \cup ({Session} \ {None})
             /\ key' = None /\ legacy' = None
Begins(t) == /\ Session' = t /\ gone' = gone \cup ({Session} \ {t, None})
             /\ key' = t /\ legacy' = None

LEMMA MigrateKeeps == ASSUME Migrate PROVE Keeps /\ snapshot' = snapshot
BY DEF Migrate, Write, Keeps, Session

LEMMA LogoutEnds == ASSUME Logout PROVE Ends /\ snapshot' = None
BY DEF Logout, Write, Ends, Session

LEMMA PersistBegins ==
  ASSUME NEW t \in Token, PersistAuth(t)
  PROVE  Begins(t) /\ snapshot' \in {t, None}
BY WebSessionAssumption DEF PersistAuth, Write, Begins, Session

LEMMA UpdateKeeps ==
  ASSUME NEW t, Session # None, UpdateAuthMeta(t)
  PROVE  Keeps /\ snapshot' \in {t, None}
BY DEF UpdateAuthMeta, Write, Keeps, Session

LEMMA CheckKeepsOrEnds ==
  ASSUME CheckCurrentUser
  PROVE  (Keeps /\ snapshot' = snapshot) \/ (Session \in expired /\ Ends /\ snapshot' = None)
BY MigrateKeeps, LogoutEnds DEF CheckCurrentUser

(* An arriving answer leaves the storage alone, or keeps, ends or begins a session
   and tells the tab; its call is over. *)
LEMMA ArriveCases ==
  ASSUME TypeOK, FreshTokens, NEW c \in Call, Arrive(c)
  PROVE  /\ call' = [call EXCEPT ![c] = Idle]
         /\ \/ UNCHANGED <<storage, tabs>>
            \/ /\ Notify(call[c].tab)
               /\ \/ /\ call[c].kind = "logout" \/ call[c].answer = "rejected"
                     /\ call[c].answer # "none"
                     /\ Ends /\ snapshot' = None
                  \/ /\ Carries(c) /\ Begins(call[c].sent)
                     /\ snapshot' \in {call[c].sent, None}
                  \/ /\ Wanted(c) /\ Keeps
                     /\ snapshot' \in {call[c].sent, None}
<1>1. Carries(c) => call[c].sent \in Token
  BY DEF TypeOK, FreshTokens
<1> QED
  BY <1>1, LogoutEnds, PersistBegins, UpdateKeeps DEF Arrive, Fails, LogsOut, Wanted, Carries

LEMMA IdleTyped ==
  Idle \in [kind : Kind, tab : Tab \cup {None}, sent : Token \cup {None},
            answer : Answers, live : BOOLEAN]
BY DEF Idle, Kind, Answers

CallType == [kind : Kind, tab : Tab \cup {None}, sent : Token \cup {None},
             answer : Answers, live : BOOLEAN]

LEMMA SessionTyped ==
  ASSUME TypeOK
  PROVE  Session \in Token \cup {None}
BY DEF TypeOK, Session

(* A tab's calls stay what they are when their effect is cleaned up, but unwanted. *)
LEMMA CancelledCalls ==
  ASSUME TypeOK, NEW b \in Tab
  PROVE  /\ Cancelled(b) \in [Call -> CallType]
         /\ \A d \in Call :
              /\ Cancelled(b)[d].kind = call[d].kind
              /\ Cancelled(b)[d].tab = call[d].tab
              /\ Cancelled(b)[d].answer = call[d].answer
              /\ Cancelled(b)[d].sent = call[d].sent
              /\ call[d].kind = "me" /\ call[d].tab = b => ~Cancelled(b)[d].live
              /\ call[d].kind # "me" \/ call[d].tab # b => Cancelled(b)[d] = call[d]
<1>1. \A d \in Call : call[d] \in CallType
  BY DEF TypeOK, CallType
<1> QED
  BY <1>1 DEF Cancelled, CallType

(* A call that is sent, by a page or by the effect. *)
LEMMA SentCall ==
  ASSUME TypeOK, NEW c \in Call, NEW b \in Tab, NEW k \in Kind,
         NEW f \in [Call -> CallType], Send(c, b, k, f)
  PROVE  /\ call' \in [Call -> CallType]
         /\ call'[c] = [kind |-> k, tab |-> b, sent |-> Session,
                         answer |-> "none", live |-> TRUE]
         /\ \A d \in Call \ {c} : call'[d] = f[d]
BY SessionTyped DEF Send, CallType, Answers

(* What Render does, with the calls after the cleanup. *)
LEMMA RenderCases ==
  ASSUME NEW b \in Tab, Render(b)
  PROVE  \/ call' = Cancelled(b) /\ UNCHANGED <<storage, stale, server>>
         \/ due[b] = "ask" /\ \E c \in Call : Send(c, b, "me", Cancelled(b))
BY DEF Render

(* Calls keep their type, and a call is forgotten, sent, answered or cleaned up. *)
LEMMA CallStep ==
  ASSUME TypeOK, Next
  PROVE  call' \in [Call -> CallType]
<1>0. call \in [Call -> CallType]
  BY DEF TypeOK, CallType
<1>1. ASSUME NEW c \in Call, NEW b \in Tab, UserCalls(c, b)
      PROVE  call' \in [Call -> CallType]
  BY <1>0, <1>1, SentCall DEF UserCalls, Kind
<1>2. ASSUME NEW c \in Call, AnswerLogin(c) PROVE call' \in [Call -> CallType]
  <2>1. PICK t \in Token \ issued :
               call' = [call EXCEPT ![c].answer = "ok", ![c].sent = t]
    BY <1>2 DEF AnswerLogin
  <2>2. call[c] \in CallType
    BY <1>0
  <2>3. [call[c] EXCEPT !.answer = "ok", !.sent = t] \in CallType
    BY <2>2 DEF CallType, Answers
  <2> QED
    BY <1>0, <2>1, <2>3
<1>3. ASSUME NEW c \in Call, AnswerCall(c) PROVE call' \in [Call -> CallType]
  BY <1>0, <1>3 DEF AnswerCall, Answer, CallType, Answers
<1>4. ASSUME NEW b \in Tab, Render(b) PROVE call' \in [Call -> CallType]
  <2>1. Cancelled(b) \in [Call -> CallType]
    BY CancelledCalls
  <2>2. "me" \in Kind
    BY DEF Kind
  <2> QED
    BY <1>4, <2>1, <2>2, RenderCases, SentCall
<1>5. ASSUME NEW c \in Call, Arrive(c) PROVE call' \in [Call -> CallType]
  BY <1>0, <1>5, IdleTyped DEF Arrive, CallType
<1>6. ASSUME NEW b \in Tab, StorageEvent(b) PROVE call' \in [Call -> CallType]
  BY <1>0, <1>6 DEF StorageEvent
<1>7. ASSUME NEW b \in Tab, Reload(b) PROVE call' \in [Call -> CallType]
  BY <1>0, <1>7, IdleTyped DEF Reload, CallType
<1>8. ASSUME NEW t \in Token, Expire(t) PROVE call' \in [Call -> CallType]
  BY <1>0, <1>8 DEF Expire
<1> QED
  BY <1>1, <1>2, <1>3, <1>4, <1>5, <1>6, <1>7, <1>8 DEF Next

-----------------------------------------------------------------------------
(* What a step does to the session, and what gave cause to it.                *)

Arrives(c) == call[c] # Idle /\ call'[c] = Idle

Effect ==
  \/ UNCHANGED storage
  \/ Keeps /\ snapshot' = snapshot
  \/ /\ Ends /\ snapshot' = None
     /\ \/ Session \in expired
        \/ \E c \in Call : Arrives(c) /\ (call[c].kind = "logout" \/ call[c].answer = "rejected")
  \/ \E c \in Call : /\ Carries(c) /\ Arrives(c)
                     /\ Begins(call[c].sent) /\ snapshot' \in {call[c].sent, None}
  \/ \E c \in Call : /\ Wanted(c) /\ Arrives(c)
                     /\ Keeps /\ snapshot' \in {call[c].sent, None}

LEMMA StepHasEffect == ASSUME TypeOK, FreshTokens, Next PROVE Effect
<1>0. call \in [Call -> CallType]
  BY DEF TypeOK, CallType
<1>1. ASSUME NEW c \in Call, NEW b \in Tab, UserCalls(c, b) PROVE Effect
  BY <1>1, MigrateKeeps DEF UserCalls, Send, Effect
<1>2. ASSUME NEW b \in Tab, StorageEvent(b) \/ Reload(b) PROVE Effect
  BY <1>2, CheckKeepsOrEnds DEF StorageEvent, Reload, Effect
<1>3. ASSUME NEW c \in Call, AnswerLogin(c) \/ AnswerCall(c) PROVE Effect
  BY <1>3 DEF AnswerLogin, AnswerCall, Effect
<1>4. ASSUME NEW c \in Call, Arrive(c) PROVE Effect
  <2>1. call[c] # Idle
    BY <1>4 DEF Arrive, Idle
  <2>2. call'[c] = Idle
    BY <1>0, <1>4, ArriveCases
  <2>3. Arrives(c)
    BY <2>1, <2>2 DEF Arrives
  <2> QED
    BY <1>4, <2>3, ArriveCases DEF Effect
<1>5. ASSUME NEW t \in Token, Expire(t) PROVE Effect
  BY <1>5 DEF Expire, Effect
<1>6. ASSUME NEW b \in Tab, Render(b) PROVE Effect
  BY <1>6, RenderCases, MigrateKeeps DEF Send, Effect
<1> QED
  BY <1>1, <1>2, <1>3, <1>4, <1>5, <1>6 DEF Next

LEMMA StorageTyped ==
  ASSUME TypeOK, FreshTokens, Effect
  PROVE  {key', legacy', snapshot'} \subseteq Token \cup {None} /\ gone' \in SUBSET Token
<1>1. Session \in Token \cup {None}
  BY SessionTyped
<1>2. \A c \in Call : call[c].sent \in Token \cup {None}
  BY DEF TypeOK
<1> QED
  BY <1>1, <1>2 DEF Effect, TypeOK, Keeps, Ends, Begins, storage

-----------------------------------------------------------------------------
(* What a step does to the tabs.                                              *)

(* What Notify, StorageEvent and Reload do alike: tab b looks, the others hear. *)
Looks(b) ==
  /\ view' = [view EXCEPT ![b] = key']
  /\ stale' = Told(b) \/ stale' = [Told(b) EXCEPT ![b] = FALSE]
  /\ due' \in [Tab -> Effects]
  /\ \A o \in Tab \ {b} : due'[o] = due[o]
  /\ b \in Tab /\ due'[b] = "ask" => key' # None

(* What the other steps do: no tab looks, and the session stays. *)
Stays ==
  /\ view' = view /\ Session' = Session
  /\ stale' = stale \/ \E o \in Tab : stale' = Told(o)
  /\ due' \in [Tab -> Effects]
  /\ \A o \in Tab : due'[o] \in {due[o], "none"}

(* Telling a tab, at once or by a storage event, keeps the types. *)
LEMMA ToldTyped ==
  ASSUME TypeOK, NEW b
  PROVE  /\ Told(b) \in [Tab -> BOOLEAN]
         /\ \A o \in Tab : stale[o] => Told(b)[o]
         /\ \A o \in Tab : o # b /\ ~Told(b)[o] => key' = key /\ legacy' = legacy
<1>1. \A o \in Tab : stale[o] \in BOOLEAN
  BY DEF TypeOK
<1> QED
  BY <1>1 DEF Told

(* A render is due, or the tab showed no user and shows none. *)
Redraws(b) == due'[b] # "none" \/ (view[b] = None /\ due'[b] = due[b])

(* setUser of a tab: it has looked, and a render is due if what it shows changes. *)
LEMMA SetUserLooks ==
  ASSUME TypeOK, AsksForUser, NEW b \in Tab \cup {None}, SetUser(b), key' \in Token \cup {None},
         stale' = Told(b) \/ stale' = [Told(b) EXCEPT ![b] = FALSE]
  PROVE  /\ Looks(b)
         /\ b \in Tab => Redraws(b)
<1>0. due \in [Tab -> Effects]
  BY DEF TypeOK
<1>1. \A o \in Tab : due'[o] = IF o # b THEN due[o]
                               ELSE IF key' # None /\ snapshot' = None THEN "ask"
                               ELSE IF <<view[b], key'>> # <<None, None>> THEN "skip" ELSE due[o]
  BY <1>0 DEF SetUser
<1>2. DOMAIN due' = Tab /\ due' = [o \in Tab |-> due'[o]]
  BY <1>0 DEF SetUser
<1>3. \A o \in Tab : due'[o] \in Effects
  BY <1>0, <1>1 DEF Effects
<1>4. due' \in [Tab -> Effects]
  BY <1>2, <1>3
<1>5. b \in Tab => /\ due'[b] = "ask" => (key' # None \/ (due[b] = "ask" /\ view[b] = None))
                   /\ Redraws(b)
  BY <1>1 DEF Redraws
<1>6. b \in Tab /\ due'[b] = "ask" => key' # None
  BY <1>5 DEF AsksForUser
<1> QED
  BY <1>1, <1>4, <1>5, <1>6 DEF Looks, SetUser

(* A step lets one tab look, tells the others, or leaves the tabs alone. *)
LEMMA StepOfTabs ==
  ASSUME TypeOK, FreshTokens, AsksForUser, Next
  PROVE  Stays \/ \E b \in Tab \cup {None} : Looks(b) /\ Session' = key'
<1> DEFINE Goal == Stays \/ \E b \in Tab \cup {None} : Looks(b) /\ Session' = key'
<1>0. due \in [Tab -> Effects]
  BY DEF TypeOK
<1>k. key' \in Token \cup {None}
  BY StepHasEffect, StorageTyped
<1>a. ASSUME UNCHANGED storage, UNCHANGED tabs PROVE Stays
  BY <1>0, <1>a DEF storage, tabs, Session, Stays
<1>b. ASSUME legacy' = None PROVE Session' = key'
  BY <1>b DEF Session
<1>1. ASSUME NEW c \in Call, NEW b \in Tab, UserCalls(c, b) PROVE Stays
  <2>1. Session' = Session /\ stale' = Told(b)
    BY <1>1, MigrateKeeps DEF UserCalls, Send, Keeps
  <2> QED
    BY <1>0, <1>1, <2>1 DEF UserCalls, Stays
<1>6. ASSUME NEW b \in Tab, Render(b) PROVE Stays
  <2>1. Session' = Session /\ (stale' = stale \/ stale' = Told(b))
    BY <1>6, RenderCases, MigrateKeeps DEF Send, Keeps, storage, Session
  <2>2. view' = view /\ due' = [due EXCEPT ![b] = "none"]
    BY <1>6 DEF Render
  <2> QED
    BY <1>0, <2>1, <2>2 DEF Stays, Effects
<1>2. ASSUME NEW b \in Tab, StorageEvent(b) \/ Reload(b) PROVE Looks(b) /\ Session' = key'
  <2>1. legacy' = None
    BY <1>2, CheckKeepsOrEnds DEF StorageEvent, Reload, Keeps, Ends
  <2>2. ASSUME StorageEvent(b) PROVE Looks(b)
    <3>1. SetUser(b) /\ stale' = [Told(b) EXCEPT ![b] = FALSE]
      BY <2>2 DEF StorageEvent
    <3> QED
      BY <1>k, <3>1, SetUserLooks
  <2>3. ASSUME Reload(b) PROVE Looks(b)
    <3>1. due' = [due EXCEPT ![b] = IF key' # None /\ snapshot' = None THEN "ask" ELSE "none"]
      BY <2>3 DEF Reload
    <3>2. /\ due' \in [Tab -> Effects]
          /\ \A o \in Tab \ {b} : due'[o] = due[o]
          /\ due'[b] = "ask" => key' # None
      BY <1>0, <3>1 DEF Effects
    <3> QED
      BY <2>3, <3>2 DEF Reload, Looks
  <2> QED
    BY <1>2, <2>1, <2>2, <2>3, <1>b
<1>3. ASSUME NEW c \in Call, AnswerLogin(c) \/ AnswerCall(c) PROVE Stays
  BY <1>3, <1>a DEF AnswerLogin, AnswerCall
<1>4. ASSUME NEW c \in Call, Arrive(c) PROVE Goal
  <2>1. call[c].tab \in Tab \cup {None}
    BY DEF TypeOK
  <2>2. CASE UNCHANGED <<storage, tabs>>
    BY <2>2, <1>a
  <2>3. CASE Notify(call[c].tab) /\ legacy' = None
    BY <2>1, <2>3, <1>b, <1>k, SetUserLooks DEF Notify
  <2> QED
    BY <1>4, <2>2, <2>3, ArriveCases DEF Keeps, Ends, Begins
<1>5. ASSUME NEW t \in Token, Expire(t) PROVE Stays
  BY <1>5, <1>a DEF Expire
<1> QED
  BY <1>1, <1>2, <1>3, <1>4, <1>5, <1>6 DEF Next

LEMMA ExpiredStays ==
  ASSUME Next
  PROVE  expired \subseteq expired'
BY DEF Next, UserCalls, Render, Send, StorageEvent, Reload, AnswerLogin, AnswerCall,
       Arrive, Expire, server

LEMMA TypeStep == ASSUME TypeOK, FreshTokens, AsksForUser, Next PROVE TypeOK'
<1>1. call' \in [Call -> CallType]
  BY CallStep
<1>2. {key', legacy', snapshot'} \subseteq Token \cup {None} /\ gone' \in SUBSET Token
  BY StepHasEffect, StorageTyped
<1>3. /\ view' \in [Tab -> Token \cup {None}]
      /\ stale' \in [Tab -> BOOLEAN]
      /\ due' \in [Tab -> Effects]
  <2>1. view \in [Tab -> Token \cup {None}] /\ stale \in [Tab -> BOOLEAN]
    BY DEF TypeOK
  <2>2. ASSUME NEW b \in Tab \cup {None}, Looks(b)
        PROVE  view' \in [Tab -> Token \cup {None}] /\ due' \in [Tab -> Effects]
    BY <1>2, <2>1, <2>2 DEF Looks
  <2>3. ASSUME NEW b \in Tab \cup {None}, Looks(b)
        PROVE  stale' \in [Tab -> BOOLEAN]
    BY <2>3, ToldTyped DEF Looks
  <2>4. ASSUME Stays
        PROVE  /\ view' \in [Tab -> Token \cup {None}] /\ stale' \in [Tab -> BOOLEAN]
               /\ due' \in [Tab -> Effects]
    BY <2>1, <2>4, ToldTyped DEF Stays
  <2> QED
    BY <2>2, <2>3, <2>4, StepOfTabs
<1>6. issued' \in SUBSET Token /\ expired' \in SUBSET Token
  <2>1. issued \in SUBSET Token /\ expired \in SUBSET Token
    BY DEF TypeOK
  <2> QED
    BY <2>1 DEF Next, UserCalls, Render, Send, StorageEvent, Reload, AnswerLogin,
                AnswerCall, Arrive, Expire, server
<1> QED
  BY <1>1, <1>2, <1>3, <1>6 DEF TypeOK, CallType

(* A tab has just looked, or is due to hear, or saw nothing change. *)
LEMMA TabsInformed ==
  ASSUME TypeOK, FreshTokens, AsksForUser, Next, NEW b \in Tab
  PROVE  \/ view'[b] = Session'
         \/ stale'[b]
         \/ view'[b] = view[b] /\ ~stale[b] /\ Session' = Session
<1>1. ASSUME NEW o \in Tab \cup {None}, Looks(o), Session' = key', ~stale'[b], b # o
      PROVE  view'[b] = view[b] /\ ~stale[b] /\ Session' = Session
  <2>1. ~Told(o)[b]
    BY <1>1, ToldTyped DEF Looks
  <2>2. ~stale[b] /\ key' = key /\ legacy' = legacy
    BY <1>1, <2>1, ToldTyped
  <2>3. view'[b] = view[b]
    BY <1>1 DEF Looks, TypeOK
  <2> QED
    BY <2>2, <2>3 DEF Session
<1>2. ASSUME Looks(b), Session' = key'
      PROVE  view'[b] = Session'
  BY <1>2 DEF Looks, TypeOK
<1>3. ASSUME Stays, ~stale'[b]
      PROVE  view'[b] = view[b] /\ ~stale[b] /\ Session' = Session
  BY <1>3, ToldTyped DEF Stays
<1> QED
  BY <1>1, <1>2, <1>3, StepOfTabs

LEMMA TabsAgreeStep ==
  ASSUME TypeOK, FreshTokens, AsksForUser, TabsAgree, Next
  PROVE  TabsAgree'
<1> SUFFICES ASSUME NEW b \in Tab
             PROVE  view'[b] = Session' \/ stale'[b] \/ view'[b] \in expired'
  BY DEF TabsAgree
<1> QED
  BY TabsInformed, ExpiredStays DEF TabsAgree

-----------------------------------------------------------------------------
(* The tokens                                                                 *)

(* Tokens become known by a login alone, and a call carries one only from then. *)
Carried(c) == Carries(c) /\ call'[c].sent = call[c].sent

LEMMA StepOfCalls ==
  ASSUME TypeOK, FreshTokens, Next
  PROVE  \/ /\ issued' = issued
            /\ \A d \in Call : Carries(d)' => Carried(d)
         \/ \E c \in Call, t \in Token \ issued :
              /\ issued' = issued \cup {t} /\ UNCHANGED storage
              /\ call'[c].sent = t
              /\ \A d \in Call \ {c} : Carries(d)' => Carried(d)
<1> DEFINE Same == issued' = issued /\ \A d \in Call : Carries(d)' => Carried(d)
           Issues == \E c \in Call, t \in Token \ issued :
              /\ issued' = issued \cup {t} /\ UNCHANGED storage
              /\ call'[c].sent = t
              /\ \A d \in Call \ {c} : Carries(d)' => Carried(d)
<1>0. call \in [Call -> CallType]
  BY DEF TypeOK, CallType
<1>s. ASSUME NEW c \in Call, NEW b \in Tab, NEW k \in Kind, NEW f \in [Call -> CallType],
             Send(c, b, k, f),
             \A d \in Call : /\ f[d].kind = call[d].kind
                             /\ f[d].answer = call[d].answer /\ f[d].sent = call[d].sent
      PROVE  Same
  <2>0. Send(c, b, k, f)
    BY <1>s
  <2>1. call'[c].answer = "none" /\ \A d \in Call \ {c} : call'[d] = f[d]
    BY <2>0 DEF Send
  <2> QED
    BY <1>s, <2>1 DEF Send, server, Carries, Carried
<1>1. ASSUME NEW c \in Call, NEW b \in Tab, UserCalls(c, b) PROVE Same
  BY <1>0, <1>1, <1>s DEF UserCalls, Kind
<1>2. ASSUME NEW b \in Tab, StorageEvent(b) PROVE Same
  BY <1>0, <1>2 DEF StorageEvent, server, Carries, Carried
<1>3. ASSUME NEW b \in Tab, Reload(b) PROVE Same
  <2>1. \A d \in Call : call'[d] = call[d] \/ call'[d] = Idle
    BY <1>3 DEF Reload
  <2> QED
    BY <1>3, <2>1 DEF Reload, server, Carries, Carried, Idle
<1>8. ASSUME NEW b \in Tab, Render(b) PROVE Same
  <2>1. CASE call' = Cancelled(b) /\ UNCHANGED server
    BY <2>1, CancelledCalls DEF server, Carries, Carried
  <2>2. CASE \E c \in Call : Send(c, b, "me", Cancelled(b))
    BY <2>2, <1>s, CancelledCalls DEF Kind
  <2> QED
    BY <1>8, <2>1, <2>2, RenderCases
<1>4. ASSUME NEW c \in Call, AnswerLogin(c) PROVE Issues
  <2>1. PICK t \in Token \ issued :
             /\ call' = [call EXCEPT ![c].answer = "ok", ![c].sent = t]
             /\ issued' = issued \cup {t}
    BY <1>4 DEF AnswerLogin
  <2>2. call'[c].sent = t /\ \A d \in Call \ {c} : call'[d] = call[d]
    BY <1>0, <2>1 DEF CallType
  <2> QED
    BY <1>4, <2>1, <2>2 DEF AnswerLogin, Carries, Carried
<1>5. ASSUME NEW c \in Call, AnswerCall(c) PROVE Same
  <2>1. PICK what \in Answers : Answer(c, what) /\ (call[c].kind = "login" => what # "ok")
    <3>1. CASE call[c].kind \in {"me", "work"}
      BY <1>5, <3>1 DEF AnswerCall, Answers
    <3>2. CASE call[c].kind \notin {"me", "work"}
      BY <1>5, <3>2 DEF AnswerCall, Answers
    <3> QED
      BY <3>1, <3>2
  <2>2. /\ call'[c].kind = call[c].kind /\ call'[c].answer = what
        /\ \A d \in Call \ {c} : call'[d] = call[d]
    BY <1>0, <2>1 DEF Answer, CallType
  <2> QED
    BY <1>5, <2>1, <2>2 DEF AnswerCall, server, Carries, Carried
<1>6. ASSUME NEW c \in Call, Arrive(c) PROVE Same
  <2>1. \A d \in Call : call'[d] = call[d] \/ call'[d] = Idle
    BY <1>0, <1>6 DEF Arrive
  <2> QED
    BY <1>6, <2>1 DEF Arrive, server, Carries, Carried, Idle
<1>7. ASSUME NEW t \in Token, Expire(t) PROVE Same
  BY <1>7 DEF Expire, Carries, Carried
<1> HIDE DEF Same, Issues
<1>9. Same \/ Issues
  BY <1>1, <1>2, <1>3, <1>4, <1>5, <1>6, <1>7, <1>8 DEF Next
<1> QED
  BY <1>9 DEF Same, Issues

LEMMA TokensStep ==
  ASSUME TypeOK, FreshTokens, NoResurrection, Next
  PROVE  FreshTokens' /\ NoResurrection'
<1>0. /\ gone \subseteq Token /\ {key, legacy} \subseteq Token \cup {None}
      /\ Session \in {key, legacy}
      /\ Session = None => key = None /\ legacy = None
  BY DEF TypeOK, Session
<1>1. Effect
  BY StepHasEffect
<1>2. ASSUME UNCHANGED storage \/ Keeps \/ Ends
      PROVE  /\ NoResurrection'
             /\ {key', legacy'} \subseteq {key, legacy, None}
             /\ gone' \subseteq gone \cup ({key, legacy} \ {None})
  BY <1>0, <1>2, WebSessionAssumption DEF NoResurrection, storage, Keeps, Ends
<1>3. ASSUME NEW c \in Call, Carries(c), Begins(call[c].sent)
      PROVE  /\ NoResurrection'
             /\ {key', legacy'} \subseteq {call[c].sent, None}
             /\ gone' \subseteq gone \cup ({key, legacy} \ {None})
             /\ call[c].sent \in issued
  BY <1>0, <1>3, WebSessionAssumption DEF NoResurrection, Begins, FreshTokens
<1>4. NoResurrection'
  BY <1>1, <1>2, <1>3 DEF Effect
<1>5. CASE /\ issued' = issued
           /\ \A d \in Call : Carries(d)' => Carried(d)
  <2>1. ASSUME UNCHANGED storage \/ Keeps \/ Ends
        PROVE  FreshTokens'
    <3>1. gone' \cup ({key', legacy'} \ {None}) \subseteq issued'
      BY <1>0, <1>2, <1>5, <2>1, WebSessionAssumption DEF FreshTokens
    <3>2. ASSUME NEW d \in Call, Carries(d)'
          PROVE  call'[d].sent \in issued' \ (gone' \cup {key', legacy'})
      <4>1. call'[d].sent \in issued \ (gone \cup {key, legacy})
        BY <1>5, <3>2 DEF FreshTokens, Carried
      <4>2. call'[d].sent # None
        BY <4>1, WebSessionAssumption DEF TypeOK
      <4> QED
        BY <1>2, <1>5, <2>1, <4>1, <4>2
    <3>3. ASSUME NEW d \in Call, NEW e \in Call \ {d}, Carries(d)', Carries(e)'
          PROVE  call'[d].sent # call'[e].sent
      BY <1>5, <3>3 DEF FreshTokens, Carried
    <3> QED
      BY <3>1, <3>2, <3>3 DEF FreshTokens, Carries
  <2>2. ASSUME NEW c \in Call, Carries(c), Arrives(c), Begins(call[c].sent)
        PROVE  FreshTokens'
    <3>1. ~Carries(c)'
      BY <2>2 DEF Arrives, Idle, Carries
    <3> QED
      BY <1>0, <1>3, <1>5, <2>2, <3>1, WebSessionAssumption DEF FreshTokens, Carried, TypeOK
  <2> QED
    BY <1>1, <1>4, <2>1, <2>2 DEF Effect
<1>6. CASE \E c \in Call, t \in Token \ issued :
              /\ issued' = issued \cup {t} /\ UNCHANGED storage
              /\ call'[c].sent = t
              /\ \A d \in Call \ {c} : Carries(d)' => Carried(d)
  <2> PICK c \in Call, t \in Token \ issued :
              /\ issued' = issued \cup {t} /\ UNCHANGED storage
              /\ call'[c].sent = t
              /\ \A d \in Call \ {c} : Carries(d)' => Carried(d)
    BY <1>6
  <2>1. t \notin gone \cup {key, legacy}
    BY WebSessionAssumption DEF FreshTokens
  <2>2. gone' = gone /\ key' = key /\ legacy' = legacy
    BY DEF storage
  <2> QED
    <3>1. gone' \cup ({key', legacy'} \ {None}) \subseteq issued'
      BY <2>2 DEF FreshTokens
    <3>2. ASSUME NEW d \in Call, Carries(d)'
          PROVE  call'[d].sent \in issued' \ (gone' \cup {key', legacy'})
      BY <2>1, <2>2, <3>2 DEF FreshTokens, Carried
    <3>3. ASSUME NEW d \in Call, NEW e \in Call \ {d}, Carries(d)', Carries(e)'
          PROVE  call'[d].sent # call'[e].sent
      BY <3>3 DEF FreshTokens, Carried
    <3> QED
      BY <1>4, <3>1, <3>2, <3>3 DEF FreshTokens, Carries
<1> QED
  BY <1>4, <1>5, <1>6, StepOfCalls

-----------------------------------------------------------------------------
(* The answers still wanted                                                   *)

(* A call of me keeps waiting while its tab does not look: the tab hears of what
   changed, or nothing did. *)
LEMMA WaitsOn ==
  ASSUME TypeOK, FreshTokens, Next, NEW d \in Call, call[d].tab \in Tab, WantedFits(d),
         call'[d].tab = call[d].tab, call'[d].sent = call[d].sent,
         view'[call[d].tab] = view[call[d].tab], due'[call[d].tab] = due[call[d].tab],
         \/ stale'[call[d].tab]
         \/ ~stale[call[d].tab] /\ Session' = Session
  PROVE  WantedFits(d)'
BY DEF WantedFits

(* No step makes a waiting call of me one of another session unnoticed. *)
LEMMA LiveCallsStep ==
  ASSUME TypeOK, FreshTokens, LiveCalls, AsksForUser, Next
  PROVE  LiveCalls'
<1>0. call \in [Call -> CallType]
  BY DEF TypeOK, CallType
<1>k. key' \in Token \cup {None}
  BY StepHasEffect, StorageTyped
<1> SUFFICES ASSUME NEW d \in Call, call'[d].kind = "me", call'[d].live
             PROVE  call'[d].tab \in Tab /\ WantedFits(d)'
  BY DEF LiveCalls
<1> DEFINE Goal == call'[d].tab \in Tab /\ WantedFits(d)'
           b0 == call[d].tab
(* The call is as before. *)
<1> DEFINE Kept == /\ call[d].kind = "me" /\ call[d].live
                   /\ call'[d].tab = call[d].tab /\ call'[d].sent = call[d].sent
<1>a. ASSUME Kept, view'[b0] = view[b0], due'[b0] = due[b0],
             stale'[b0] \/ (~stale[b0] /\ Session' = Session)
      PROVE  Goal
  BY <1>a, WaitsOn DEF LiveCalls
<1>b. ASSUME Kept, view' = view, due' = due, Session' = Session,
             stale' = stale \/ (\E o \in Tab : stale' = Told(o))
      PROVE  Goal
  <2>1. b0 \in Tab
    BY <1>b DEF LiveCalls
  <2>2. stale[b0] => stale'[b0]
    BY <1>b, <2>1, ToldTyped
  <2> QED
    BY <1>a, <1>b, <2>2
(* Tab b looks: a render of it is due, unless it showed no user before. *)
<1>c. ASSUME Kept, NEW b \in Tab \cup {None}, Looks(b), Session' = key',
             b \in Tab => Redraws(b)
      PROVE  Goal
  <2>1. b0 \in Tab /\ WantedFits(d)
    BY <1>c DEF LiveCalls
  <2>2. CASE b0 = b
    <3>1. due'[b] # "none"
      BY <1>c, <2>1, <2>2 DEF WantedFits, Redraws
    <3> QED
      BY <1>c, <2>1, <2>2, <3>1 DEF WantedFits
  <2>3. CASE b0 # b
    <3>1. view'[b0] = view[b0] /\ due'[b0] = due[b0]
      BY <1>c, <2>1, <2>3 DEF Looks, TypeOK
    <3>2. stale'[b0] \/ ~Told(b)[b0]
      BY <1>c, <2>1, <2>3, ToldTyped DEF Looks
    <3>3. stale'[b0] \/ (~stale[b0] /\ key' = key /\ legacy' = legacy)
      BY <2>1, <2>3, <3>2, ToldTyped
    <3> QED
      BY <1>a, <1>c, <3>1, <3>3 DEF Session
  <2> QED
    BY <2>2, <2>3
<1> HIDE DEF Goal, b0
<1>1. ASSUME NEW c \in Call, NEW b \in Tab, UserCalls(c, b) PROVE Goal
  <2>1. PICK k \in Kind \ {"me"} : Send(c, b, k, call)
    <3>1. {"login", "work", "logout"} = Kind \ {"me"}
      BY DEF Kind
    <3> QED
      BY <1>1, <3>1 DEF UserCalls
  <2>2. call'[c].kind = k /\ \A e \in Call \ {c} : call'[e] = call[e]
    BY <1>0, <2>1 DEF Send
  <2>3. Kept
    BY <2>2
  <2>4. view' = view /\ due' = due /\ stale' = Told(b) /\ Session' = Session
    BY <1>1, <2>1, MigrateKeeps DEF UserCalls, Send, Keeps
  <2> QED
    BY <1>b, <2>3, <2>4
<1>2. ASSUME NEW b \in Tab, StorageEvent(b) PROVE Goal
  <2>1. legacy' = None
    BY <1>2, CheckKeepsOrEnds DEF StorageEvent, Keeps, Ends
  <2>2. Kept
    BY <1>2 DEF StorageEvent
  <2>3. SetUser(b) /\ stale' = [Told(b) EXCEPT ![b] = FALSE] /\ Session' = key'
    BY <1>2, <2>1 DEF StorageEvent, Session
  <2>4. Looks(b) /\ (b \in Tab => Redraws(b))
    BY <1>k, <2>3, SetUserLooks
  <2> QED
    BY <1>c, <2>2, <2>3, <2>4
<1>3. ASSUME NEW b \in Tab, Reload(b) PROVE Goal
  <2>1. legacy' = None
    BY <1>3, CheckKeepsOrEnds DEF Reload, Keeps, Ends
  <2>2. call[d].tab # b /\ call'[d] = call[d]
    BY <1>3 DEF Reload, Idle
  <2>3. b0 \in Tab
    BY <2>2 DEF LiveCalls, b0
  <2>4. view'[b0] = view[b0] /\ due'[b0] = due[b0] /\ stale'[b0] = Told(b)[b0]
    BY <1>3, <2>2, <2>3, ToldTyped DEF Reload, TypeOK, b0
  <2>5. stale'[b0] \/ (~stale[b0] /\ Session' = Session)
    BY <2>2, <2>3, <2>4, ToldTyped DEF b0, Session
  <2> QED
    BY <1>a, <2>2, <2>4, <2>5
<1>4. ASSUME NEW c \in Call, AnswerLogin(c) PROVE Goal
  <2>1. PICK t \in Token : call' = [call EXCEPT ![c].answer = "ok", ![c].sent = t]
    BY <1>4 DEF AnswerLogin
  <2>2. call[c].kind = "login"
    BY <1>4 DEF AnswerLogin
  <2>3. call'[c].kind = "login" /\ \A e \in Call \ {c} : call'[e] = call[e]
    BY <1>0, <2>1, <2>2 DEF CallType
  <2>4. view' = view /\ due' = due /\ stale' = stale /\ Session' = Session
    BY <1>4 DEF AnswerLogin, storage, tabs, Session
  <2> QED
    BY <1>b, <2>3, <2>4
<1>5. ASSUME NEW c \in Call, AnswerCall(c) PROVE Goal
  <2>1. view' = view /\ due' = due /\ stale' = stale /\ Session' = Session
    BY <1>5 DEF AnswerCall, storage, tabs, Session
  <2>2. \E what \in Answers : call' = [call EXCEPT ![c].answer = what]
    <3>1. CASE call[c].kind \in {"me", "work"}
      BY <1>5, <3>1 DEF AnswerCall, Answer, Answers
    <3>2. CASE call[c].kind \notin {"me", "work"}
      BY <1>5, <3>2 DEF AnswerCall, Answer, Answers
    <3> QED
      BY <3>1, <3>2
  <2>3. Kept
    <3> PICK what \in Answers : call' = [call EXCEPT ![c].answer = what]
      BY <2>2
    <3>1. CASE d = c
      <4>1. call'[c] = [call[c] EXCEPT !.answer = what]
        BY <1>0
      <4> QED
        BY <1>0, <3>1, <4>1 DEF CallType
    <3>2. CASE d # c
      BY <1>0, <3>2
    <3> QED
      BY <3>1, <3>2
  <2> QED
    BY <1>b, <2>1, <2>3
<1>6. ASSUME NEW c \in Call, Arrive(c) PROVE Goal
  <2>1. Kept
    BY <1>0, <1>6 DEF Arrive, Idle
  <2>2. call[c].tab \in Tab \cup {None}
    BY DEF TypeOK
  <2>3. CASE UNCHANGED <<storage, tabs>>
    BY <1>b, <2>1, <2>3 DEF storage, tabs, Session
  <2>4. CASE Notify(call[c].tab) /\ legacy' = None
    <3>1. SetUser(call[c].tab) /\ stale' = Told(call[c].tab) /\ Session' = key'
      BY <2>4 DEF Notify, Session
    <3>2. Looks(call[c].tab) /\ (call[c].tab \in Tab => Redraws(call[c].tab))
      BY <1>k, <2>2, <3>1, SetUserLooks
    <3> QED
      BY <1>c, <2>1, <2>2, <3>1, <3>2
  <2> QED
    BY <1>6, <2>3, <2>4, ArriveCases DEF Keeps, Ends, Begins
<1>7. ASSUME NEW t \in Token, Expire(t) PROVE Goal
  BY <1>7, <1>b DEF Expire, storage, tabs, Session
<1>8. ASSUME NEW b \in Tab, Render(b) PROVE Goal
  <2>1. view' = view /\ due' = [due EXCEPT ![b] = "none"]
    BY <1>8 DEF Render
  <2>2. /\ Session' = Session
        /\ stale' = stale \/ stale' = Told(b)
    BY <1>8, RenderCases, MigrateKeeps DEF Send, Keeps, storage, Session
  <2>3. ASSUME call'[d] = Cancelled(b)[d] PROVE Goal
    <3>1. Kept /\ call[d].tab # b
      BY <2>3, CancelledCalls
    <3>2. b0 \in Tab /\ due'[b0] = due[b0]
      BY <2>1, <3>1 DEF LiveCalls, b0, TypeOK
    <3>3. stale[b0] => stale'[b0]
      BY <2>2, <3>2, ToldTyped
    <3> QED
      BY <1>a, <2>1, <2>2, <3>1, <3>2, <3>3
  <2>4. ASSUME NEW c \in Call, Send(c, b, "me", Cancelled(b)), due[b] = "ask" PROVE Goal
    <3>1. /\ call'[c] = [kind |-> "me", tab |-> b, sent |-> Session,
                         answer |-> "none", live |-> TRUE]
          /\ \A e \in Call \ {c} : call'[e] = Cancelled(b)[e]
      BY <2>4, CancelledCalls, SentCall DEF Kind
    <3>2. view[b] # None
      BY <2>4 DEF AsksForUser
    <3>3. CASE d = c
      BY <2>1, <2>2, <3>1, <3>2, <3>3 DEF Goal, WantedFits
    <3> QED
      BY <2>3, <3>1, <3>3
  <2> QED
    BY <1>8, <2>3, <2>4, RenderCases
<1>9. Goal
  BY <1>1, <1>2, <1>3, <1>4, <1>5, <1>6, <1>7, <1>8 DEF Next
<1> QED
  BY <1>9 DEF Goal

LEMMA AsksStep ==
  ASSUME TypeOK, FreshTokens, AsksForUser, Next
  PROVE  AsksForUser'
<1> SUFFICES ASSUME NEW o \in Tab, due'[o] = "ask" PROVE view'[o] # None
  BY DEF AsksForUser
<1>1. CASE Stays
  BY <1>1 DEF Stays, AsksForUser
<1>2. ASSUME NEW b \in Tab \cup {None}, Looks(b) PROVE view'[o] # None
  BY <1>2 DEF Looks, AsksForUser, TypeOK
<1> QED
  BY <1>1, <1>2, StepOfTabs

-----------------------------------------------------------------------------
LEMMA InitIInv == Init => IInv
<1> SUFFICES ASSUME Init PROVE IInv
  OBVIOUS
<1>0. Session \in Token \cup {None}
  BY DEF Init, Session
<1>1. TypeOK
  BY <1>0, IdleTyped DEF Init, TypeOK, Effects
<1>2. FreshTokens
  BY WebSessionAssumption DEF Init, FreshTokens, Carries, Idle
<1>3. NoResurrection /\ TabsAgree
  BY DEF Init, NoResurrection, TabsAgree
<1>4. LiveCalls /\ AsksForUser
  BY DEF Init, LiveCalls, Idle, AsksForUser
<1> QED
  BY <1>1, <1>2, <1>3, <1>4 DEF IInv

LEMMA IInvStep == IInv /\ [Next]_vars => IInv'
<1> SUFFICES ASSUME IInv, [Next]_vars PROVE IInv'
  OBVIOUS
<1>1. CASE Next
  BY <1>1, TypeStep, TokensStep, TabsAgreeStep, LiveCallsStep, AsksStep DEF IInv
<1>2. CASE UNCHANGED vars
  <2>1. /\ key' = key /\ legacy' = legacy /\ snapshot' = snapshot /\ gone' = gone
        /\ view' = view /\ stale' = stale /\ due' = due /\ call' = call
        /\ issued' = issued /\ expired' = expired
    BY <1>2 DEF vars, storage, tabs, server
  <2> QED
    BY <2>1 DEF IInv, TypeOK, FreshTokens, Carries, NoResurrection, TabsAgree,
                LiveCalls, WantedFits, AsksForUser, Session
<1> QED
  BY <1>1, <1>2

(* The inductive invariant of one browser, whatever its tabs do. *)
THEOREM WebInvariant == Spec => []IInv
BY InitIInv, IInvStep, PTL DEF Spec

THEOREM WebTypeCorrect == Spec => []TypeOK
BY WebInvariant, PTL DEF IInv

(* useCurrentUser: what a tab shows is the stored session, or it will hear. *)
THEOREM EveryTabAgrees == Spec => []TabsAgree
BY WebInvariant, PTL DEF IInv

(* logout and persistAuth remove both keys: no later step brings a token back. *)
THEOREM GoneForGood == Spec => []NoResurrection
BY WebInvariant, PTL DEF IInv

(* Only logout, exp and a rejection clear the session. *)
THEOREM EndsForCause == Spec => SessionEndsForCause
<1>1. ASSUME IInv, Next, Session # None, Session' = None
      PROVE  \/ Session \in expired
             \/ \E c \in Call : /\ call[c] # Idle /\ call'[c] = Idle
                                /\ call[c].kind = "logout" \/ call[c].answer = "rejected"
  <2>1. Effect
    BY <1>1, StepHasEffect DEF IInv
  <2>2. ~(UNCHANGED storage) /\ ~Keeps
    BY <1>1 DEF storage, Keeps, Session
  <2>3. ASSUME NEW c \in Call, Carries(c) PROVE ~Begins(call[c].sent)
    BY <1>1, <2>3, WebSessionAssumption DEF Begins, IInv, FreshTokens, TypeOK
  <2> QED
    BY <2>1, <2>2, <2>3 DEF Effect, Arrives
<1>2. ASSUME UNCHANGED vars PROVE Session' = Session
  BY <1>2 DEF vars, storage, Session
<1>3. IInv /\ [Next]_vars =>
        [Session # None /\ Session' = None =>
           \/ Session \in expired
           \/ \E c \in Call : /\ call[c] # Idle /\ call'[c] = Idle
                              /\ call[c].kind = "logout" \/ call[c].answer = "rejected"]_vars
  BY <1>1, <1>2
<1> QED
  BY <1>3, WebInvariant, PTL DEF Spec, SessionEndsForCause

(* The flag `cancelled` of AdminLayout: from the render of a change on, no answer
   that was asked for before it is stored. *)
THEOREM SnapshotIsOfSession == Spec => SnapshotOfSession
<1>1. ASSUME IInv, Next, snapshot' \notin {None, Session'}
      PROVE  \/ snapshot \notin {None, Session}
             \/ \E c \in Call, b \in Tab : /\ stale[b] \/ due[b] # "none"
                                          /\ call[c].tab = b /\ call[c].kind = "me"
                                          /\ call'[c] = Idle
  <2>1. Effect
    BY <1>1, StepHasEffect DEF IInv
  <2>2. ASSUME UNCHANGED storage PROVE snapshot \notin {None, Session}
    BY <1>1, <2>2 DEF storage, Session
  <2>3. ASSUME Keeps, snapshot' = snapshot PROVE snapshot \notin {None, Session}
    BY <1>1, <2>3 DEF Keeps
  <2>4. ASSUME NEW c \in Call, Begins(call[c].sent) PROVE snapshot' \notin {call[c].sent, None}
    BY <1>1, <2>4 DEF Begins
  <2>5. ASSUME NEW c \in Call, Wanted(c), Keeps, snapshot' \in {call[c].sent, None}
        PROVE  /\ stale[call[c].tab] \/ due[call[c].tab] # "none"
               /\ call[c].tab \in Tab /\ call[c].kind = "me"
    <3>1. call[c].sent # Session
      BY <1>1, <2>5 DEF Keeps
    <3> QED
      BY <1>1, <2>5, <3>1 DEF Wanted, IInv, LiveCalls, WantedFits
  <2> QED
    BY <1>1, <2>1, <2>2, <2>3, <2>4, <2>5 DEF Effect, Arrives
<1>2. ASSUME UNCHANGED vars, snapshot' \notin {None, Session'}
      PROVE  snapshot \notin {None, Session}
  BY <1>2 DEF vars, storage, Session
<1>3. IInv /\ [Next]_vars =>
        [snapshot' \notin {None, Session'} =>
           \/ snapshot \notin {None, Session}
           \/ \E c \in Call, b \in Tab : /\ stale[b] \/ due[b] # "none"
                                        /\ call[c].tab = b /\ call[c].kind = "me"
                                        /\ call'[c] = Idle]_vars
  BY <1>1, <1>2
<1> QED
  BY <1>3, WebInvariant, PTL DEF Spec, SnapshotOfSession
=============================================================================
