-------------------------- MODULE WebSession_proofs --------------------------
(***************************************************************************)
(* Proofs about WebSession: for any number of tabs, accounts and tokens,   *)
(* whatever expires, gets lost or is typed, a page that stays shows the    *)
(* account its requests are made for.                                      *)
(***************************************************************************)
EXTENDS WebSession, TLAPS

\* What OwnTab asks of a document before PrivateRoute has looked at it.
Agrees(d, stored) ==
    d.path = "/dashboard" /\ d.leaving = "no" =>
        /\ d.token = stored.token
        /\ d.phase = "verifying" => d.sent = d.token
        /\ d.phase = "ready" /\ d.token # NoToken => d.user = Account(d.token)

\* PrivateRoute changes at most the path, and what it leaves on a private page agrees.
LEMMA Routed ==
    ASSUME NEW d \in DocumentType
    PROVE  /\ PrivateRoute(d) \in DocumentType
           /\ PrivateRoute(d).attempt = d.attempt
           /\ d.path = "/login" => PrivateRoute(d).path = "/login"
           /\ PrivateRoute(d).path = "/dashboard" =>
                PrivateRoute(d) = d /\ (d.phase = "ready" => d.token # NoToken)
  BY DEF PrivateRoute, DocumentType, Places

\* A step of one tab keeps the invariant if its new document agrees with the
\* new storage, or another tab is the one that wrote last.
LEMMA OneTab ==
    ASSUME SessionInv, NEW t \in Tabs, NEW d \in DocumentType, Becomes(t, d),
           d.attempt = "login" => d.path = "/login",
           storage' \in [token : MaybeToken, user : MaybeUser],
           issued' \subseteq Tokens, valid' \subseteq issued',
           storage'.token # NoToken => storage'.token \in issued',
           faultsLeft' \in 0..FaultBudget, clicksLeft' \in 0..ClickBudget,
           foreign' \subseteq Tabs,
           \A o \in Tabs \ {t} : o \notin foreign' =>
               o \notin foreign /\ storage'.token = storage.token,
           t \notin foreign' => Agrees(d, storage')
    PROVE  SessionInv'
  <1>1. /\ tab' \in [Tabs -> DocumentType]
        /\ tab'[t] = PrivateRoute(d)
        /\ \A o \in Tabs \ {t} : tab'[o] = tab[o]
    BY Routed DEF SessionInv, TypeOK, Becomes
  <1>2. TypeOK'
    BY <1>1 DEF TypeOK
  <1>3. StoredTokenIsIssued'
    BY DEF StoredTokenIsIssued
  <1>4. SignsInAtLogin'
    BY <1>1, Routed DEF SessionInv, SignsInAtLogin
  <1>5. ASSUME NEW o \in Tabs \ foreign' PROVE OwnTab(o)'
    <2>1. CASE o = t
      BY <1>1, <1>5, <2>1, Routed DEF OwnTab, Agrees
    <2>2. CASE o # t
      <3>1. OwnTab(o) /\ tab'[o] = tab[o] /\ storage'.token = storage.token
        BY <1>1, <1>5, <2>2 DEF SessionInv
      <3> QED
        BY <3>1 DEF OwnTab
    <2> QED
      BY <2>1, <2>2
  <1> QED
    BY <1>2, <1>3, <1>4, <1>5 DEF SessionInv

LEMMA Budgets ==
    ASSUME TypeOK, Click \/ Fault \/ NoBudget, SessionAssumption
    PROVE  faultsLeft' \in 0..FaultBudget /\ clicksLeft' \in 0..ClickBudget
  BY DEF TypeOK, Click, Fault, NoBudget, SessionAssumption

LEMMA InitHolds == Init => SessionInv
  <1> SUFFICES ASSUME Init PROVE SessionInv
    OBVIOUS
  <1> USE SessionAssumption
  <1>1. \A p \in Places : [Document(p, Empty) EXCEPT !.leaving = p] \in DocumentType
    BY DEF Document, Empty, DocumentType, Places, MaybeToken, MaybeUser
  <1>2. storage \in [token : MaybeToken, user : MaybeUser]
    BY DEF Init, SessionAssumption, Session, Empty, MaybeToken, MaybeUser
  <1>3. TypeOK
    BY <1>1, <1>2 DEF Init, TypeOK, Places, SessionAssumption, MaybeToken
  <1>4. StoredTokenIsIssued
    BY DEF Init, StoredTokenIsIssued
  <1>5. ASSUME NEW t \in Tabs PROVE tab[t].attempt = "none" /\ tab[t].leaving # "no"
    BY DEF Init, Document, Empty
  <1> QED
    BY <1>3, <1>4, <1>5 DEF SessionInv, SignsInAtLogin, OwnTab

\* A step that writes nothing to the storage.
LEMMA QuietStep ==
    ASSUME SessionInv, SessionAssumption, NEW t \in Tabs, NEW d \in DocumentType, Becomes(t, d),
           d.attempt = "login" => d.path = "/login",
           UNCHANGED <<storage, foreign, issued, valid>>,
           Click \/ Fault \/ NoBudget,
           t \notin foreign => Agrees(d, storage)
    PROVE  SessionInv'
  <1>1. TypeOK /\ StoredTokenIsIssued
    BY DEF SessionInv
  <1>2. faultsLeft' \in 0..FaultBudget /\ clicksLeft' \in 0..ClickBudget
    BY <1>1, Budgets
  <1>3. /\ storage' \in [token : MaybeToken, user : MaybeUser]
        /\ issued' \subseteq Tokens /\ valid' \subseteq issued' /\ foreign' \subseteq Tabs
        /\ storage'.token # NoToken => storage'.token \in issued'
    BY <1>1 DEF TypeOK, StoredTokenIsIssued
  <1> QED
    BY <1>2, <1>3, OneTab

\* A step that clears the storage and leaves the private pages of its own tab.
LEMMA ClearingStep ==
    ASSUME SessionInv, SessionAssumption, NEW t \in Tabs, NEW d \in DocumentType, Becomes(t, d),
           d.attempt = "login" => d.path = "/login",
           Stores(t, Empty), UNCHANGED <<issued, valid>>,
           Click \/ Fault \/ NoBudget,
           d.path = "/dashboard" => d.leaving # "no"
    PROVE  SessionInv'
  <1>1. TypeOK
    BY DEF SessionInv
  <1>2. faultsLeft' \in 0..FaultBudget /\ clicksLeft' \in 0..ClickBudget
    BY <1>1, Budgets
  <1>3. /\ storage' = Empty
        /\ storage' \in [token : MaybeToken, user : MaybeUser]
        /\ storage'.token = NoToken
        /\ foreign' = foreign \union (Tabs \ {t})
    BY DEF Stores, Empty, MaybeToken, MaybeUser
  <1>4. issued' \subseteq Tokens /\ valid' \subseteq issued' /\ foreign' \subseteq Tabs
    BY <1>1, <1>3 DEF TypeOK
  <1>5. Agrees(d, storage')
    BY DEF Agrees
  <1> QED
    BY <1>2, <1>3, <1>4, <1>5, OneTab

\* What is known of a tab before it takes a step.
LEMMA Before ==
    ASSUME SessionInv, NEW t \in Tabs
    PROVE  /\ tab[t] \in DocumentType
           /\ tab[t].attempt = "login" => tab[t].path = "/login"
           /\ t \notin foreign => Agrees(tab[t], storage)
           /\ storage.token \in MaybeToken /\ storage.user \in MaybeUser
  BY DEF SessionInv, TypeOK, SignsInAtLogin, OwnTab, Agrees

\* No step of a document's life, of the login or of the callback disturbs the invariant.
LEMMA TabSteps ==
    ASSUME SessionInv, SessionAssumption, NEW t \in Tabs,
           Documents(t) \/ Provider(t) \/ Pages(t) \/ LoginPage(t) \/ CallbackPage(t)
    PROVE  SessionInv'
  <1> USE Before
  <1>1. ASSUME NEW path \in Places, Opens(t, path) PROVE SessionInv'
    <2> DEFINE d == [tab[t] EXCEPT !.leaving = path]
    <2>1. /\ d \in DocumentType
          /\ d.attempt = "login" => d.path = "/login"
          /\ t \notin foreign => Agrees(d, storage)
      BY <1>1 DEF Opens, DocumentType, Places, MaybeToken, MaybeUser, Agrees
    <2> QED
      BY <1>1, <2>1, QuietStep DEF Opens, StoresNothing
  <1>2. ASSUME Poll(t) PROVE SessionInv'
    <2> DEFINE d == [tab[t] EXCEPT !.calls = @ \union {storage.token}]
    <2>1. /\ d \in DocumentType
          /\ d.attempt = "login" => d.path = "/login"
          /\ t \notin foreign => Agrees(d, storage)
      BY <1>2 DEF Poll, DocumentType, Places, MaybeToken, MaybeUser, Agrees
    <2> QED
      BY <1>2, <2>1, QuietStep DEF Poll, StoresNothing
  <1>3. ASSUME FormRefused(t) PROVE SessionInv'
    <2> DEFINE d == AttemptFailed(t)
    <2>1. /\ d \in DocumentType
          /\ d.attempt = "login" => d.path = "/login"
          /\ t \notin foreign => Agrees(d, storage)
      BY <1>3 DEF FormRefused, AttemptFailed, DocumentType, Places, MaybeToken, MaybeUser, Agrees
    <2> QED
      BY <1>3, <2>1, QuietStep DEF FormRefused, StoresNothing
  <1>4. ASSUME LoginLost(t) PROVE SessionInv'
    <2> DEFINE d == AttemptFailed(t)
    <2>1. /\ d \in DocumentType
          /\ d.attempt = "login" => d.path = "/login"
          /\ t \notin foreign => Agrees(d, storage)
      BY <1>4 DEF LoginLost, AttemptFailed, DocumentType, Places, MaybeToken, MaybeUser, Agrees
    <2> QED
      BY <1>4, <2>1, QuietStep DEF LoginLost, StoresNothing
  <1>5. ASSUME HandleOAuthLogin(t) PROVE SessionInv'
    <2> DEFINE d == [tab[t] EXCEPT !.error = FALSE, !.attempt = "url"]
    <2>1. /\ d \in DocumentType
          /\ d.attempt = "login" => d.path = "/login"
          /\ t \notin foreign => Agrees(d, storage)
      BY <1>5 DEF HandleOAuthLogin, DocumentType, Places, MaybeToken, MaybeUser, Agrees
    <2> QED
      BY <1>5, <2>1, QuietStep DEF HandleOAuthLogin, StoresNothing
  <1>6. ASSUME OAuthUrlAnswered(t) PROVE SessionInv'
    <2> DEFINE d == [tab[t] EXCEPT !.attempt = "away", !.leaving = "provider"]
    <2>1. /\ d \in DocumentType
          /\ d.attempt = "login" => d.path = "/login"
          /\ t \notin foreign => Agrees(d, storage)
      BY <1>6 DEF OAuthUrlAnswered, DocumentType, Places, MaybeToken, MaybeUser, Agrees
    <2> QED
      BY <1>6, <2>1, QuietStep DEF OAuthUrlAnswered, StoresNothing
  <1>7. ASSUME OAuthFails(t) PROVE SessionInv'
    <2> DEFINE d == AttemptFailed(t)
    <2>1. /\ d \in DocumentType
          /\ d.attempt = "login" => d.path = "/login"
          /\ t \notin foreign => Agrees(d, storage)
      BY <1>7 DEF OAuthFails, AttemptFailed, DocumentType, Places, MaybeToken, MaybeUser, Agrees
    <2> QED
      BY <1>7, <2>1, QuietStep DEF OAuthFails, StoresNothing
  <1>8. ASSUME ReturnToLogin(t) PROVE SessionInv'
    <2> DEFINE d == [tab[t] EXCEPT !.path = "/login", !.error = FALSE]
    <2>1. /\ d \in DocumentType
          /\ d.attempt = "login" => d.path = "/login"
          /\ t \notin foreign => Agrees(d, storage)
      BY <1>8 DEF ReturnToLogin, DocumentType, Places, MaybeToken, MaybeUser, Agrees
    <2> QED
      BY <1>8, <2>1, QuietStep DEF ReturnToLogin, StoresNothing
  <1>9. ASSUME VerifyAuth(t) PROVE SessionInv'
    <2> DEFINE d == IF storage.token = NoToken
                    THEN [tab[t] EXCEPT !.phase = "ready"]
                    ELSE [tab[t] EXCEPT !.phase = "verifying", !.sent = storage.token]
    <2>1. /\ d \in DocumentType
          /\ d.attempt = "login" => d.path = "/login"
          /\ t \notin foreign => Agrees(d, storage)
      BY <1>9 DEF VerifyAuth, DocumentType, Places, MaybeToken, MaybeUser, Agrees
    <2> QED
      BY <1>9, <2>1, QuietStep DEF VerifyAuth, StoresNothing
  <1>10. ASSUME CallAnswered(t) PROVE SessionInv'
    <2>1. PICK k \in tab[t].calls \intersect valid : Becomes(t, Done(t, k))
      BY <1>10 DEF CallAnswered
    <2>2. /\ Done(t, k) \in DocumentType
          /\ Done(t, k).attempt = "login" => Done(t, k).path = "/login"
          /\ t \notin foreign => Agrees(Done(t, k), storage)
      BY DEF Done, DocumentType, Places, MaybeToken, MaybeUser, Agrees
    <2> QED
      BY <1>10, <2>1, <2>2, QuietStep DEF CallAnswered, StoresNothing
  <1>11. ASSUME CallLost(t) PROVE SessionInv'
    <2>1. PICK k \in tab[t].calls : Becomes(t, Done(t, k))
      BY <1>11 DEF CallLost
    <2>2. /\ Done(t, k) \in DocumentType
          /\ Done(t, k).attempt = "login" => Done(t, k).path = "/login"
          /\ t \notin foreign => Agrees(Done(t, k), storage)
      BY DEF Done, DocumentType, Places, MaybeToken, MaybeUser, Agrees
    <2> QED
      BY <1>11, <2>1, <2>2, QuietStep DEF CallLost, StoresNothing
  <1>12. ASSUME Submit(t) PROVE SessionInv'
    <2>1. PICK mode \in {"login", "register"} :
            Becomes(t, [tab[t] EXCEPT !.error = FALSE, !.attempt = mode])
      BY <1>12 DEF Submit
    <2> DEFINE d == [tab[t] EXCEPT !.error = FALSE, !.attempt = mode]
    <2>2. /\ d \in DocumentType
          /\ d.attempt = "login" => d.path = "/login"
          /\ t \notin foreign => Agrees(d, storage)
      BY <1>12 DEF Submit, DocumentType, Places, MaybeToken, MaybeUser, Agrees
    <2> QED
      BY <1>12, <2>1, <2>2, QuietStep DEF Submit
  <1>13. ASSUME HandleOAuthCallback(t) PROVE SessionInv'
    <2> DEFINE d == [tab[t] EXCEPT !.attempt = "oauth"]
    <2>1. \A e \in {d, AttemptFailed(t)} :
            /\ e \in DocumentType
            /\ e.attempt = "login" => e.path = "/login"
            /\ t \notin foreign => Agrees(e, storage)
      <3>1. /\ d \in DocumentType
            /\ d.attempt = "login" => d.path = "/login"
            /\ t \notin foreign => Agrees(d, storage)
        BY DEF DocumentType, Places, MaybeToken, MaybeUser, Agrees
      <3>2. /\ AttemptFailed(t) \in DocumentType
            /\ AttemptFailed(t).attempt = "login" => AttemptFailed(t).path = "/login"
            /\ t \notin foreign => Agrees(AttemptFailed(t), storage)
        BY DEF AttemptFailed, DocumentType, Places, MaybeToken, MaybeUser, Agrees
      <3> QED
        BY <3>1, <3>2
    <2>2. PICK e \in {d, AttemptFailed(t)} : Becomes(t, e)
      BY <1>13 DEF HandleOAuthCallback
    <2> QED
      BY <1>13, <2>1, <2>2, QuietStep DEF HandleOAuthCallback, StoresNothing
  <1>14. ASSUME Logout(t) PROVE SessionInv'
    <2> DEFINE d == SignedOut(tab[t])
    <2>1. /\ d \in DocumentType
          /\ d.attempt = "login" => d.path = "/login"
          /\ d.path = "/dashboard" => d.leaving # "no"
      BY <1>14 DEF Logout, SignedOut, AttemptFailed, DocumentType, Places, MaybeToken, MaybeUser
    <2> QED
      BY <1>14, <2>1, ClearingStep DEF Logout, VerifyFails
  <1>15. ASSUME MeRefused(t) PROVE SessionInv'
    <2> DEFINE d == [SignedOut(tab[t]) EXCEPT !.phase = "ready", !.sent = NoToken]
    <2>1. /\ d \in DocumentType
          /\ d.attempt = "login" => d.path = "/login"
          /\ d.path = "/dashboard" => d.leaving # "no"
      BY <1>15 DEF MeRefused, SignedOut, AttemptFailed, DocumentType, Places, MaybeToken, MaybeUser
    <2> QED
      BY <1>15, <2>1, ClearingStep DEF MeRefused, VerifyFails
  <1>16. ASSUME MeLost(t) PROVE SessionInv'
    <2> DEFINE d == [SignedOut(tab[t]) EXCEPT !.phase = "ready", !.sent = NoToken]
    <2>1. /\ d \in DocumentType
          /\ d.attempt = "login" => d.path = "/login"
          /\ d.path = "/dashboard" => d.leaving # "no"
      BY <1>16 DEF MeLost, SignedOut, AttemptFailed, DocumentType, Places, MaybeToken, MaybeUser
    <2> QED
      BY <1>16, <2>1, ClearingStep DEF MeLost, VerifyFails
  <1>17. ASSUME LoginRefused(t) PROVE SessionInv'
    <2> DEFINE d == AttemptFailed(t)
    <2>1. /\ d \in DocumentType
          /\ d.attempt = "login" => d.path = "/login"
          /\ d.path = "/dashboard" => d.leaving # "no"
      <3>1. tab[t].path = "/login"
        BY <1>17 DEF LoginRefused
      <3>2. d.path = "/login" /\ d \in DocumentType
        BY <3>1 DEF AttemptFailed, DocumentType
      <3> QED
        BY <3>2
    <2> QED
      BY <1>17, <2>1, ClearingStep DEF LoginRefused, VerifyFails
  <1>18. ASSUME CallRefused(t) PROVE SessionInv'
    <2>1. PICK k \in tab[t].calls \ valid : Becomes(t, Unauthorized(Done(t, k)))
      BY <1>18 DEF CallRefused
    <2> DEFINE d == Unauthorized(Done(t, k))
    <2>2. /\ d \in DocumentType
          /\ d.attempt = "login" => d.path = "/login"
          /\ d.path = "/dashboard" => d.leaving # "no"
      <3>1. /\ Done(t, k) \in DocumentType
            /\ Done(t, k).attempt = "login" => Done(t, k).path = "/login"
        BY DEF Done, DocumentType
      <3>2. CASE Done(t, k).path = "/login"
        BY <3>1, <3>2 DEF Unauthorized
      <3>3. CASE Done(t, k).path # "/login"
        BY <3>1, <3>3 DEF Unauthorized, DocumentType, Places
      <3> QED
        BY <3>2, <3>3
    <2> QED
      BY <1>18, <2>1, <2>2, ClearingStep DEF CallRefused
  <1>19. ASSUME Load(t) PROVE SessionInv'
    <2> DEFINE d == Document(tab[t].leaving, storage)
    <2>1. /\ d \in DocumentType
          /\ d.attempt = "login" => d.path = "/login"
          /\ Agrees(d, storage)
      BY <1>19 DEF Load, Document, DocumentType, Places, MaybeToken, MaybeUser, Agrees
    <2> QED
      BY <1>19, <2>1, OneTab, Budgets DEF Load, SessionInv, TypeOK, StoredTokenIsIssued
  <1>20. ASSUME ReturnFromProvider(t) PROVE SessionInv'
    <2> DEFINE d == Document("/auth/callback", storage)
    <2>1. /\ d \in DocumentType
          /\ d.attempt = "login" => d.path = "/login"
          /\ Agrees(d, storage)
      BY <1>20 DEF ReturnFromProvider, Document, DocumentType, Places, MaybeToken, MaybeUser, Agrees
    <2> QED
      BY <1>20, <2>1, OneTab, Budgets DEF ReturnFromProvider, SessionInv, TypeOK, StoredTokenIsIssued
  <1>21. ASSUME MeAnswered(t) PROVE SessionInv'
    <2> DEFINE me == Account(tab[t].sent)
               d == [tab[t] EXCEPT !.user = me, !.phase = "ready", !.sent = NoToken]
    <2>1. tab[t].sent \in Tokens /\ me \in Users
      BY <1>21 DEF MeAnswered, SessionInv, TypeOK, SessionAssumption
    <2>2. /\ storage' \in [token : MaybeToken, user : MaybeUser]
          /\ storage'.token = storage.token
      BY <1>21, <2>1 DEF MeAnswered, SessionInv, TypeOK, MaybeUser
    <2>3. /\ d \in DocumentType
          /\ d.attempt = "login" => d.path = "/login"
          /\ t \notin foreign => Agrees(d, storage')
      <3>1. /\ d \in DocumentType
            /\ d.attempt = tab[t].attempt /\ d.path = tab[t].path
            /\ d.leaving = tab[t].leaving /\ d.token = tab[t].token
            /\ d.phase = "ready" /\ d.user = me
        BY <2>1 DEF DocumentType, MaybeToken, MaybeUser
      <3>2. t \notin foreign => Agrees(d, storage')
        BY <1>21, <2>2, <3>1 DEF MeAnswered, Agrees
      <3> QED
        BY <3>1, <3>2
    <2>4. Becomes(t, d) /\ UNCHANGED <<foreign, issued, valid>> /\ NoBudget
      BY <1>21 DEF MeAnswered
    <2> QED
      BY <2>2, <2>3, <2>4, OneTab, Budgets DEF SessionInv, TypeOK, StoredTokenIsIssued
  <1>22. ASSUME LoginAnswered(t) PROVE SessionInv'
    <2>1. PICK k \in Tokens : SetAuthData(t, k)
      BY <1>22 DEF LoginAnswered
    <2> DEFINE d == [tab[t] EXCEPT !.token = k, !.user = Account(k), !.attempt = "none",
                                   !.leaving = "/dashboard"]
    <2>2. /\ d \in DocumentType
          /\ d.attempt = "login" => d.path = "/login"
          /\ Agrees(d, storage')
      BY SessionAssumption DEF DocumentType, Places, MaybeToken, MaybeUser, Agrees, SessionAssumption
    <2>3. storage' = Session(k) /\ foreign' = foreign \union (Tabs \ {t})
      BY <2>1 DEF SetAuthData, Stores
    <2>4. storage' \in [token : MaybeToken, user : MaybeUser] /\ storage'.token = k
      BY <2>3 DEF Session, MaybeToken, MaybeUser, SessionAssumption
    <2>5. issued' \subseteq Tokens /\ valid' \subseteq issued' /\ k \in issued' /\ foreign' \subseteq Tabs
      BY <2>1, <2>3 DEF SetAuthData, SessionInv, TypeOK
    <2>6. Becomes(t, d) /\ NoBudget
      BY <1>22, <2>1 DEF SetAuthData, LoginAnswered
    <2> QED
      BY <2>2, <2>3, <2>4, <2>5, <2>6, OneTab, Budgets DEF SessionInv
  <1>23. ASSUME OAuthAnswered(t) PROVE SessionInv'
    <2>1. PICK k \in Tokens : SetAuthData(t, k)
      BY <1>23 DEF OAuthAnswered
    <2> DEFINE d == [tab[t] EXCEPT !.token = k, !.user = Account(k), !.attempt = "none",
                                   !.leaving = "/dashboard"]
    <2>2. /\ d \in DocumentType
          /\ d.attempt = "login" => d.path = "/login"
          /\ Agrees(d, storage')
      BY SessionAssumption DEF DocumentType, Places, MaybeToken, MaybeUser, Agrees, SessionAssumption
    <2>3. storage' = Session(k) /\ foreign' = foreign \union (Tabs \ {t})
      BY <2>1 DEF SetAuthData, Stores
    <2>4. storage' \in [token : MaybeToken, user : MaybeUser] /\ storage'.token = k
      BY <2>3 DEF Session, MaybeToken, MaybeUser, SessionAssumption
    <2>5. issued' \subseteq Tokens /\ valid' \subseteq issued' /\ k \in issued' /\ foreign' \subseteq Tabs
      BY <2>1, <2>3 DEF SetAuthData, SessionInv, TypeOK
    <2>6. Becomes(t, d) /\ NoBudget
      BY <1>23, <2>1 DEF SetAuthData, OAuthAnswered
    <2> QED
      BY <2>2, <2>3, <2>4, <2>5, <2>6, OneTab, Budgets DEF SessionInv
  <1>24. ASSUME OAuthInvalid(t) PROVE SessionInv'
    <2> DEFINE d == [tab[t] EXCEPT !.attempt = "blank"]
    <2>1. /\ d \in DocumentType
          /\ d.attempt = "login" => d.path = "/login"
          /\ t \notin foreign => Agrees(d, storage)
      BY <1>24 DEF OAuthInvalid, DocumentType, Places, MaybeToken, MaybeUser, Agrees
    <2> QED
      BY <1>24, <2>1, QuietStep DEF OAuthInvalid, StoresNothing
  <1> QED
    BY <1>1, <1>2, <1>3, <1>4, <1>5, <1>6, <1>7, <1>8, <1>9, <1>10, <1>11, <1>12,
       <1>13, <1>14, <1>15, <1>16, <1>17, <1>18, <1>19, <1>20, <1>21, <1>22, <1>23, <1>24
    DEF Documents, Provider, Pages, LoginPage, CallbackPage

\* The invariant holds in every reachable state: the stored token was issued,
\* and a private page whose storage is its own works on it (AuthContext.tsx).
THEOREM SessionInvHolds == Spec => []SessionInv
  <1>1. ASSUME SessionInv, [Next]_vars PROVE SessionInv'
    <2>1. CASE \E t \in Tabs : Documents(t) \/ Provider(t) \/ Pages(t) \/ LoginPage(t) \/ CallbackPage(t)
      BY <1>1, <2>1, TabSteps, SessionAssumption
    <2>2. CASE \E k \in Tokens : Expire(k)
      <3>1. PICK k \in Tokens : Expire(k)
        BY <2>2
      <3>2. UNCHANGED <<storage, tab, foreign, issued>> /\ valid' \subseteq valid /\ Fault
        BY <3>1 DEF Expire
      <3>3. TypeOK'
        BY <1>1, <3>2, Budgets, SessionAssumption DEF SessionInv, TypeOK
      <3> QED
        BY <1>1, <3>2, <3>3 DEF SessionInv, StoredTokenIsIssued, SignsInAtLogin, OwnTab
    <2>3. CASE UNCHANGED vars
      BY <1>1, <2>3 DEF vars, SessionInv, TypeOK, StoredTokenIsIssued, SignsInAtLogin, OwnTab
    <2> QED
      BY <1>1, <2>1, <2>2, <2>3 DEF Next
  <1> QED
    BY <1>1, InitHolds, PTL DEF Spec

\* A page that stays, in a tab whose storage no other tab has written, shows the
\* account whose token its requests carry (AuthContext.tsx, client.ts).
THEOREM AccountIsShownHolds == Spec => []AccountIsShown
  <1>1. ASSUME SessionInv PROVE AccountIsShown
    BY <1>1 DEF SessionInv, OwnTab, AccountIsShown, Shown
  <1> QED
    BY <1>1, SessionInvHolds, PTL

=============================================================================
