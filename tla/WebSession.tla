------------------------------ MODULE WebSession ------------------------------
(***************************************************************************)
(* The session of a user in the web front end: browser tabs that share one *)
(* localStorage, each with its own React state and requests in flight.     *)
(*                                                                         *)
(*   frontend/src/context/AuthContext.tsx     who is signed in             *)
(*   frontend/src/api/client.ts               the interceptors of axios    *)
(*   frontend/src/pages/Login.tsx             sign in, register, OAuth     *)
(*   frontend/src/pages/AuthCallback.tsx      the way back from OAuth      *)
(*   frontend/src/components/PrivateRoute.tsx pages that need a session    *)
(*                                                                         *)
(* Assigning window.location.href only starts a navigation: until the new  *)
(* document loads, the old one still runs and its answers still arrive.    *)
(* The dashboard stands for every private page.                            *)
(***************************************************************************)
EXTENDS Integers, FiniteSets

CONSTANTS
    Tabs,         \* tabs of one browser
    Users,        \* accounts
    Tokens,       \* access tokens that may be issued
    Account(_),   \* the account a token is issued to, its subject
    Earlier,      \* those that a browser may keep from an earlier session
    CallsAtOnce,  \* how many requests of a page are in flight at once
    FaultBudget,  \* how many tokens expire and requests fail
    ClickBudget,  \* how many things the user does
    NoToken,      \* no token
    NoUser        \* nobody

ASSUME SessionAssumption ==
    /\ NoToken \notin Tokens
    /\ NoUser \notin Users
    /\ \A k \in Tokens : Account(k) \in Users
    /\ Earlier \subseteq Tokens
    /\ CallsAtOnce \in Nat
    /\ FaultBudget \in Nat
    /\ ClickBudget \in Nat

VARIABLES
    storage,    \* localStorage: what is under "token" and "user"
    tab,        \* tabs: the document, its React state and its requests
    foreign,    \* tabs in whose document's life another tab wrote the token
    issued,     \* tokens that were given out
    valid,      \* those the API still accepts
    faultsLeft, \* disturbances still to come
    clicksLeft  \* steps of the user still to come

vars == <<storage, tab, foreign, issued, valid, faultsLeft, clicksLeft>>

MaybeToken == Tokens \union {NoToken}
MaybeUser == Users \union {NoUser}
Places == {"/login", "/auth/callback", "/dashboard"}
Empty == [token |-> NoToken, user |-> NoUser]

\* A document as it is created: the state of React is read from storage once.
Document(path, stored) ==
    [path |-> path, leaving |-> "no", phase |-> "mounted",
     token |-> stored.token, user |-> stored.user, sent |-> NoToken,
     attempt |-> IF path = "/auth/callback" THEN "code" ELSE "none",
     error |-> FALSE, calls |-> {}]

\* Private pages show a spinner until the session is verified, then need a token.
PrivateRoute(d) ==
    IF d.path = "/dashboard" /\ d.phase = "ready" /\ d.token = NoToken
    THEN [d EXCEPT !.path = "/login"] ELSE d

Becomes(t, d) == tab' = [tab EXCEPT ![t] = PrivateRoute(d)]

Shown(t) ==
    /\ tab[t].path = "/dashboard"
    /\ tab[t].phase = "ready"

\* The session of token k in the storage.
Session(k) == [token |-> k, user |-> Account(k)]

\* The tabs are opened in a browser that may keep a session from earlier.
Init ==
    /\ storage \in {Empty} \union {Session(k) : k \in Earlier}
    /\ tab \in [Tabs -> {[Document(p, Empty) EXCEPT !.leaving = p] :
                             p \in {"/login", "/dashboard"}}]
    /\ foreign = {}
    /\ issued = {storage.token} \ {NoToken}
    /\ valid \in SUBSET issued
    /\ faultsLeft = FaultBudget
    /\ clicksLeft = ClickBudget

Click ==
    /\ clicksLeft > 0
    /\ clicksLeft' = clicksLeft - 1
    /\ UNCHANGED faultsLeft

Fault ==
    /\ faultsLeft > 0
    /\ faultsLeft' = faultsLeft - 1
    /\ UNCHANGED clicksLeft

NoBudget == UNCHANGED <<faultsLeft, clicksLeft>>

\* Tab t writes to localStorage.
Stores(t, stored) ==
    /\ storage' = stored
    /\ foreign' = foreign \union (Tabs \ {t})
StoresNothing == UNCHANGED <<storage, foreign>>

-----------------------------------------------------------------------------
(* Documents                                                               *)

\* An address typed, a link opened from elsewhere, a reload.
Opens(t, path) ==
    /\ Click
    /\ tab[t].leaving = "no"
    /\ Becomes(t, [tab[t] EXCEPT !.leaving = path])
    /\ UNCHANGED <<storage, foreign, issued, valid>>

\* The new document takes over; requests of the old one are gone.
Load(t) ==
    /\ tab[t].leaving \in Places
    /\ Becomes(t, Document(tab[t].leaving, storage))
    /\ foreign' = foreign \ {t}
    /\ UNCHANGED <<storage, issued, valid>>
    /\ NoBudget

\* The OAuth provider sends the browser back.
ReturnFromProvider(t) ==
    /\ tab[t].leaving = "provider"
    /\ Becomes(t, Document("/auth/callback", storage))
    /\ foreign' = foreign \ {t}
    /\ UNCHANGED <<storage, issued, valid>>
    /\ NoBudget

-----------------------------------------------------------------------------
(* AuthProvider                                                            *)

SignedOut(d) ==
    [d EXCEPT !.token = NoToken, !.user = NoUser, !.leaving = "/login"]

\* The effect reads the token again and asks the API who it belongs to.
VerifyAuth(t) ==
    /\ tab[t].phase = "mounted"
    /\ Becomes(t, IF storage.token = NoToken
                  THEN [tab[t] EXCEPT !.phase = "ready"]
                  ELSE [tab[t] EXCEPT !.phase = "verifying", !.sent = storage.token])
    /\ StoresNothing
    /\ UNCHANGED <<issued, valid>>
    /\ NoBudget

\* Mutant: the answer is only put into the storage.
MeAnsweredStored(t) ==
    /\ tab[t].phase = "verifying"
    /\ tab[t].sent \in valid
    /\ Becomes(t, [tab[t] EXCEPT !.phase = "ready", !.sent = NoToken])
    /\ storage' = [storage EXCEPT !.user = Account(tab[t].sent)]
    /\ UNCHANGED <<foreign, issued, valid>>
    /\ NoBudget

MeAnswered(t) ==
    /\ tab[t].phase = "verifying"
    /\ tab[t].sent \in valid
    /\ LET me == Account(tab[t].sent) IN
         /\ Becomes(t, [tab[t] EXCEPT !.user = me, !.phase = "ready", !.sent = NoToken])
         /\ storage' = [storage EXCEPT !.user = me]
    /\ UNCHANGED <<foreign, issued, valid>>
    /\ NoBudget

\* Mutant: an error only ends the wait.
VerifyFailsMildly(t) == Becomes(t, [tab[t] EXCEPT !.phase = "ready", !.sent = NoToken]) /\ StoresNothing

\* Any error of the request signs out, an expired token or a lost connection.
VerifyFails(t) == Becomes(t, [SignedOut(tab[t]) EXCEPT !.phase = "ready", !.sent = NoToken]) /\ Stores(t, Empty)

MeRefused(t) ==
    /\ tab[t].phase = "verifying"
    /\ tab[t].sent \notin valid
    /\ VerifyFails(t)
    /\ UNCHANGED <<issued, valid>>
    /\ NoBudget

MeLost(t) ==
    /\ Fault
    /\ tab[t].phase = "verifying"
    /\ VerifyFails(t)
    /\ UNCHANGED <<issued, valid>>

\* The button of the layout.
Logout(t) ==
    /\ Click
    /\ Shown(t)
    /\ Becomes(t, SignedOut(tab[t]))
    /\ Stores(t, Empty)
    /\ UNCHANGED <<issued, valid>>

-----------------------------------------------------------------------------
(* Requests of the pages and the interceptor of their answers              *)

\* Every private page polls; a request carries the token that is stored then.
Poll(t) ==
    /\ Shown(t)
    /\ storage.token \notin tab[t].calls
    /\ Cardinality(tab[t].calls) < CallsAtOnce
    /\ Becomes(t, [tab[t] EXCEPT !.calls = @ \union {storage.token}])
    /\ StoresNothing
    /\ UNCHANGED <<issued, valid>>
    /\ NoBudget

Done(t, k) == [tab[t] EXCEPT !.calls = @ \ {k}]

CallAnswered(t) ==
    /\ \E k \in tab[t].calls \intersect valid : Becomes(t, Done(t, k))
    /\ StoresNothing
    /\ UNCHANGED <<issued, valid>>
    /\ NoBudget

\* Mutant: the interceptor clears the storage and leaves the page where it is.
UnauthorizedStays(d) == d

\* What the interceptor does to the document when an answer is a 401.
Unauthorized(d) == IF d.path = "/login" THEN d ELSE [d EXCEPT !.leaving = "/login"]

CallRefused(t) ==
    /\ \E k \in tab[t].calls \ valid : Becomes(t, Unauthorized(Done(t, k)))
    /\ Stores(t, Empty)
    /\ UNCHANGED <<issued, valid>>
    /\ NoBudget

CallLost(t) ==
    /\ Fault
    /\ \E k \in tab[t].calls : Becomes(t, Done(t, k))
    /\ StoresNothing
    /\ UNCHANGED <<issued, valid>>

Expire(k) ==
    /\ Fault
    /\ k \in valid
    /\ valid' = valid \ {k}
    /\ UNCHANGED <<storage, tab, foreign, issued>>

-----------------------------------------------------------------------------
(* Login                                                                   *)

\* The API issues a token for an account, and setAuthData keeps both.
SetAuthData(t, k) ==
    /\ k \notin issued
    /\ issued' = issued \union {k}
    /\ valid' = valid \union {k}
    /\ Stores(t, Session(k))
    /\ Becomes(t, [tab[t] EXCEPT !.token = k, !.user = Account(k), !.attempt = "none",
                                 !.leaving = "/dashboard"])

Submit(t) ==
    /\ Click
    /\ tab[t].path = "/login"
    /\ tab[t].attempt = "none"
    /\ \E mode \in {"login", "register"} :
         Becomes(t, [tab[t] EXCEPT !.error = FALSE, !.attempt = mode])
    /\ UNCHANGED <<storage, foreign, issued, valid>>

LoginAnswered(t) ==
    /\ tab[t].attempt \in {"login", "register"}
    /\ \E k \in Tokens : SetAuthData(t, k)
    /\ NoBudget

AttemptFailed(t) == [tab[t] EXCEPT !.attempt = "none", !.error = TRUE]

\* Wrong credentials are a 401 as well: the interceptor clears the storage.
LoginRefused(t) ==
    /\ tab[t].attempt = "login"
    /\ Becomes(t, AttemptFailed(t))
    /\ Stores(t, Empty)
    /\ UNCHANGED <<issued, valid>>
    /\ NoBudget

\* An address that is taken, an account that is not active, an invalid field: a 400 or
\* a 422, of which the form shows the texts.
FormRefused(t) ==
    /\ tab[t].attempt \in {"login", "register"}
    /\ Becomes(t, AttemptFailed(t))
    /\ StoresNothing
    /\ UNCHANGED <<issued, valid>>
    /\ NoBudget

LoginLost(t) ==
    /\ Fault
    /\ tab[t].attempt \in {"login", "register", "url"}
    /\ Becomes(t, AttemptFailed(t))
    /\ StoresNothing
    /\ UNCHANGED <<issued, valid>>

HandleOAuthLogin(t) ==
    /\ Click
    /\ tab[t].path = "/login"
    /\ tab[t].attempt = "none"
    /\ Becomes(t, [tab[t] EXCEPT !.error = FALSE, !.attempt = "url"])
    /\ UNCHANGED <<storage, foreign, issued, valid>>

\* The form stays disabled while the browser goes to the provider.
OAuthUrlAnswered(t) ==
    /\ tab[t].attempt = "url"
    /\ Becomes(t, [tab[t] EXCEPT !.attempt = "away", !.leaving = "provider"])
    /\ StoresNothing
    /\ UNCHANGED <<issued, valid>>
    /\ NoBudget

-----------------------------------------------------------------------------
(* AuthCallback                                                            *)

\* The address may carry nothing to sign in with.
HandleOAuthCallback(t) ==
    /\ tab[t].attempt = "code"
    /\ \/ Becomes(t, [tab[t] EXCEPT !.attempt = "oauth"])
       \/ Becomes(t, AttemptFailed(t))
    /\ StoresNothing
    /\ UNCHANGED <<issued, valid>>
    /\ NoBudget

OAuthAnswered(t) ==
    /\ tab[t].attempt = "oauth"
    /\ \E k \in Tokens : SetAuthData(t, k)
    /\ NoBudget

\* Mutant: the error is not shown.
OAuthFailsSilently(t) ==
    /\ tab[t].attempt = "oauth"
    /\ Becomes(t, [tab[t] EXCEPT !.attempt = "none"])
    /\ StoresNothing
    /\ UNCHANGED <<issued, valid>>
    /\ NoBudget

\* An unusable code or a lost answer: both are only shown.
OAuthFails(t) ==
    /\ tab[t].attempt = "oauth"
    /\ Becomes(t, AttemptFailed(t))
    /\ StoresNothing
    /\ UNCHANGED <<issued, valid>>
    /\ NoBudget

\* An email in the address that is none is a 422; its detail is a list of objects, which
\* the page cannot render: nothing is left on it.
OAuthInvalid(t) ==
    /\ tab[t].attempt = "oauth" /\ tab[t].phase # "mounted"
    /\ Becomes(t, [tab[t] EXCEPT !.attempt = "blank"])
    /\ StoresNothing
    /\ UNCHANGED <<issued, valid>>
    /\ NoBudget

\* A link inside the application: the document stays.
ReturnToLogin(t) ==
    /\ Click
    /\ tab[t].path = "/auth/callback"
    /\ tab[t].error
    /\ Becomes(t, [tab[t] EXCEPT !.path = "/login", !.error = FALSE])
    /\ UNCHANGED <<storage, foreign, issued, valid>>

-----------------------------------------------------------------------------

Documents(t) ==
    \/ \E path \in Places : Opens(t, path)
    \/ Load(t) \/ ReturnFromProvider(t)
Provider(t) ==
    \/ VerifyAuth(t) \/ MeAnswered(t) \/ MeRefused(t) \/ MeLost(t) \/ Logout(t)
Pages(t) ==
    \/ Poll(t) \/ CallAnswered(t) \/ CallRefused(t) \/ CallLost(t)
LoginPage(t) ==
    \/ Submit(t) \/ LoginAnswered(t) \/ LoginRefused(t)
    \/ FormRefused(t) \/ LoginLost(t) \/ HandleOAuthLogin(t) \/ OAuthUrlAnswered(t)
CallbackPage(t) ==
    \/ HandleOAuthCallback(t) \/ OAuthAnswered(t) \/ OAuthFails(t) \/ OAuthInvalid(t)
    \/ ReturnToLogin(t)

Next ==
    \/ \E t \in Tabs : \/ Documents(t) \/ Provider(t) \/ Pages(t)
                       \/ LoginPage(t) \/ CallbackPage(t)
    \/ \E k \in Tokens : Expire(k)

Spec == Init /\ [][Next]_vars

\* Navigations end, effects run, polls go on, and a request is answered or fails.
Fairness ==
    \A t \in Tabs :
        /\ WF_vars(Load(t))
        /\ WF_vars(VerifyAuth(t))
        /\ WF_vars(MeAnswered(t) \/ MeRefused(t))
        /\ WF_vars(Poll(t))
        /\ WF_vars(CallAnswered(t))
        /\ WF_vars(CallRefused(t))
        /\ WF_vars(LoginRefused(t) \/ FormRefused(t) \/ LoginAnswered(t))
        /\ WF_vars(OAuthUrlAnswered(t))
        /\ WF_vars(HandleOAuthCallback(t))
        /\ WF_vars(OAuthFails(t) \/ OAuthInvalid(t) \/ OAuthAnswered(t))

FairSpec == Spec /\ Fairness

-----------------------------------------------------------------------------
(* Properties                                                              *)

DocumentType ==
    [path : Places, leaving : Places \union {"no", "provider"},
     phase : {"mounted", "verifying", "ready"},
     token : MaybeToken, user : MaybeUser, sent : MaybeToken,
     attempt : {"none", "login", "register", "url", "away", "code", "oauth", "blank"},
     error : BOOLEAN, calls : SUBSET MaybeToken]

TypeOK ==
    /\ storage \in [token : MaybeToken, user : MaybeUser]
    /\ tab \in [Tabs -> DocumentType]
    /\ foreign \subseteq Tabs
    /\ issued \subseteq Tokens
    /\ valid \subseteq issued
    /\ faultsLeft \in 0..FaultBudget
    /\ clicksLeft \in 0..ClickBudget

\* A private page that stays works on the token that is stored, asks for its
\* owner, and once verified shows that account.
OwnTab(t) ==
    LET d == tab[t] IN
    d.path = "/dashboard" /\ d.leaving = "no" =>
        /\ d.token = storage.token
        /\ d.phase = "verifying" => d.sent = d.token
        /\ d.phase = "ready" => d.token # NoToken /\ d.user = Account(d.token)

StoredTokenIsIssued ==
    storage.token # NoToken => storage.token \in issued

SignsInAtLogin == \A t \in Tabs : tab[t].attempt = "login" => tab[t].path = "/login"

\* The types, and what makes AccountIsShown inductive: the stored token was
\* issued, credentials are only sent from the login, and a tab whose storage
\* nobody else wrote agrees with it.
SessionInv ==
    /\ TypeOK
    /\ StoredTokenIsIssued
    /\ SignsInAtLogin
    /\ \A t \in Tabs \ foreign : OwnTab(t)

\* A page that stays and whose storage no other tab has written shows the
\* account whose token its requests carry: the name in the layout is never that
\* of one user over the data of another.
AccountIsShown ==
    \A t \in Tabs \ foreign :
        Shown(t) /\ tab[t].leaving = "no" =>
            /\ storage.token # NoToken
            /\ tab[t].user = Account(storage.token)

\* A page shown over a token that is gone or expired does not stay: a poll is
\* answered with 401 and the page leaves for the login, unless a new session
\* was stored in the meantime.
DeadSessionLeaves ==
    \A t \in Tabs :
        (Shown(t) /\ storage.token \notin valid) ~>
            (~ Shown(t) \/ tab[t].leaving # "no" \/ storage.token \in valid)

\* What a tab comes to rest on: a page with a session, the login form, the error of the
\* callback or, after a list of errors, the blank page, or the site of the provider.
Settled(t) ==
    \/ tab[t].leaving = "provider"
    \/ /\ tab[t].leaving = "no"
       /\ tab[t].phase = "ready"
       /\ tab[t].path = "/dashboard" => tab[t].token # NoToken
       /\ tab[t].path = "/auth/callback" => tab[t].error \/ tab[t].attempt = "blank"

\* Redirects end: when the user does nothing more, no tab keeps a spinner or
\* goes round between the login and the dashboard for ever.
PagesSettle == <>[](\A t \in Tabs : Settled(t))
=============================================================================
