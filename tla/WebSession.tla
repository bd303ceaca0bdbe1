------------------------------ MODULE WebSession ------------------------------
(* The session of the web client: the store of hooks/useUser.tsx and the     *)
(* interceptors of request/index.ts.                                         *)
(*                                                                           *)
(* The token is in localStorage, which all tabs share, and once more in a    *)
(* closure of the store; the profile is in the store and persisted in the    *)
(* sessionStorage of the tab with a time to live that only a reload checks.  *)
(* Every request carries the token localStorage has when it is sent.  A 401  *)
(* or a network error removes token and profile and reloads the page.        *)
EXTENDS Naturals, Sequences, FiniteSets, SequencesExt

CONSTANTS
  Accounts,     \* who can sign in
  None,         \* no token, no user
  MaxLogins,    \* bound on sign-ins of this tab
  MaxFailures,  \* bound on requests that fail
  MaxOthers     \* bound on what other tabs and the clock do

VARIABLES
  localToken,  \* localStorage[TOKEN_KEY], as the account it belongs to
  token,       \* the closure variable of the store
  user,        \* the profile of the store
  loading,     \* a profile is being fetched
  store,       \* sessionStorage[USER_STORE_KEY]
  expired,     \* the time to live of the stored profile has passed
  modal,       \* the login form is open
  calls,       \* sign-in and profile requests in flight, with their account
  logins, failures, others,
  raced        \* another tab changed the token, or a sign-in met a profile

storage == <<localToken, token, user, loading, store, expired>>
budget == <<logins, failures, others>>
session == <<storage, modal, calls, budget, raced>>

(* A request of the session; `form` says that the login form waits for it.   *)
Me(account, form) == [kind |-> "me", account |-> account, form |-> form]
Login(account) == [kind |-> "login", account |-> account, form |-> TRUE]
Fetches(s) == Cardinality({i \in DOMAIN s : s[i].kind = "me"})

(* fetchUser: nothing without a token, or when a profile is there.           *)
MayFetch(tok, who, busy) == tok # None /\ ~(who # None /\ ~busy)

(* The profile the store starts with: none without a token or when too old.  *)
Restored(tok, kept, old) == IF tok = None \/ old THEN None ELSE kept

(* The page is loaded with a token and a stored profile; App fetches the     *)
(* profile if there is a token and no user.                                  *)
Boot(tok, kept, old) ==
  LET who == Restored(tok, kept, old)
      fetch == tok # None /\ who = None
  IN  /\ localToken' = tok
      /\ token' = tok
      /\ store' = who
      /\ user' = who
      /\ loading' = fetch
      /\ modal' = FALSE
      /\ calls' = IF fetch THEN <<Me(tok, FALSE)>> ELSE <<>>

SessionInit ==
  /\ localToken \in Accounts \cup {None}
  /\ store = None
  /\ token = localToken
  /\ user = None
  /\ loading = (localToken # None)
  /\ calls = IF localToken # None THEN <<Me(localToken, FALSE)>> ELSE <<>>
  /\ expired = FALSE
  /\ modal = FALSE
  /\ logins = 0
  /\ failures = 0
  /\ others = 0
  /\ raced = FALSE

------------------------------------------------------------------------------
(* Signing in and out.                                                       *)

(* The form opens from the guest view and covers the page, whatever arrives, *)
(* until the sign-in and the fetch it awaits are done or it is cancelled.    *)
openLoginModal ==
  /\ user = None
  /\ ~modal
  /\ modal' = TRUE
  /\ UNCHANGED <<storage, calls, budget, raced>>

(* Cancelling closes the form; what it sent goes on without it.              *)
cancelLogin ==
  /\ modal
  /\ modal' = FALSE
  /\ calls' = [i \in DOMAIN calls |-> [calls[i] EXCEPT !.form = FALSE]]
  /\ UNCHANGED <<storage, budget, raced>>

LoginSubmit(account) ==
  /\ modal
  /\ \A i \in DOMAIN calls : ~calls[i].form
  /\ logins < MaxLogins
  /\ logins' = logins + 1
  /\ calls' = Append(calls, Login(account))
  /\ UNCHANGED <<storage, modal, failures, others, raced>>

(* Mutant: the token is kept in the closure only.                            *)
MutStoredToken(account) == localToken

(* login: the token is kept, and the profile fetched unless one is there.    *)
StoredToken(account) == account
LoginArrives(i) ==
  /\ calls[i].kind = "login"
  /\ LET fetch == MayFetch(calls[i].account, user, loading)
     IN  /\ token' = calls[i].account
         /\ localToken' = StoredToken(calls[i].account)
         /\ loading' = (loading \/ fetch)
         /\ calls' = RemoveAt(calls, i) \o (IF fetch THEN <<Me(calls[i].account, calls[i].form)>> ELSE <<>>)
         /\ modal' = (modal /\ (fetch \/ ~calls[i].form))
  /\ raced' = (raced \/ user # None \/ Fetches(calls) > 0)
  /\ UNCHANGED <<user, store, expired, budget>>

(* The form reports a refused sign-in and stays open.                        *)
LoginFails(i) ==
  /\ calls[i].kind = "login"
  /\ failures < MaxFailures
  /\ failures' = failures + 1
  /\ calls' = RemoveAt(calls, i)
  /\ UNCHANGED <<storage, modal, logins, others, raced>>

(* The profile of the token the request was sent with.                       *)
MeArrives(i) ==
  /\ calls[i].kind = "me"
  /\ user' = calls[i].account
  /\ store' = calls[i].account
  /\ loading' = FALSE
  /\ expired' = FALSE
  /\ calls' = RemoveAt(calls, i)
  /\ modal' = (modal /\ ~calls[i].form)
  /\ UNCHANGED <<localToken, token, budget, raced>>

(* Mutant: the mark is cleared by a profile only.                            *)
MutLoadingAfterFailure == loading

(* No profile, by an answer or an exception: token and user are given up.    *)
LoadingAfterFailure == FALSE
MeFails(i) ==
  /\ calls[i].kind = "me"
  /\ failures < MaxFailures
  /\ failures' = failures + 1
  /\ user' = None
  /\ store' = None
  /\ localToken' = None
  /\ loading' = LoadingAfterFailure
  /\ calls' = RemoveAt(calls, i)
  /\ modal' = (modal /\ ~calls[i].form)
  /\ UNCHANGED <<token, expired, logins, others, raced>>

logout ==
  /\ user # None
  /\ ~modal
  /\ localToken' = None
  /\ store' = None
  /\ token' = None
  /\ user' = None
  /\ UNCHANGED <<loading, expired, modal, calls, budget, raced>>

(* 401 or a network error on any request: the interceptor clears what is     *)
(* stored and reloads the page.                                              *)
Unauthorized ==
  /\ failures < MaxFailures
  /\ failures' = failures + 1
  /\ Boot(None, None, expired)
  /\ UNCHANGED <<expired, logins, others, raced>>

------------------------------------------------------------------------------
(* The surroundings: other tabs sign in and out, time passes, F5.            *)
Surroundings == others < MaxOthers /\ others' = others + 1

OtherTab ==
  /\ Surroundings
  /\ \E t \in (Accounts \cup {None}) \ {localToken} : localToken' = t
  /\ raced' = TRUE
  /\ UNCHANGED <<token, user, loading, store, expired, modal, calls, logins, failures>>

TimePasses ==
  /\ Surroundings
  /\ store # None /\ ~expired
  /\ expired' = TRUE
  /\ UNCHANGED <<localToken, token, user, loading, store, modal, calls, logins, failures, raced>>

PressReload ==
  /\ Surroundings
  /\ Boot(localToken, store, expired)
  /\ UNCHANGED <<expired, logins, failures, raced>>

(* What happens to the page that is open; PressReload is apart, because it   *)
(* takes the page with it.                                                   *)
SessionNext ==
  \/ openLoginModal \/ cancelLogin
  \/ \E a \in Accounts : LoginSubmit(a)
  \/ \E i \in DOMAIN calls : LoginArrives(i) \/ LoginFails(i) \/ MeArrives(i) \/ MeFails(i)
  \/ logout
  \/ calls # <<>> /\ Unauthorized
  \/ OtherTab
  \/ TimePasses

------------------------------------------------------------------------------
(* Properties.                                                               *)

(* The variables of the session have their types; a form waits for one   *)
(* request at a time, and is open while it waits.                            *)
SessionTypeOK ==
  /\ {localToken, token, user, store} \subseteq Accounts \cup {None}
  /\ loading \in BOOLEAN /\ expired \in BOOLEAN /\ modal \in BOOLEAN
  /\ \A i, j \in DOMAIN calls : calls[i].form /\ calls[j].form => i = j /\ modal

(* The account on the page is the one its requests are made as, through      *)
(* reloads, failures, sign-outs and late profiles; only another tab, or a    *)
(* sign-in that meets a profile request of an older token, separates them.   *)
ActsAsShown == user # None /\ ~raced => localToken = user /\ token = user

(* While the page says it is loading the profile, a request for it is out.   *)
LoadingAwaits == loading /\ ~raced => Fetches(calls) > 0
==============================================================================
