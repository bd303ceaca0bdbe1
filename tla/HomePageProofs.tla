---------------------------- MODULE HomePageProofs ----------------------------
(* Proofs about the session and the home page, for any accounts, services    *)
(* and bounds: the page acts as the account it shows, its marks of loading   *)
(* wait for requests, and the list it comes to rest with is the server's.    *)
EXTENDS HomePage, TLAPS, SequenceTheorems, FiniteSetTheorems

Call == [kind : {"me", "login"}, account : Accounts \cup {None}, form : BOOLEAN]
IsMe(s, i) == s[i].kind = "me"

(* The variables of the session that the invariant speaks of have types.     *)
SessionTypes ==
  /\ localToken \in Accounts \cup {None} /\ token \in Accounts \cup {None}
  /\ user \in Accounts \cup {None} /\ store \in Accounts \cup {None}
  /\ loading \in BOOLEAN /\ raced \in BOOLEAN /\ modal \in BOOLEAN
  /\ calls \in Seq(Call)

(* Until a race, the stored profile is the one shown, and it is the token's; *)
(* a profile is asked for only while there is none, once, for the token that *)
(* is stored; and loading means that it is asked for.                        *)
Owned == store = user /\ (user # None => localToken = user /\ token = user)
Asked == \A i \in DOMAIN calls : IsMe(calls, i) =>
           /\ user = None
           /\ calls[i].account = localToken /\ calls[i].account = token
Once == \A i, j \in DOMAIN calls : IsMe(calls, i) /\ IsMe(calls, j) => i = j
Awaited == loading => \E i \in DOMAIN calls : IsMe(calls, i)
SessionInv == SessionTypes /\ (~raced => Owned /\ Asked /\ Once /\ Awaited)

------------------------------------------------------------------------------
(* Removing an element keeps the others and their order.                     *)
LEMMA RemoveAtFacts ==
  ASSUME NEW S, NEW s \in Seq(S), NEW i \in DOMAIN s
  PROVE  /\ RemoveAt(s, i) \in Seq(S)
         /\ Len(RemoveAt(s, i)) = Len(s) - 1
         /\ \A j \in 1 .. Len(s) - 1 :
              RemoveAt(s, i)[j] = IF j < i THEN s[j] ELSE s[j + 1]
<1> DEFINE a == SubSeq(s, 1, i - 1)
           b == SubSeq(s, i + 1, Len(s))
<1>0. i \in 1 .. Len(s) /\ Len(s) \in Nat
  BY LenProperties
<1>1. a \in Seq(S) /\ Len(a) = i - 1 /\ \A j \in 1 .. i - 1 : a[j] = s[j]
  BY <1>0
<1>2. b \in Seq(S) /\ Len(b) = Len(s) - i /\ \A j \in 1 .. Len(s) - i : b[j] = s[i + j]
  BY <1>0
<1> HIDE DEF a, b
<1>3. a \o b \in Seq(S) /\ Len(a \o b) = Len(s) - 1
  BY <1>0, <1>1, <1>2
<1>4. ASSUME NEW j \in 1 .. Len(s) - 1
      PROVE  (a \o b)[j] = IF j < i THEN s[j] ELSE s[j + 1]
  <2>1. CASE j < i
    BY <1>0, <1>1, <1>2, <2>1
  <2>2. CASE ~(j < i)
    <3>1. (a \o b)[j] = b[j - (i - 1)]
      BY <1>0, <1>1, <1>2, <2>2, SMTT(30)
    <3>2. b[j - (i - 1)] = s[i + (j - (i - 1))]
      BY <1>0, <1>2, <2>2
    <3> QED BY <1>0, <2>2, <3>1, <3>2
  <2> QED BY <2>1, <2>2
<1> QED
  BY <1>3, <1>4 DEF RemoveAt, a, b

(* Fetches counts the profile requests: it is positive if there is one.      *)
LEMMA FetchesPositive ==
  ASSUME NEW s \in Seq(Call)
  PROVE  Fetches(s) > 0 <=> \E i \in DOMAIN s : IsMe(s, i)
<1> DEFINE M == {i \in DOMAIN s : s[i].kind = "me"}
<1>1. IsFiniteSet(1 .. Len(s))
  BY FS_Interval, LenProperties
<1>2. IsFiniteSet(M) /\ Cardinality(M) \in Nat
  BY <1>1, FS_Subset, FS_CardinalityType, M \subseteq 1 .. Len(s)
<1>3. Cardinality(M) = 0 <=> M = {}
  BY <1>2, FS_EmptySet
<1> QED
  BY <1>2, <1>3 DEF Fetches, IsMe

(* One profile request taken away leaves none, a sign-in leaves all.         *)
LEMMA MeRemoved ==
  ASSUME NEW s \in Seq(Call), NEW i \in DOMAIN s, IsMe(s, i),
         \A j, k \in DOMAIN s : IsMe(s, j) /\ IsMe(s, k) => j = k
  PROVE  \A j \in DOMAIN RemoveAt(s, i) : ~IsMe(RemoveAt(s, i), j)
<1>1. SUFFICES ASSUME NEW j \in DOMAIN RemoveAt(s, i), IsMe(RemoveAt(s, i), j)
               PROVE  FALSE
  OBVIOUS
<1>2. j \in 1 .. Len(s) - 1 /\ RemoveAt(s, i)[j] = IF j < i THEN s[j] ELSE s[j + 1]
  <2>1. RemoveAt(s, i) \in Seq(Call) /\ Len(RemoveAt(s, i)) = Len(s) - 1
    BY RemoveAtFacts
  <2>2. j \in 1 .. Len(s) - 1
    BY <2>1
  <2> QED BY <2>2, RemoveAtFacts
<1>3. CASE j < i
  BY <1>1, <1>2, <1>3 DEF IsMe
<1>4. CASE ~(j < i)
  <2>1. j + 1 \in DOMAIN s /\ IsMe(s, j + 1)
    BY <1>1, <1>2, <1>4 DEF IsMe
  <2>2. j + 1 = i
    BY <2>1
  <2> QED BY <1>2, <1>4, <2>2
<1> QED BY <1>3, <1>4

(* What is left comes from the sequence, and all but the removed is left.    *)
LEMMA RemovedKeeps ==
  ASSUME NEW S, NEW s \in Seq(S), NEW i \in DOMAIN s
  PROVE  /\ \A j \in DOMAIN RemoveAt(s, i) : \E k \in DOMAIN s : RemoveAt(s, i)[j] = s[k]
         /\ \A k \in DOMAIN s : k # i => \E j \in DOMAIN RemoveAt(s, i) : RemoveAt(s, i)[j] = s[k]
<1> DEFINE r == RemoveAt(s, i)
<1>0. i \in 1 .. Len(s) /\ Len(s) \in Nat
  BY LenProperties
<1>1. r \in Seq(S) /\ Len(r) = Len(s) - 1
      /\ \A j \in 1 .. Len(s) - 1 : r[j] = IF j < i THEN s[j] ELSE s[j + 1]
  BY RemoveAtFacts
<1> HIDE DEF r
<1>2. DOMAIN r = 1 .. Len(s) - 1
  BY <1>1
<1>3. ASSUME NEW j \in DOMAIN r PROVE \E k \in DOMAIN s : r[j] = s[k]
  <2>1. j \in DOMAIN s /\ j + 1 \in DOMAIN s /\ (r[j] = s[j] \/ r[j] = s[j + 1])
    BY <1>0, <1>1, <1>2
  <2> QED BY <2>1
<1>4. ASSUME NEW k \in DOMAIN s, k # i PROVE \E j \in DOMAIN r : r[j] = s[k]
  <2>1. CASE k < i
    <3>1. k \in DOMAIN r /\ r[k] = s[k]
      BY <1>0, <1>1, <1>2, <2>1
    <3> QED BY <3>1
  <2>2. CASE ~(k < i)
    <3>1. k - 1 \in DOMAIN r /\ r[k - 1] = s[(k - 1) + 1]
      BY <1>0, <1>1, <1>2, <1>4, <2>2
    <3>2. (k - 1) + 1 = k
      BY <1>0
    <3> QED BY <3>1, <3>2
  <2> QED BY <2>1, <2>2
<1> QED
  BY <1>3, <1>4 DEF r

(* Removing a request does not make a second profile request of one.         *)
LEMMA RemovedOnce ==
  ASSUME NEW s \in Seq(Call), NEW i \in DOMAIN s,
         \A j, k \in DOMAIN s : IsMe(s, j) /\ IsMe(s, k) => j = k
  PROVE  \A j, k \in DOMAIN RemoveAt(s, i) :
           IsMe(RemoveAt(s, i), j) /\ IsMe(RemoveAt(s, i), k) => j = k
<1> DEFINE r == RemoveAt(s, i)
           f(j) == IF j < i THEN j ELSE j + 1
<1>0. i \in 1 .. Len(s) /\ Len(s) \in Nat
  BY LenProperties
<1>1. r \in Seq(Call) /\ Len(r) = Len(s) - 1
      /\ \A j \in 1 .. Len(s) - 1 : r[j] = IF j < i THEN s[j] ELSE s[j + 1]
  BY RemoveAtFacts
<1> HIDE DEF r
<1>2. DOMAIN r = 1 .. Len(s) - 1
  BY <1>1
<1>3. SUFFICES ASSUME NEW j \in DOMAIN r, NEW k \in DOMAIN r, IsMe(r, j), IsMe(r, k)
               PROVE  j = k
  BY DEF r
<1>4. f(j) \in DOMAIN s /\ f(k) \in DOMAIN s /\ r[j] = s[f(j)] /\ r[k] = s[f(k)]
  BY <1>0, <1>1, <1>2
<1>5. f(j) = f(k)
  BY <1>3, <1>4 DEF IsMe
<1> QED
  BY <1>0, <1>2, <1>5

------------------------------------------------------------------------------
(* The session keeps its invariant, action by action.                        *)

(* A profile request is a request for the account of its token.              *)
LEMMA MeFacts ==
  ASSUME NEW a \in Accounts \cup {None}, NEW f \in BOOLEAN
  PROVE  Me(a, f) \in Call /\ Me(a, f).kind = "me" /\ Me(a, f).account = a
  BY DEF Me, Call

(* A sequence of one element.                                                *)
LEMMA Single ==
  ASSUME NEW S, NEW x \in S
  PROVE  /\ <<x>> \in Seq(S) /\ 1 \in DOMAIN <<x>> /\ <<x>>[1] = x
         /\ \A j \in DOMAIN <<x>> : j = 1
  OBVIOUS

(* At the beginning there is at most the profile request of the page.        *)
LEMMA SessionInitially == SessionInit => SessionInv
<1> SUFFICES ASSUME SessionInit PROVE SessionInv
  OBVIOUS
<1>0. localToken \in Accounts \cup {None} /\ Me(localToken, FALSE) \in Call
      /\ Me(localToken, FALSE).account = localToken
  BY MeFacts DEF SessionInit
<1>1. calls \in Seq(Call) /\ \A j \in DOMAIN calls : j = 1 /\ calls[j] = Me(localToken, FALSE)
  <2>1. CASE localToken = None
    BY <2>1 DEF SessionInit
  <2>2. CASE localToken # None
    <3>1. calls = <<Me(localToken, FALSE)>>
      BY <2>2 DEF SessionInit
    <3> QED BY <1>0, <3>1, Single
  <2> QED BY <2>1, <2>2
<1>2. SessionTypes
  BY <1>0, <1>1 DEF SessionInit, SessionTypes
<1>3. Owned
  BY DEF SessionInit, Owned
<1>4. Asked /\ Once
  BY <1>0, <1>1 DEF SessionInit, Asked, Once
<1>5. Awaited
  <2>1. CASE localToken = None
    BY <2>1 DEF SessionInit, Awaited
  <2>2. CASE localToken # None
    <3>1. calls = <<Me(localToken, FALSE)>>
      BY <2>2 DEF SessionInit
    <3>2. 1 \in DOMAIN calls /\ calls[1].kind = "me"
      BY <3>1 DEF Me
    <3> QED BY <3>2 DEF Awaited, IsMe
  <2> QED BY <2>1, <2>2
<1> QED BY <1>2, <1>3, <1>4, <1>5 DEF SessionInv

(* A page that is loaded starts from what is stored.                         *)
LEMMA BootKeeps ==
  ASSUME NEW tok \in Accounts \cup {None}, NEW kept \in Accounts \cup {None}, NEW old,
         Boot(tok, kept, old), ~raced => kept = None \/ kept = tok,
         raced' = raced, raced \in BOOLEAN
  PROVE  SessionInv'
<1> DEFINE who == Restored(tok, kept, old)
<1>1. who \in Accounts \cup {None} /\ (tok = None => who = None)
      /\ (~raced => who = None \/ who = tok)
  BY DEF Restored
<1>2. /\ localToken' = tok /\ token' = tok /\ store' = who /\ user' = who
      /\ loading' = (tok # None /\ who = None) /\ modal' = FALSE
      /\ calls' = IF tok # None /\ who = None THEN <<Me(tok, FALSE)>> ELSE <<>>
  BY DEF Boot
<1> HIDE DEF who
<1>3. Me(tok, FALSE) \in Call /\ Me(tok, FALSE).kind = "me" /\ Me(tok, FALSE).account = tok
  BY MeFacts
<1>4. CASE tok # None /\ who = None
  <2>1. calls' = <<Me(tok, FALSE)>>
    BY <1>2, <1>4
  <2>2. calls' \in Seq(Call) /\ 1 \in DOMAIN calls' /\ calls'[1] = Me(tok, FALSE)
        /\ \A j \in DOMAIN calls' : j = 1
    BY <1>3, <2>1, Single
  <2>3. SessionTypes'
    BY <1>1, <1>2, <2>2 DEF SessionTypes
  <2>4. Owned' /\ Asked' /\ Once' /\ Awaited'
    BY <1>2, <1>3, <1>4, <2>2 DEF Owned, Asked, Once, Awaited, IsMe
  <2> QED BY <2>3, <2>4 DEF SessionInv
<1>5. CASE ~(tok # None /\ who = None)
  <2>1. calls' = <<>>
    BY <1>2, <1>5
  <2>2. calls' \in Seq(Call) /\ DOMAIN calls' = {}
    BY <2>1
  <2>3. SessionTypes'
    BY <1>1, <1>2, <2>2 DEF SessionTypes
  <2>4. Asked' /\ Once' /\ Awaited'
    BY <1>2, <1>5, <2>2 DEF Asked, Once, Awaited
  <2>5. ~raced => Owned'
    BY <1>1, <1>2 DEF Owned
  <2> QED BY <2>3, <2>4, <2>5 DEF SessionInv
<1> QED BY <1>4, <1>5

(* A sign-in that no profile request meets asks for its own profile.         *)
LEMMA LoginKeeps ==
  ASSUME SessionInv, NEW i \in DOMAIN calls, LoginArrives(i)
  PROVE  SessionInv'
<1> DEFINE a == calls[i].account
           fetch == MayFetch(a, user, loading)
           r == RemoveAt(calls, i)
<1>1. /\ token' = a /\ localToken' = a /\ user' = user /\ store' = store
      /\ loading' = (loading \/ fetch)
      /\ modal' = (modal /\ (fetch \/ ~calls[i].form))
      /\ calls' = r \o (IF fetch THEN <<Me(a, calls[i].form)>> ELSE <<>>)
      /\ raced' = (raced \/ user # None \/ Fetches(calls) > 0)
  BY DEF LoginArrives, StoredToken
<1>2. calls \in Seq(Call) /\ a \in Accounts \cup {None} /\ calls[i].form \in BOOLEAN
  <2>1. calls \in Seq(Call)
    BY DEF SessionInv, SessionTypes
  <2>2. calls[i] \in Call
    BY <2>1
  <2> QED BY <2>1, <2>2 DEF Call
<1>3. r \in Seq(Call)
  BY <1>2, RemoveAtFacts
<1>4. fetch \in BOOLEAN
  BY DEF MayFetch
<1>5. Me(a, calls[i].form) \in Call
  BY <1>2, MeFacts
<1>6. SessionTypes'
  BY <1>1, <1>2, <1>3, <1>4, <1>5 DEF SessionInv, SessionTypes
<1>7. ASSUME ~raced' PROVE (Owned /\ Asked /\ Once /\ Awaited)'
  <2>1. ~raced /\ user = None /\ ~(Fetches(calls) > 0)
    BY <1>1, <1>7
  <2>2. \A j \in DOMAIN calls : ~IsMe(calls, j)
    BY <1>2, <2>1, FetchesPositive
  <2>3. \A j \in DOMAIN r : ~IsMe(r, j)
    BY <1>2, <2>2, RemovedKeeps DEF IsMe
  <2>4. ~loading /\ store = None
    BY <2>1, <2>2 DEF SessionInv, Owned, Awaited
  <2> HIDE DEF r, a, fetch
  <2>5. CASE fetch
    <3>1. calls' = r \o <<Me(a, calls[i].form)>>
      BY <1>1, <2>5
    <3>2. Len(r) \in Nat /\ DOMAIN calls' = 1 .. Len(r) + 1
          /\ calls'[Len(r) + 1] = Me(a, calls[i].form)
          /\ \A j \in 1 .. Len(r) : calls'[j] = r[j]
      BY <1>3, <1>5, <3>1
    <3>3. \A j \in DOMAIN calls' : calls'[j].kind = "me" => j = Len(r) + 1
      BY <1>3, <2>3, <3>2 DEF IsMe
    <3>4. Me(a, calls[i].form).kind = "me" /\ Me(a, calls[i].form).account = a
      BY DEF Me
    <3> QED
      BY <1>1, <2>1, <2>4, <3>2, <3>3, <3>4 DEF Owned, Asked, Once, Awaited, IsMe
  <2>6. CASE ~fetch
    <3>1. calls' = r
      BY <1>1, <1>3, <2>6
    <3> QED
      BY <1>1, <2>1, <2>3, <2>4, <2>6, <3>1 DEF Owned, Asked, Once, Awaited, IsMe
  <2> QED BY <2>5, <2>6
<1> QED
  BY <1>6, <1>7 DEF SessionInv

(* A profile arrives or fails: no other request for one is left.             *)
LEMMA MeKeeps ==
  ASSUME SessionInv, NEW i \in DOMAIN calls, MeArrives(i) \/ MeFails(i)
  PROVE  SessionInv'
<1> DEFINE r == RemoveAt(calls, i)
<1>1. calls \in Seq(Call) /\ IsMe(calls, i) /\ calls' = r /\ raced' = raced
  BY DEF SessionInv, SessionTypes, MeArrives, MeFails, IsMe
<1>2. r \in Seq(Call) /\ calls[i] \in Call /\ raced \in BOOLEAN
  BY <1>1, RemoveAtFacts DEF SessionInv, SessionTypes
<1>3. calls[i].account \in Accounts \cup {None} /\ calls[i].form \in BOOLEAN
  BY <1>2 DEF Call
<1>4. ~raced => \A j \in DOMAIN r : ~IsMe(r, j)
  BY <1>1, MeRemoved DEF SessionInv, Once
<1>5. ~raced => calls[i].account = localToken /\ calls[i].account = token
  BY <1>1 DEF SessionInv, Asked
<1>6. SessionTypes'
  BY <1>1, <1>2, <1>3 DEF SessionInv, SessionTypes, MeArrives, MeFails, LoadingAfterFailure
<1>7. loading' = FALSE /\ store' = user'
  BY DEF MeArrives, MeFails, LoadingAfterFailure
<1>8. ~raced => (user' # None => localToken' = user' /\ token' = user')
  BY <1>5 DEF MeArrives, MeFails
<1> HIDE DEF r
<1>9. ~raced => Owned' /\ Asked' /\ Once' /\ Awaited'
  BY <1>1, <1>4, <1>7, <1>8 DEF Owned, Asked, Once, Awaited, IsMe
<1> QED
  BY <1>1, <1>6, <1>9 DEF SessionInv

(* What leaves tokens, user and marks alone and neither adds nor removes a   *)
(* profile request.                                                          *)
LEMMA OthersKeep ==
  ASSUME SessionInv,
         UNCHANGED <<localToken, token, user, loading, store, raced>>,
         modal' \in BOOLEAN, calls' \in Seq(Call),
         \A j \in DOMAIN calls' : IsMe(calls', j) =>
           \E k \in DOMAIN calls : IsMe(calls, k) /\ calls'[j].account = calls[k].account,
         Once => Once',
         \A k \in DOMAIN calls : IsMe(calls, k) => \E j \in DOMAIN calls' : IsMe(calls', j)
  PROVE  SessionInv'
<1>1. SessionTypes'
  BY DEF SessionInv, SessionTypes
<1>2. ASSUME ~raced PROVE Owned' /\ Asked' /\ Once' /\ Awaited'
  <2>1. Owned /\ Asked /\ Once /\ Awaited
    BY <1>2 DEF SessionInv
  <2>2. Owned'
    BY <2>1 DEF Owned
  <2>3. Asked'
    BY <2>1 DEF Asked
  <2>4. Awaited'
    BY <2>1 DEF Awaited
  <2> QED BY <2>1, <2>2, <2>3, <2>4
<1> QED BY <1>1, <1>2 DEF SessionInv

(* A reload restores a profile only for the token that it belongs to.        *)
LEMMA ReloadKeeps == ASSUME SessionInv, PressReload PROVE SessionInv'
<1>1. Boot(localToken, store, expired) /\ raced' = raced /\ raced \in BOOLEAN
  BY DEF PressReload, SessionInv, SessionTypes
<1>2. localToken \in Accounts \cup {None} /\ store \in Accounts \cup {None}
      /\ (~raced => store = None \/ store = localToken)
  BY DEF SessionInv, SessionTypes, Owned
<1> QED BY <1>1, <1>2, BootKeeps

(* Every step of the session keeps the invariant.                            *)
LEMMA SessionStep == SessionInv /\ SessionNext => SessionInv'
<1> SUFFICES ASSUME SessionInv, SessionNext PROVE SessionInv'
  OBVIOUS
<1>0. calls \in Seq(Call) /\ raced \in BOOLEAN /\ modal \in BOOLEAN /\ SessionTypes
  BY DEF SessionInv, SessionTypes
<1>1. CASE openLoginModal
  <2>1. UNCHANGED <<localToken, token, user, loading, store, raced, calls>> /\ modal' = TRUE
    BY <1>1 DEF openLoginModal, storage
  <2> QED BY <1>0, <2>1, OthersKeep DEF Once, IsMe
<1>2. CASE cancelLogin
  <2>1. /\ UNCHANGED <<localToken, token, user, loading, store, raced>> /\ modal' = FALSE
        /\ calls' = [i \in DOMAIN calls |-> [calls[i] EXCEPT !.form = FALSE]]
    BY <1>2 DEF cancelLogin, storage
  <2>2. \A c \in Call : [c EXCEPT !.form = FALSE] \in Call
        /\ [c EXCEPT !.form = FALSE].kind = c.kind /\ [c EXCEPT !.form = FALSE].account = c.account
    BY DEF Call
  <2>3. calls' \in Seq(Call) /\ DOMAIN calls' = DOMAIN calls
    BY <1>0, <2>1, <2>2
  <2>4. \A i \in DOMAIN calls : calls'[i].kind = calls[i].kind /\ calls'[i].account = calls[i].account
    <3>1. TAKE i \in DOMAIN calls
    <3>2. calls[i] \in Call /\ calls'[i] = [calls[i] EXCEPT !.form = FALSE]
      BY <1>0, <2>1
    <3> QED BY <2>2, <3>2
  <2> QED BY <2>1, <2>3, <2>4, OthersKeep, ZenonT(60) DEF Once, IsMe
<1>3. ASSUME NEW a \in Accounts, LoginSubmit(a) PROVE SessionInv'
  <2>1. /\ UNCHANGED <<localToken, token, user, loading, store, raced, modal>>
        /\ calls' = Append(calls, Login(a))
    BY <1>3 DEF LoginSubmit, storage
  <2>2. Login(a) \in Call /\ Login(a).kind # "me"
    BY DEF Login, Call
  <2>3. calls' \in Seq(Call) /\ Len(calls) \in Nat /\ DOMAIN calls' = 1 .. Len(calls) + 1
        /\ DOMAIN calls = 1 .. Len(calls)
        /\ calls'[Len(calls) + 1] = Login(a) /\ \A j \in 1 .. Len(calls) : calls'[j] = calls[j]
    BY <1>0, <2>1, <2>2
  <2>4. \A j \in DOMAIN calls' : IsMe(calls', j) => j \in DOMAIN calls /\ calls'[j] = calls[j]
    BY <2>2, <2>3 DEF IsMe
  <2>5. \A j \in DOMAIN calls : j \in DOMAIN calls' /\ calls'[j] = calls[j]
    BY <2>3
  <2>6. Once => Once'
    BY <2>4 DEF Once, IsMe
  <2> QED BY <1>0, <2>1, <2>3, <2>4, <2>5, <2>6, OthersKeep DEF IsMe
<1>4. ASSUME NEW i \in DOMAIN calls, LoginArrives(i) PROVE SessionInv'
  BY <1>4, LoginKeeps
<1>5. ASSUME NEW i \in DOMAIN calls, LoginFails(i) PROVE SessionInv'
  <2>1. /\ UNCHANGED <<localToken, token, user, loading, store, raced, modal>>
        /\ calls' = RemoveAt(calls, i) /\ ~IsMe(calls, i)
    BY <1>5 DEF LoginFails, storage, IsMe
  <2>2. calls' \in Seq(Call)
    BY <1>0, <2>1, RemoveAtFacts
  <2>3. /\ \A j \in DOMAIN calls' : \E k \in DOMAIN calls : calls'[j] = calls[k]
        /\ \A k \in DOMAIN calls : k # i => \E j \in DOMAIN calls' : calls'[j] = calls[k]
    BY <1>0, <2>1, RemovedKeeps
  <2>4. Once => Once'
    BY <1>0, <2>1, RemovedOnce DEF Once, IsMe
  <2>5. \A j \in DOMAIN calls' : IsMe(calls', j) =>
          \E k \in DOMAIN calls : IsMe(calls, k) /\ calls'[j].account = calls[k].account
    BY <2>3 DEF IsMe
  <2>6. \A k \in DOMAIN calls : IsMe(calls, k) => \E j \in DOMAIN calls' : IsMe(calls', j)
    BY <2>1, <2>3 DEF IsMe
  <2> QED BY <1>0, <2>1, <2>2, <2>4, <2>5, <2>6, OthersKeep
<1>6. ASSUME NEW i \in DOMAIN calls, MeArrives(i) \/ MeFails(i) PROVE SessionInv'
  BY <1>6, MeKeeps
<1>7. CASE logout
  <2>1. UNCHANGED <<loading, calls, modal, raced>> /\ localToken' = None /\ token' = None
        /\ user' = None /\ store' = None /\ user # None
    BY <1>7 DEF logout
  <2>2. SessionTypes'
    BY <1>0, <2>1 DEF SessionTypes
  <2>3. ASSUME ~raced PROVE Owned' /\ Asked' /\ Once' /\ Awaited'
    <3>1. \A j \in DOMAIN calls : ~IsMe(calls, j)
      BY <2>1, <2>3 DEF SessionInv, Asked
    <3>2. Awaited
      BY <2>3 DEF SessionInv
    <3> QED BY <2>1, <3>1, <3>2 DEF Owned, Asked, Once, Awaited, IsMe
  <2> QED BY <2>1, <2>2, <2>3 DEF SessionInv
<1>8. CASE Unauthorized
  BY <1>0, <1>8, BootKeeps DEF Unauthorized
<1>9. CASE OtherTab
  <2>1. raced' = TRUE /\ localToken' \in Accounts \cup {None}
        /\ UNCHANGED <<token, user, loading, store, modal, calls>>
    BY <1>9 DEF OtherTab
  <2> QED BY <1>0, <2>1 DEF SessionInv, SessionTypes
<1>10. CASE TimePasses
  <2>1. UNCHANGED <<localToken, token, user, loading, store, raced, modal, calls>>
    BY <1>10 DEF TimePasses
  <2> QED BY <1>0, <2>1, OthersKeep DEF Once, IsMe
<1> QED
  BY <1>1, <1>2, <1>3, <1>4, <1>5, <1>6, <1>7, <1>8, <1>9, <1>10 DEF SessionNext

------------------------------------------------------------------------------
(* The steps of the list leave the session alone.                            *)
LEMMA ListSteps ==
  ASSUME Next \/ UNCHANGED vars
  PROVE  \/ SessionNext \/ PressReload \/ Unauthorized
         \/ UNCHANGED <<storage, modal, calls, raced>>
<1>1. CASE UNCHANGED vars
  BY <1>1 DEF vars, session
<1>2. CASE SelectTab \/ SelectHis \/ handlePageChange \/ handleDeleteOrRestore \/ handleCreateService
  BY <1>2 DEF SelectTab, SelectHis, handlePageChange, handleDeleteOrRestore,
              handleCreateService, Click, session
<1>3. ASSUME NEW i \in DOMAIN asks, Serve(i) \/ Throw(i) \/ FetchArrives(i) \/ ChangeArrives(i)
      PROVE  UNCHANGED <<storage, modal, calls, raced>>
  BY <1>3 DEF Serve, Throw, FetchArrives, ChangeArrives, session
<1>4. CASE ServeOrphan
  BY <1>4 DEF ServeOrphan, session
<1> QED BY <1>1, <1>2, <1>3, <1>4 DEF Next, ListUnauthorized

(* SessionInv is an invariant of the home page.                              *)
LEMMA SessionInductive == Spec => []SessionInv
<1>1. Init => SessionInv
  BY SessionInitially DEF Init
<1>2. SessionInv /\ [Next]_vars => SessionInv'
  <2> SUFFICES ASSUME SessionInv, [Next]_vars PROVE SessionInv'
    OBVIOUS
  <2>0. raced \in BOOLEAN /\ modal \in BOOLEAN /\ calls \in Seq(Call)
    BY DEF SessionInv, SessionTypes
  <2>1. CASE SessionNext
    BY <2>1, SessionStep
  <2>2. CASE Unauthorized
    BY <2>0, <2>2, BootKeeps DEF Unauthorized
  <2>3. CASE UNCHANGED <<storage, modal, calls, raced>>
    <3>1. UNCHANGED <<localToken, token, user, loading, store, raced, modal, calls>>
      BY <2>3 DEF storage
    <3> QED BY <2>0, <3>1, OthersKeep DEF Once, IsMe
  <2>4. CASE PressReload
    BY <2>4, ReloadKeeps
  <2> QED BY <2>1, <2>2, <2>3, <2>4, ListSteps
<1> QED BY <1>1, <1>2, PTL DEF Spec

(* The account on the page is the one its requests are made as, whatever     *)
(* arrives late, fails or is reloaded, for any number of accounts, sign-ins  *)
(* and failures; only another tab, or a sign-in that meets a profile request *)
(* of an older token, separates them (useUser.tsx).                          *)
THEOREM ActsAsShownAlways == Spec => []ActsAsShown
<1>1. SessionInv => ActsAsShown
  BY DEF SessionInv, Owned, ActsAsShown
<1> QED BY <1>1, SessionInductive, PTL

(* While the page says that it loads the profile, a request for it is out:   *)
(* fetchUser clears the mark on every way out.                               *)
THEOREM LoadingAwaitsAlways == Spec => []LoadingAwaits
<1>1. SessionInv => LoadingAwaits
  <2> SUFFICES ASSUME SessionInv, loading, ~raced PROVE Fetches(calls) > 0
    BY DEF LoadingAwaits
  <2>1. calls \in Seq(Call) /\ \E i \in DOMAIN calls : IsMe(calls, i)
    BY DEF SessionInv, SessionTypes, Awaited
  <2> QED BY <2>1, FetchesPositive
<1> QED BY <1>1, SessionInductive, PTL

------------------------------------------------------------------------------
(* The type invariant: the session.                                          *)

(* Where an element was before one was removed.                              *)
Skip(i, j) == IF j < i THEN j ELSE j + 1

LEMMA RemovedIndex ==
  ASSUME NEW S, NEW s \in Seq(S), NEW i \in DOMAIN s
  PROVE  /\ \A j \in DOMAIN RemoveAt(s, i) :
              Skip(i, j) \in DOMAIN s /\ Skip(i, j) # i /\ RemoveAt(s, i)[j] = s[Skip(i, j)]
         /\ \A j, k \in DOMAIN RemoveAt(s, i) : Skip(i, j) = Skip(i, k) => j = k
<1> DEFINE r == RemoveAt(s, i)
<1>0. i \in 1 .. Len(s) /\ Len(s) \in Nat /\ DOMAIN s = 1 .. Len(s)
  BY LenProperties
<1>1. r \in Seq(S) /\ Len(r) = Len(s) - 1
      /\ \A j \in 1 .. Len(s) - 1 : r[j] = IF j < i THEN s[j] ELSE s[j + 1]
  BY RemoveAtFacts
<1> HIDE DEF r
<1>2. DOMAIN r = 1 .. Len(s) - 1
  BY <1>1
<1>3. ASSUME NEW j \in DOMAIN r
      PROVE  Skip(i, j) \in DOMAIN s /\ Skip(i, j) # i /\ r[j] = s[Skip(i, j)]
  BY <1>0, <1>1, <1>2 DEF Skip
<1>4. ASSUME NEW j \in DOMAIN r, NEW k \in DOMAIN r, Skip(i, j) = Skip(i, k) PROVE j = k
  BY <1>0, <1>2, <1>4 DEF Skip
<1> QED BY <1>3, <1>4 DEF r

(* The form waits for one request, and is open while it waits.               *)
Forms(s, open) == \A i, j \in DOMAIN s : s[i].form /\ s[j].form => i = j /\ open
FormInv == expired \in BOOLEAN /\ Forms(calls, modal)

(* A request taken away leaves the form with its own, or with none.          *)
LEMMA RemovedForms ==
  ASSUME NEW s \in Seq(Call), NEW i \in DOMAIN s, NEW open, Forms(s, open)
  PROVE  /\ Forms(RemoveAt(s, i), open)
         /\ s[i].form => \A j \in DOMAIN RemoveAt(s, i) : ~RemoveAt(s, i)[j].form
<1> DEFINE r == RemoveAt(s, i)
<1>1. /\ \A j \in DOMAIN r : Skip(i, j) \in DOMAIN s /\ Skip(i, j) # i /\ r[j] = s[Skip(i, j)]
      /\ \A j, k \in DOMAIN r : Skip(i, j) = Skip(i, k) => j = k
  BY RemovedIndex
<1> HIDE DEF r
<1>2. Forms(r, open)
  BY <1>1 DEF Forms
<1>3. ASSUME s[i].form, NEW j \in DOMAIN r PROVE ~r[j].form
  BY <1>1, <1>3 DEF Forms
<1> QED BY <1>2, <1>3 DEF r

LEMMA BootForms ==
  ASSUME NEW tok, NEW kept, NEW old, Boot(tok, kept, old), expired' = expired, FormInv
  PROVE  FormInv'
<1>1. calls' = <<>> \/ calls' = <<Me(tok, FALSE)>>
  BY DEF Boot
<1>2. \A i \in DOMAIN calls' : calls'[i].form = FALSE
  BY <1>1 DEF Me
<1> QED BY <1>2 DEF FormInv, Forms

LEMMA FormsStep ==
  ASSUME SessionInv, FormInv, SessionNext
  PROVE  FormInv'
<1>0. calls \in Seq(Call) /\ modal \in BOOLEAN /\ Forms(calls, modal) /\ expired \in BOOLEAN
  BY DEF SessionInv, SessionTypes, FormInv
<1>a. \A i \in DOMAIN calls : calls[i] \in Call
  BY <1>0
<1>b. \A c \in Call : c.form \in BOOLEAN /\ [c EXCEPT !.form = FALSE].form = FALSE
  BY DEF Call
<1>1. ASSUME UNCHANGED calls, modal' = modal \/ modal' = TRUE, expired' \in BOOLEAN PROVE FormInv'
  BY <1>0, <1>1 DEF FormInv, Forms
<1>2. CASE openLoginModal \/ logout \/ OtherTab \/ TimePasses
  <2>1. UNCHANGED calls /\ (modal' = modal \/ modal' = TRUE) /\ expired' \in BOOLEAN
    BY <1>0, <1>2 DEF openLoginModal, logout, OtherTab, TimePasses, storage
  <2> QED BY <1>1, <2>1
<1>3. CASE cancelLogin
  <2>1. /\ calls' = [i \in DOMAIN calls |-> [calls[i] EXCEPT !.form = FALSE]]
        /\ expired' = expired
    BY <1>3 DEF cancelLogin, storage
  <2>2. \A i \in DOMAIN calls' : calls'[i].form = FALSE
    BY <1>a, <1>b, <2>1
  <2> QED BY <1>0, <2>1, <2>2 DEF FormInv, Forms
<1>4. ASSUME NEW a \in Accounts, LoginSubmit(a) PROVE FormInv'
  <2>1. /\ calls' = Append(calls, Login(a)) /\ modal' = modal /\ modal /\ expired' = expired
        /\ \A i \in DOMAIN calls : ~calls[i].form
    BY <1>4 DEF LoginSubmit, storage
  <2>2. Len(calls) \in Nat /\ DOMAIN calls = 1 .. Len(calls) /\ DOMAIN calls' = 1 .. Len(calls) + 1
        /\ \A j \in 1 .. Len(calls) : calls'[j] = calls[j]
    BY <1>0, <2>1
  <2>3. \A i \in DOMAIN calls' : calls'[i].form => i = Len(calls) + 1
    BY <2>1, <2>2
  <2> QED BY <1>0, <2>1, <2>3 DEF FormInv, Forms
<1>5. ASSUME NEW i \in DOMAIN calls, LoginArrives(i) PROVE FormInv'
  <2> DEFINE r == RemoveAt(calls, i)
  <2>1. PICK fetch \in BOOLEAN :
          /\ modal' = (modal /\ (fetch \/ ~calls[i].form))
          /\ calls' = r \o (IF fetch THEN <<Me(calls[i].account, calls[i].form)>> ELSE <<>>)
          /\ expired' = expired
    BY <1>5 DEF LoginArrives, MayFetch
  <2>2. /\ r \in Seq(Call) /\ Forms(r, modal)
        /\ calls[i].form => \A j \in DOMAIN r : ~r[j].form
    BY <1>0, RemovedForms, RemoveAtFacts
  <2>3. calls[i].form => modal
    BY <1>0 DEF Forms
  <2>4. calls[i].form \in BOOLEAN
    BY <1>a, <1>b
  <2> HIDE DEF r
  <2>5. CASE ~fetch
    <3>1. calls' = r
      BY <2>1, <2>2, <2>5
    <3> QED BY <1>0, <2>1, <2>2, <2>4, <2>5, <3>1 DEF FormInv, Forms
  <2>6. CASE fetch
    <3>1. calls' = Append(r, Me(calls[i].account, calls[i].form)) /\ modal' = modal
      BY <1>0, <2>1, <2>2, <2>6
    <3>2. Len(r) \in Nat /\ DOMAIN r = 1 .. Len(r) /\ DOMAIN calls' = 1 .. Len(r) + 1
          /\ calls'[Len(r) + 1] = Me(calls[i].account, calls[i].form)
          /\ \A j \in 1 .. Len(r) : calls'[j] = r[j]
      BY <2>2, <3>1
    <3>3. calls'[Len(r) + 1].form = calls[i].form
      BY <3>2 DEF Me
    <3> QED BY <1>0, <2>1, <2>2, <2>3, <3>1, <3>2, <3>3 DEF FormInv, Forms
  <2> QED BY <2>5, <2>6
<1>6. ASSUME NEW i \in DOMAIN calls, LoginFails(i) \/ MeArrives(i) \/ MeFails(i) PROVE FormInv'
  <2>1. /\ calls' = RemoveAt(calls, i) /\ expired' \in BOOLEAN
        /\ modal' = modal \/ modal' = (modal /\ ~calls[i].form)
    BY <1>0, <1>6 DEF LoginFails, MeArrives, MeFails, storage
  <2>2. /\ Forms(RemoveAt(calls, i), modal)
        /\ calls[i].form => \A j \in DOMAIN RemoveAt(calls, i) : ~RemoveAt(calls, i)[j].form
    BY <1>0, RemovedForms
  <2>3. calls[i].form \in BOOLEAN
    BY <1>a, <1>b
  <2> QED BY <1>0, <2>1, <2>2, <2>3 DEF FormInv, Forms
<1>7. CASE Unauthorized
  BY <1>7, BootForms DEF Unauthorized
<1> QED BY <1>2, <1>3, <1>4, <1>5, <1>6, <1>7 DEF SessionNext

(* The variables of the session are always of their types, and the form      *)
(* waits for at most one request.                                            *)
LEMMA SessionTyped == Spec => [](SessionInv /\ FormInv)
<1>1. Init => FormInv
  <2> SUFFICES ASSUME Init PROVE FormInv
    OBVIOUS
  <2>1. expired = FALSE /\ (calls = <<>> \/ calls = <<Me(localToken, FALSE)>>)
    BY DEF Init, SessionInit
  <2>2. \A i \in DOMAIN calls : calls[i].form = FALSE
    BY <2>1 DEF Me
  <2> QED BY <2>1, <2>2 DEF FormInv, Forms
<1>2. SessionInv /\ FormInv /\ [Next]_vars => FormInv'
  <2> SUFFICES ASSUME SessionInv, FormInv, [Next]_vars PROVE FormInv'
    OBVIOUS
  <2>1. CASE SessionNext
    BY <2>1, FormsStep
  <2>2. CASE Unauthorized
    BY <2>2, BootForms DEF Unauthorized
  <2>3. CASE PressReload
    BY <2>3, BootForms DEF PressReload
  <2>4. CASE UNCHANGED <<storage, modal, calls, raced>>
    BY <2>4 DEF storage, FormInv, Forms
  <2> QED BY <2>1, <2>2, <2>3, <2>4, ListSteps
<1> QED BY <1>1, <1>2, SessionInductive, PTL DEF Spec

------------------------------------------------------------------------------
(* The invariant of the list.                                                *)

Views == [range : Ranges, page : 1 .. MaxPage, his : Accounts \cup {None}]
Lists == UNION {[T -> BOOLEAN] : T \in SUBSET Services}
Replies == {None, Refused, Thrown, Ok(None)} \cup {Ok(l) : l \in Lists}
Senders == {"effect", "user", "delete", "restore", "create"}
Holders == Accounts \cup {None}
FetchRequest == [kind : {"fetch"}, arg : Views, by : Senders, as : Holders, ans : Replies]
ChangeRequest == [kind : {"delete", "restore", "create"}, arg : Services, by : Senders,
                  as : Holders, ans : Replies]
Request == FetchRequest \cup ChangeRequest
RowsTyped(t) ==
  /\ DOMAIN t \subseteq Services
  /\ \A s \in DOMAIN t : t[s].owner \in Accounts /\ t[s].deleted \in BOOLEAN

(* A fetch is answered with a list.                                          *)
IsFetch(s, i) == s[i].kind = "fetch"
Listed(s) == \A i \in DOMAIN s : IsFetch(s, i) =>
               s[i].ans \in {None, Refused, Thrown} \cup {Ok(l) : l \in Lists}

HomeTypes ==
  /\ RowsTyped(rows)
  /\ view \in Views /\ DOMAIN list \subseteq Services
  /\ busy \in BOOLEAN /\ overtaken \in BOOLEAN
  /\ asks \in Seq(Request) /\ Listed(asks)
  /\ orphans \subseteq ChangeRequest
  /\ IF Mounted THEN refetch \in Views ELSE list = <<>> /\ asks = <<>> /\ ~busy

(* No request on its way has thrown.                                         *)
Unthrown(s) == \A i \in DOMAIN s : s[i].ans # Thrown

(* The requests s of a page that shows l for view v and account who, when    *)
(* the server's list is a: what the last fetch asked for is what is shown;   *)
(* one fetch at most is on its way, for this view; and either a change was   *)
(* served, whose answer will fetch again, or the fetch on its way brings a,  *)
(* or a is shown.                                                            *)
Mine(s, who) == \A i \in DOMAIN s : s[i].as = who
OneFetch(s) == \A i, j \in DOMAIN s : IsFetch(s, i) /\ IsFetch(s, j) => i = j
ThisView(s, v) == \A i \in DOMAIN s : IsFetch(s, i) =>
                    s[i].arg = v /\ (s[i].ans # None => s[i].ans.status = "ok")
Pending(s) == \E i \in DOMAIN s : ~IsFetch(s, i) /\ s[i].ans = Ok(None)
Brings(s, a) == \A i \in DOMAIN s : IsFetch(s, i) => s[i].ans = None \/ s[i].ans = Ok(a)
Shows(s, l, a) == (\A i \in DOMAIN s : ~IsFetch(s, i)) => l = a
Consistent(s, v, who, l, again, a) ==
  /\ again = v /\ v.range \in Open(who)
  /\ Mine(s, who) /\ OneFetch(s) /\ ThisView(s, v)
  /\ Pending(s) \/ (Brings(s, a) /\ Shows(s, l, a))

ThrowInv == ~overtaken => Unthrown(asks)
ListInv == Mounted /\ ~overtaken /\ ~raced =>
             Consistent(asks, view, user, list, refetch, Answer(user, view))
HomeInv == HomeTypes /\ ThrowInv /\ ListInv

------------------------------------------------------------------------------
(* Requests.                                                                 *)

LEMMA FetchTyped ==
  ASSUME NEW v \in Views, NEW by \in Senders, NEW as \in Holders
  PROVE  LET r == Ask("fetch", v, by, as)
         IN  r \in Request /\ r.kind = "fetch" /\ r.arg = v /\ r.as = as /\ r.ans = None
BY DEF Ask, Request, FetchRequest, Replies

LEMMA ChangeTyped ==
  ASSUME NEW kind \in {"delete", "restore", "create"}, NEW x \in Services, NEW as \in Holders
  PROVE  LET r == Ask(kind, x, "user", as)
         IN  r \in Request /\ r.kind = kind /\ r.as = as /\ r.ans = None
BY DEF Ask, Request, ChangeRequest, Replies, Senders

LEMMA AnswerFields ==
  ASSUME NEW r \in Request, NEW x \in Replies
  PROVE  LET q == [r EXCEPT !.ans = x]
         IN  /\ q \in Request /\ q.ans = x
             /\ q.kind = r.kind /\ q.arg = r.arg /\ q.by = r.by /\ q.as = r.as
<1>1. CASE r \in FetchRequest
  BY <1>1 DEF Request, FetchRequest
<1>2. CASE r \in ChangeRequest
  BY <1>2 DEF Request, ChangeRequest
<1> QED BY <1>1, <1>2 DEF Request

LEMMA RequestFacts ==
  ASSUME NEW r \in Request
  PROVE  /\ r.kind \in {"fetch", "delete", "restore", "create"}
         /\ r.kind = "fetch" => r.arg \in Views
         /\ r.kind # "fetch" => r \in ChangeRequest /\ r.arg \in Services
         /\ r.as \in Holders /\ r.ans \in Replies /\ r.by \in Senders
BY DEF Request, FetchRequest, ChangeRequest

LEMMA ReplyFacts ==
  /\ Refused.status = "refused" /\ Thrown.status = "thrown"
  /\ \A x : Ok(x).status = "ok" /\ Ok(x).value = x /\ Ok(x) # Thrown /\ Ok(x) # Refused
  /\ Refused # Thrown
  /\ None # Thrown /\ None # Refused /\ None # Ok(None)
BY NoneIsNoAnswer DEF Refused, Thrown, Ok

(* A new request joins the others.                                           *)
LEMMA AppendFacts ==
  ASSUME NEW S, NEW s \in Seq(S), NEW e \in S
  PROVE  /\ Append(s, e) \in Seq(S)
         /\ DOMAIN Append(s, e) = DOMAIN s \cup {Len(s) + 1}
         /\ Len(s) + 1 \notin DOMAIN s
         /\ Append(s, e)[Len(s) + 1] = e
         /\ \A j \in DOMAIN s : Append(s, e)[j] = s[j]
<1>1. Len(s) \in Nat /\ DOMAIN s = 1 .. Len(s)
  BY LenProperties
<1>2. Append(s, e) \in Seq(S) /\ Len(Append(s, e)) = Len(s) + 1
  BY AppendProperties
<1>3. DOMAIN Append(s, e) = 1 .. Len(s) + 1
  BY <1>1, <1>2
<1> QED BY <1>1, <1>2, <1>3, AppendProperties

(* One request is answered.                                                  *)
LEMMA ExceptFacts ==
  ASSUME NEW s \in Seq(Request), NEW i \in DOMAIN s, NEW x \in Replies
  PROVE  LET t == [s EXCEPT ![i].ans = x]
         IN  /\ t \in Seq(Request) /\ DOMAIN t = DOMAIN s
             /\ t[i].ans = x /\ t[i].kind = s[i].kind /\ t[i].arg = s[i].arg /\ t[i].as = s[i].as
             /\ \A j \in DOMAIN s \ {i} : t[j] = s[j]
<1>1. s[i] \in Request
  OBVIOUS
<1> DEFINE q == [s[i] EXCEPT !.ans = x]
<1>2. /\ q \in Request /\ q.ans = x
      /\ q.kind = s[i].kind /\ q.arg = s[i].arg /\ q.as = s[i].as
  BY <1>1, AnswerFields
<1>3. [s EXCEPT ![i].ans = x] = [s EXCEPT ![i] = q]
  OBVIOUS
<1> HIDE DEF q
<1>4. /\ [s EXCEPT ![i] = q] \in Seq(Request) /\ DOMAIN [s EXCEPT ![i] = q] = DOMAIN s
      /\ [s EXCEPT ![i] = q][i] = q
      /\ \A j \in DOMAIN s \ {i} : [s EXCEPT ![i] = q][j] = s[j]
  BY <1>2
<1> QED BY <1>2, <1>3, <1>4

(* Fetching is positive if there is a fetch.                                 *)
LEMMA FetchingPositive ==
  ASSUME NEW s \in Seq(Request)
  PROVE  Fetching(s) > 0 <=> \E i \in DOMAIN s : IsFetch(s, i)
<1> DEFINE M == {i \in DOMAIN s : s[i].kind = "fetch"}
<1>1. IsFiniteSet(1 .. Len(s))
  BY FS_Interval, LenProperties
<1>2. IsFiniteSet(M) /\ Cardinality(M) \in Nat
  BY <1>1, FS_Subset, FS_CardinalityType, M \subseteq 1 .. Len(s)
<1>3. Cardinality(M) = 0 <=> M = {}
  BY <1>2, FS_EmptySet
<1> QED
  BY <1>2, <1>3 DEF Fetching, IsFetch

------------------------------------------------------------------------------
(* What sending, serving and applying does to Unthrown and Consistent.       *)

LEMMA UnthrownSent ==
  ASSUME NEW s \in Seq(Request), NEW e \in Request, e.ans = None, Unthrown(s)
  PROVE  Unthrown(Append(s, e))
<1> DEFINE t == Append(s, e)
<1>1. /\ DOMAIN t = DOMAIN s \cup {Len(s) + 1} /\ t[Len(s) + 1] = e
      /\ \A j \in DOMAIN s : t[j] = s[j]
  BY AppendFacts
<1> HIDE DEF t
<1>2. \A i \in DOMAIN t : t[i].ans # Thrown
  BY <1>1, ReplyFacts DEF Unthrown
<1> QED BY <1>2 DEF Unthrown, t

LEMMA UnthrownServed ==
  ASSUME NEW s \in Seq(Request), NEW i \in DOMAIN s, NEW x \in Replies, x # Thrown, Unthrown(s)
  PROVE  Unthrown([s EXCEPT ![i].ans = x])
<1> DEFINE t == [s EXCEPT ![i].ans = x]
<1>1. /\ DOMAIN t = DOMAIN s /\ t[i].ans = x /\ t[i].kind = s[i].kind
      /\ \A j \in DOMAIN s \ {i} : t[j] = s[j]
  BY ExceptFacts
<1> HIDE DEF t
<1> QED BY <1>1 DEF Unthrown, t

LEMMA UnthrownTaken ==
  ASSUME NEW s \in Seq(Request), NEW i \in DOMAIN s, Unthrown(s)
  PROVE  Unthrown(RemoveAt(s, i))
<1> DEFINE t == RemoveAt(s, i)
<1>1. /\ \A j \in DOMAIN t : \E k \in DOMAIN s : t[j] = s[k]
      /\ \A k \in DOMAIN s : k # i => \E j \in DOMAIN t : t[j] = s[k]
  BY RemovedKeeps
<1> HIDE DEF t
<1> QED BY <1>1 DEF Unthrown, t

(* A fetch is sent when none is on its way.                                  *)
LEMMA FetchSent ==
  ASSUME NEW s \in Seq(Request), NEW who, Mine(s, who), \A i \in DOMAIN s : ~IsFetch(s, i),
         NEW e \in Request, NEW v, e.kind = "fetch", e.arg = v, e.as = who, e.ans = None,
         v.range \in Open(who), NEW l, NEW a
  PROVE  Consistent(Append(s, e), v, who, l, v, a)
<1> DEFINE t == Append(s, e)
<1>1. /\ DOMAIN t = DOMAIN s \cup {Len(s) + 1} /\ t[Len(s) + 1] = e
      /\ \A j \in DOMAIN s : t[j] = s[j] /\ ~IsFetch(t, j)
  BY AppendFacts DEF IsFetch
<1> HIDE DEF t
<1>2. \A j \in DOMAIN t : IsFetch(t, j) => j = Len(s) + 1
  BY <1>1
<1>3. IsFetch(t, Len(s) + 1)
  BY <1>1 DEF IsFetch
<1>4. Mine(t, who) /\ OneFetch(t) /\ ThisView(t, v) /\ Brings(t, a) /\ Shows(t, l, a)
  BY <1>1, <1>2, <1>3 DEF Mine, OneFetch, ThisView, Brings, Shows
<1> QED BY <1>4 DEF Consistent, t

LEMMA ChangeSent ==
  ASSUME NEW s \in Seq(Request), NEW e \in Request, NEW v, NEW who, NEW l, NEW again, NEW a,
         e.kind # "fetch", e.as = who, Consistent(s, v, who, l, again, a)
  PROVE  Consistent(Append(s, e), v, who, l, again, a)
<1> DEFINE t == Append(s, e)
<1>1. /\ DOMAIN t = DOMAIN s \cup {Len(s) + 1} /\ t[Len(s) + 1] = e
      /\ \A j \in DOMAIN s : t[j] = s[j]
  BY AppendFacts
<1> HIDE DEF t
<1>2. \A j \in DOMAIN t : IsFetch(t, j) => j \in DOMAIN s /\ IsFetch(s, j)
  BY <1>1 DEF IsFetch
<1>3. \A j \in DOMAIN s : IsFetch(t, j) <=> IsFetch(s, j)
  BY <1>1 DEF IsFetch
<1>4. Mine(t, who) /\ OneFetch(t) /\ ThisView(t, v)
  BY <1>1, <1>2 DEF Consistent, Mine, OneFetch, ThisView
<1>5. Pending(s) => Pending(t)
  BY <1>1, <1>3 DEF Pending
<1>6. Brings(s, a) => Brings(t, a)
  BY <1>1, <1>2 DEF Brings
<1>7. Shows(s, l, a) => Shows(t, l, a)
  BY <1>1, <1>3 DEF Shows
<1> QED BY <1>4, <1>5, <1>6, <1>7 DEF Consistent, t

(* A fetch is answered with the server's list, a change with success; then   *)
(* the server's list may be another one.  A refused change leaves it.        *)
LEMMA Served ==
  ASSUME NEW s \in Seq(Request), NEW i \in DOMAIN s, s[i].ans = None, NEW x \in Replies,
         NEW v, NEW who, NEW l, NEW again, NEW a, NEW b,
         Consistent(s, v, who, l, again, a),
         \/ IsFetch(s, i) /\ x = Ok(a) /\ b = a
         \/ ~IsFetch(s, i) /\ x = Ok(None)
         \/ ~IsFetch(s, i) /\ b = a
  PROVE  Consistent([s EXCEPT ![i].ans = x], v, who, l, again, b)
<1> DEFINE t == [s EXCEPT ![i].ans = x]
<1>1. /\ DOMAIN t = DOMAIN s
      /\ t[i].ans = x /\ t[i].kind = s[i].kind /\ t[i].arg = s[i].arg /\ t[i].as = s[i].as
      /\ \A j \in DOMAIN s \ {i} : t[j] = s[j]
  BY ExceptFacts
<1> HIDE DEF t
<1>2. \A j \in DOMAIN s : IsFetch(t, j) <=> IsFetch(s, j)
  BY <1>1 DEF IsFetch
<1>3. \A j \in DOMAIN s : t[j].as = s[j].as /\ t[j].arg = s[j].arg
  BY <1>1
<1>4. Mine(t, who) /\ OneFetch(t)
  BY <1>1, <1>2, <1>3 DEF Consistent, Mine, OneFetch
<1>5. ThisView(t, v)
  BY <1>1, <1>2, <1>3, ReplyFacts DEF Consistent, ThisView
<1>6. CASE ~IsFetch(s, i) /\ x = Ok(None)
  <2>1. Pending(t)
    BY <1>1, <1>2, <1>6 DEF Pending
  <2> QED BY <1>4, <1>5, <2>1 DEF Consistent, t
<1>7. Pending(s) => Pending(t)
  BY <1>1, <1>2, ReplyFacts DEF Pending
<1>8. CASE b = a /\ (IsFetch(s, i) => x = Ok(a))
  <2>1. Brings(s, a) => Brings(t, b)
    BY <1>1, <1>2, <1>8 DEF Brings
  <2>2. Shows(s, l, a) => Shows(t, l, b)
    BY <1>1, <1>2, <1>8 DEF Shows
  <2> QED BY <1>4, <1>5, <1>7, <2>1, <2>2 DEF Consistent, t
<1> QED BY <1>6, <1>8

(* The answer of a fetch is shown.                                           *)
LEMMA FetchTaken ==
  ASSUME NEW s \in Seq(Request), NEW i \in DOMAIN s, IsFetch(s, i), s[i].ans # None,
         NEW v, NEW who, NEW l, NEW again, NEW a, Consistent(s, v, who, l, again, a)
  PROVE  s[i].ans.status = "ok" /\ Consistent(RemoveAt(s, i), v, who, s[i].ans.value, again, a)
<1> DEFINE t == RemoveAt(s, i)
<1>1. /\ \A j \in DOMAIN t : Skip(i, j) \in DOMAIN s /\ Skip(i, j) # i /\ t[j] = s[Skip(i, j)]
      /\ \A k \in DOMAIN s : k # i => \E j \in DOMAIN t : t[j] = s[k]
  BY RemovedIndex, RemovedKeeps
<1> HIDE DEF t
<1>2. \A j \in DOMAIN t : ~IsFetch(t, j)
  BY <1>1 DEF IsFetch, Consistent, OneFetch
<1>3. Mine(t, who) /\ OneFetch(t) /\ ThisView(t, v) /\ Brings(t, a)
  BY <1>1, <1>2 DEF Consistent, Mine, OneFetch, ThisView, Brings
<1>4. Pending(s) => Pending(t)
  BY <1>1 DEF Pending, IsFetch
<1>5. Brings(s, a) => s[i].ans.value = a
  BY ReplyFacts DEF Brings
<1>6. s[i].ans.status = "ok"
  BY DEF Consistent, ThisView
<1> QED BY <1>3, <1>4, <1>5, <1>6 DEF Consistent, Shows, t

(* A change that failed leaves the others.                                   *)
LEMMA ChangeTaken ==
  ASSUME NEW s \in Seq(Request), NEW i \in DOMAIN s, ~IsFetch(s, i), s[i].ans # Ok(None),
         NEW v, NEW who, NEW l, NEW again, NEW a, Consistent(s, v, who, l, again, a)
  PROVE  Consistent(RemoveAt(s, i), v, who, l, again, a)
<1> DEFINE t == RemoveAt(s, i)
<1>1. /\ \A j \in DOMAIN t : Skip(i, j) \in DOMAIN s /\ Skip(i, j) # i /\ t[j] = s[Skip(i, j)]
      /\ \A j, k \in DOMAIN t : Skip(i, j) = Skip(i, k) => j = k
      /\ \A k \in DOMAIN s : k # i => \E j \in DOMAIN t : t[j] = s[k]
  BY RemovedIndex, RemovedKeeps
<1> HIDE DEF t
<1>2. \A j \in DOMAIN t : IsFetch(t, j) <=> IsFetch(s, Skip(i, j))
  BY <1>1 DEF IsFetch
<1>3. Mine(t, who) /\ OneFetch(t)
  BY <1>1, <1>2 DEF Consistent, Mine, OneFetch
<1>a. ThisView(t, v)
  BY <1>1, <1>2 DEF Consistent, ThisView
<1>4. Pending(s) => Pending(t)
  BY <1>1 DEF Pending, IsFetch
<1>5. Brings(s, a) => Brings(t, a)
  BY <1>1, <1>2 DEF Brings
<1>6. Shows(s, l, a) => Shows(t, l, a)
  <2>1. ASSUME \A j \in DOMAIN t : ~IsFetch(t, j) PROVE \A k \in DOMAIN s : ~IsFetch(s, k)
    BY <1>1, <2>1 DEF IsFetch
  <2> QED BY <2>1 DEF Shows
<1> QED BY <1>3, <1>a, <1>4, <1>5, <1>6 DEF Consistent, t

------------------------------------------------------------------------------
(* The server.                                                               *)

(* A list has services that exist.                                           *)
LEMMA AnswerTyped ==
  ASSUME RowsTyped(rows), NEW who, NEW v
  PROVE  Answer(who, v) \in Lists
<1>1. InRange(who, v) \subseteq DOMAIN rows
  BY Zenon DEF InRange
<1>2. OnPage(who, v) \subseteq Services
  BY <1>1 DEF OnPage, RowsTyped
<1>3. \A x \in OnPage(who, v) : rows[x].deleted \in BOOLEAN
  BY <1>1 DEF OnPage, RowsTyped
<1>4. Answer(who, v) \in [OnPage(who, v) -> BOOLEAN]
  BY <1>3 DEF Answer
<1> QED BY <1>2, <1>4 DEF Lists

LEMMA AnsweredTyped ==
  ASSUME RowsTyped(rows), NEW r
  PROVE  Answered(r) \in Replies /\ Answered(r) # Thrown
<1>1. Answer(r.as, r.arg) \in Lists
  BY AnswerTyped
<1> QED BY <1>1, ReplyFacts DEF Answered, Replies

LEMMA ChangedTyped ==
  ASSUME RowsTyped(rows),
         NEW r \in Request, r.as # None
  PROVE  RowsTyped(Changed(r))
<1>1. CASE r.kind = "fetch" \/ ~Done(r)
  BY <1>1 DEF Changed
<1>2. CASE r.kind # "fetch" /\ Done(r)
  <2>1. r.arg \in Services /\ r.as \in Accounts
    BY <1>2, RequestFacts DEF Holders
  <2>2. r.kind # "create" => r.arg \in DOMAIN rows
    BY <1>2, Zenon DEF Done, MayEdit
  <2>3. PICK who : who = IF r.kind = "create" THEN r.as ELSE rows[r.arg].owner
    OBVIOUS
  <2>4. PICK gone \in BOOLEAN : gone = (r.kind = "delete")
    OBVIOUS
  <2>5. PICK at : at = IF r.kind = "delete" THEN Now ELSE 0
    OBVIOUS
  <2>6. PICK new : new = [owner |-> who, deleted |-> gone, deletedAt |-> at]
    OBVIOUS
  <2>7. Changed(r) = [s \in DOMAIN rows \cup {r.arg} |-> IF s # r.arg THEN rows[s] ELSE new]
    BY <1>2, <2>3, <2>4, <2>5, <2>6 DEF Changed
  <2>8. who \in Accounts
    BY <2>1, <2>2, <2>3 DEF RowsTyped
  <2>9. new.owner \in Accounts /\ new.deleted \in BOOLEAN
    BY <2>6, <2>8
  <2> QED BY <2>1, <2>7, <2>9 DEF RowsTyped
<1> QED BY <1>1, <1>2

(* The list depends on the rows, the account and the view only.              *)
LEMMA SameAnswer ==
  ASSUME UNCHANGED <<rows, user, view>>
  PROVE  Answer(user, view)' = Answer(user, view)
<1>1. rows' = rows /\ user' = user /\ view' = view
  OBVIOUS
<1>2. InRange(user, view)' = InRange(user, view)
  BY <1>1, Zenon DEF InRange
<1>3. \A s : Key(view, s)' = Key(view, s)
  BY <1>1 DEF Key
<1>4. OnPage(user, view)' = OnPage(user, view)
  BY <1>1, <1>2, <1>3 DEF OnPage
<1> QED BY <1>1, <1>4 DEF Answer

------------------------------------------------------------------------------
(* The invariant holds at the beginning and is kept, action by action.       *)

LEMMA FirstViewTyped == FirstView \in Views /\ FirstView.range = "MyServices"
BY PagesStart DEF FirstView, Views, Ranges

LEMMA OpenFirst == ASSUME NEW who PROVE "MyServices" \in Open(who)
BY DEF Open, Ranges

(* Requests sent, answered and taken keep the types.                         *)
LEMMA ListedSent ==
  ASSUME NEW s \in Seq(Request), Listed(s), NEW e \in Request, e.ans = None
  PROVE  Append(s, e) \in Seq(Request) /\ Listed(Append(s, e))
<1> DEFINE t == Append(s, e)
<1>1. /\ t \in Seq(Request) /\ DOMAIN t = DOMAIN s \cup {Len(s) + 1} /\ t[Len(s) + 1] = e
      /\ \A j \in DOMAIN s : t[j] = s[j]
  BY AppendFacts
<1> HIDE DEF t
<1> QED BY <1>1 DEF Listed, IsFetch, t

LEMMA ListedServed ==
  ASSUME NEW s \in Seq(Request), Listed(s), NEW i \in DOMAIN s, NEW x \in Replies,
         IsFetch(s, i) => x \in {None, Refused, Thrown} \cup {Ok(l) : l \in Lists}
  PROVE  [s EXCEPT ![i].ans = x] \in Seq(Request) /\ Listed([s EXCEPT ![i].ans = x])
<1> DEFINE t == [s EXCEPT ![i].ans = x]
<1>1. /\ t \in Seq(Request) /\ DOMAIN t = DOMAIN s /\ t[i].ans = x /\ t[i].kind = s[i].kind
      /\ \A j \in DOMAIN s \ {i} : t[j] = s[j]
  BY ExceptFacts
<1> HIDE DEF t
<1> QED BY <1>1 DEF Listed, IsFetch, t

LEMMA ListedTaken ==
  ASSUME NEW s \in Seq(Request), Listed(s), NEW i \in DOMAIN s
  PROVE  RemoveAt(s, i) \in Seq(Request) /\ Listed(RemoveAt(s, i))
<1> DEFINE t == RemoveAt(s, i)
<1>1. t \in Seq(Request) /\ \A j \in DOMAIN t : \E k \in DOMAIN s : t[j] = s[k]
  BY RemovedKeeps, RemoveAtFacts
<1> HIDE DEF t
<1> QED BY <1>1 DEF Listed, IsFetch, t

LEMMA HomeInitially == Init => HomeInv
<1> SUFFICES ASSUME Init PROVE HomeInv
  OBVIOUS
<1>1. /\ rows = [s \in DOMAIN FirstOwner |-> [owner |-> FirstOwner[s], deleted |-> FALSE, deletedAt |-> 0]]
      /\ view = FirstView /\ list = <<>> /\ busy = FALSE /\ asks = <<>> /\ orphans = {}
      /\ overtaken = FALSE /\ user = None
  BY DEF Init, SessionInit
<1>2. DOMAIN rows = DOMAIN FirstOwner
      /\ \A s \in DOMAIN FirstOwner : rows[s].owner = FirstOwner[s] /\ rows[s].deleted = FALSE
  BY <1>1
<1>3. RowsTyped(rows)
  BY <1>2, FirstOwned DEF RowsTyped
<1>a. DOMAIN list = {} /\ DOMAIN asks = {} /\ asks \in Seq(Request)
  BY <1>1
<1>b. ~Mounted /\ list = <<>> /\ asks = <<>> /\ ~busy /\ busy \in BOOLEAN /\ overtaken \in BOOLEAN
  BY <1>1 DEF Mounted
<1>4. HomeTypes
  BY <1>1, <1>3, <1>a, <1>b, FirstViewTyped DEF HomeTypes, Listed
<1>5. ThrowInv /\ ListInv
  BY <1>1 DEF ThrowInv, ListInv, Unthrown, Mounted
<1> QED BY <1>4, <1>5 DEF HomeInv

(* The page that appears asks as the account it shows; the one that goes     *)
(* leaves its changes behind.                                                *)
LEMMA RemountKeeps == ASSUME HomeInv, SessionInv', Remount PROVE HomeInv'
<1>1. PICK e : e = Ask("fetch", FirstView, "effect", localToken')
  OBVIOUS
<1>2. localToken' \in Holders
  BY DEF SessionInv, SessionTypes, Holders
<1>3. e \in Request /\ e.kind = "fetch" /\ e.arg = FirstView /\ e.as = localToken' /\ e.ans = None
  BY <1>1, <1>2, FirstViewTyped, FetchTyped DEF Senders
<1>4. /\ view' = FirstView /\ list' = <<>> /\ rows' = rows
      /\ refetch' = IF user' # None THEN FirstView ELSE None
      /\ busy' = (user' # None)
      /\ asks' = IF user' # None THEN <<e>> ELSE <<>>
      /\ orphans' = orphans \cup Unserved(asks)
      /\ overtaken' = FALSE
  BY <1>1 DEF Remount, Fresh
<1>5. asks' \in Seq(Request) /\ Listed(asks')
  <2>1. <<e>> \in Seq(Request) /\ \A j \in DOMAIN <<e>> : <<e>>[j] = e
    BY <1>3, Single
  <2>2. <<>> \in Seq(Request) /\ DOMAIN <<>> = {}
    OBVIOUS
  <2> QED BY <1>3, <1>4, <2>1, <2>2 DEF Listed
<1>6. Unserved(asks) \subseteq ChangeRequest
  <2>1. asks \in Seq(Request)
    BY DEF HomeInv, HomeTypes
  <2>2. \A i \in DOMAIN asks : asks[i] \in Request
    BY <2>1
  <2> QED BY <2>2, RequestFacts DEF Unserved
<1>7. HomeTypes'
  <2>1. RowsTyped(rows') /\ orphans' \subseteq ChangeRequest
    BY <1>4, <1>6 DEF HomeInv, HomeTypes
  <2>2. view' \in Views /\ DOMAIN list' = {} /\ busy' \in BOOLEAN /\ overtaken' \in BOOLEAN
    <3>1. DOMAIN list' = {}
      BY <1>4
    <3> QED BY <1>4, <3>1, FirstViewTyped
  <2>3. IF user' # None THEN refetch' \in Views ELSE list' = <<>> /\ asks' = <<>> /\ ~busy'
    BY <1>4, FirstViewTyped
  <2> QED BY <1>5, <2>1, <2>2, <2>3 DEF HomeTypes, Mounted
<1>8. ASSUME user' # None
      PROVE  Unthrown(asks')
             /\ \A a : ~raced' => Consistent(asks', view', user', list', refetch', a)
  <2>1. asks' = <<e>> /\ asks' = Append(<<>>, e) /\ refetch' = FirstView
    BY <1>3, <1>4, <1>8
  <2>2. <<>> \in Seq(Request) /\ DOMAIN <<>> = {}
    OBVIOUS
  <2>3. Unthrown(asks')
    <3>1. Unthrown(<<>>)
      BY <2>2 DEF Unthrown
    <3>2. Unthrown(Append(<<>>, e))
      BY <1>3, <2>2, <3>1, UnthrownSent, Zenon
    <3> QED BY <2>1, <3>2
  <2>4. ASSUME ~raced', NEW a PROVE Consistent(asks', view', user', list', refetch', a)
    <3>1. localToken' = user'
      BY <1>8, <2>4 DEF SessionInv, Owned
    <3>2. Mine(<<>>, user') /\ \A i \in DOMAIN <<>> : ~IsFetch(<<>>, i)
      BY <2>2 DEF Mine
    <3>3. FirstView.range \in Open(user')
      BY FirstViewTyped, OpenFirst
    <3>4. Consistent(Append(<<>>, e), FirstView, user', list', FirstView, a)
      BY <1>3, <2>2, <3>1, <3>2, <3>3, FetchSent
    <3> QED BY <1>4, <2>1, <3>4
  <2> QED BY <2>3, <2>4
<1>9. ASSUME user' = None PROVE Unthrown(asks')
  <2>1. asks' = <<>> /\ ~busy'
    BY <1>4, <1>9
  <2>2. DOMAIN asks' = {}
    BY <2>1
  <2> QED BY <2>1, <2>2 DEF Unthrown
<1> QED BY <1>7, <1>8, <1>9 DEF HomeInv, ThrowInv, ListInv, Mounted

(* The account shown changes only when the page comes or goes.               *)
LEMMA UserStays ==
  ASSUME SessionInv, SessionNext, user # None, user' # None, ~raced'
  PROVE  user' = user /\ ~raced
<1>1. CASE openLoginModal \/ cancelLogin \/ OtherTab \/ TimePasses
  BY <1>1 DEF openLoginModal, cancelLogin, OtherTab, TimePasses, storage
<1>2. CASE logout
  BY <1>2 DEF logout
<1>3. CASE Unauthorized
  BY <1>3 DEF Unauthorized, Boot, Restored
<1>4. ASSUME NEW a \in Accounts, LoginSubmit(a) PROVE user' = user /\ ~raced
  BY <1>4 DEF LoginSubmit, storage
<1>5. ASSUME NEW i \in DOMAIN calls, LoginArrives(i) \/ LoginFails(i) PROVE user' = user /\ ~raced
  <2>1. CASE LoginArrives(i)
    <3>1. raced' = (raced \/ user # None \/ Fetches(calls) > 0)
      BY <2>1 DEF LoginArrives
    <3> QED BY <3>1
  <2>2. CASE LoginFails(i)
    BY <2>2 DEF LoginFails, storage
  <2> QED BY <1>5, <2>1, <2>2
<1>6. ASSUME NEW i \in DOMAIN calls, MeArrives(i) \/ MeFails(i) PROVE FALSE
  <2>1. MeArrives(i) /\ ~raced /\ IsMe(calls, i)
    BY <1>6 DEF MeArrives, MeFails, IsMe
  <2> QED BY <2>1 DEF SessionInv, Asked
<1> QED BY <1>1, <1>2, <1>3, <1>4, <1>5, <1>6 DEF SessionNext

(* Nothing that the invariant speaks of changes.                             *)
LEMMA ListSame ==
  ASSUME HomeInv, UNCHANGED <<rows, view, list, busy, refetch, asks, orphans, overtaken>>,
         user' # None <=> user # None,
         user' # None /\ ~raced' => user' = user /\ ~raced
  PROVE  HomeInv'
<1>1. HomeTypes'
  BY DEF HomeInv, HomeTypes, Mounted, Listed, IsFetch
<1>2. ThrowInv'
  BY DEF HomeInv, ThrowInv, Unthrown
<1>3. ASSUME Mounted', ~overtaken', ~raced'
      PROVE  Consistent(asks', view', user', list', refetch', Answer(user, view)')
  <2>1. user' = user /\ ~raced /\ Mounted /\ ~overtaken
    BY <1>3 DEF Mounted
  <2>2. Consistent(asks, view, user, list, refetch, Answer(user, view))
    BY <2>1 DEF HomeInv, ListInv
  <2>3. Answer(user, view)' = Answer(user, view)
    BY <2>1, SameAnswer
  <2>4. asks' = asks /\ view' = view /\ list' = list /\ refetch' = refetch
    OBVIOUS
  <2> QED BY <2>1, <2>2, <2>3, <2>4, Zenon
<1> QED BY <1>1, <1>2, <1>3 DEF HomeInv, ListInv

LEMMA FollowKeeps ==
  ASSUME HomeInv, SessionInv, SessionInv', SessionNext, Follow
  PROVE  HomeInv'
<1>1. CASE Mounted /\ user' # None
  <2>1. UNCHANGED <<rows, view, list, busy, refetch, asks, orphans, overtaken>>
    BY <1>1 DEF Follow, listVars
  <2> QED BY <1>1, <2>1, UserStays, ListSame DEF Mounted
<1>2. CASE ~(Mounted /\ user' # None)
  BY <1>2, RemountKeeps DEF Follow
<1> QED BY <1>1, <1>2

(* A click that asks for another list: one fetch, or the list is overtaken.  *)
LEMMA ViewFetched ==
  ASSUME HomeInv, SessionInv, Click, NEW v \in Views, view' = v, Fetch(v, asks, "effect"),
         UNCHANGED list, ~overtaken /\ ~raced => v.range \in Open(user)
  PROVE  HomeInv'
<1>1. PICK e : e = Ask("fetch", v, "effect", localToken)
  OBVIOUS
<1>2. e \in Request /\ e.kind = "fetch" /\ e.arg = v /\ e.as = localToken /\ e.ans = None
  BY <1>1, FetchTyped DEF Senders, SessionInv, SessionTypes, Holders
<1>3. /\ refetch' = v /\ busy' = TRUE /\ asks' = Append(asks, e)
      /\ overtaken' = (overtaken \/ Fetching(asks) > 0)
      /\ user' = user /\ raced' = raced /\ rows' = rows /\ orphans' = orphans /\ user # None
  BY <1>1 DEF Fetch, Click, session, storage, Mounted
<1>4. asks \in Seq(Request) /\ Listed(asks)
  BY DEF HomeInv, HomeTypes
<1>5. HomeTypes'
  <2>1. asks' \in Seq(Request) /\ Listed(asks')
    BY <1>2, <1>3, <1>4, ListedSent
  <2>2. RowsTyped(rows)
        /\ DOMAIN list \subseteq Services /\ orphans \subseteq ChangeRequest /\ overtaken \in BOOLEAN
    BY DEF HomeInv, HomeTypes
  <2>3. overtaken' \in BOOLEAN /\ busy' \in BOOLEAN
    BY <1>3, <2>2
  <2> QED BY <1>3, <2>1, <2>2, <2>3 DEF HomeTypes, Mounted
<1>6. ASSUME ~overtaken'
      PROVE  ~overtaken /\ \A i \in DOMAIN asks : ~IsFetch(asks, i)
  BY <1>3, <1>4, <1>6, FetchingPositive
<1>7. ASSUME ~overtaken' PROVE Unthrown(asks')
  <2>1. Unthrown(asks)
    BY <1>6, <1>7 DEF HomeInv, ThrowInv
  <2> QED BY <1>2, <1>3, <1>4, <2>1, UnthrownSent, Zenon
<1>8. ASSUME ~overtaken', ~raced', NEW a PROVE Consistent(asks', view', user', list', refetch', a)
  <2>1. ~overtaken /\ ~raced /\ Mounted /\ localToken = user
    BY <1>3, <1>6, <1>8 DEF SessionInv, Owned, Mounted
  <2>2. Mine(asks, user)
    BY <2>1 DEF HomeInv, ListInv, Consistent
  <2>3. v.range \in Open(user)
    BY <2>1
  <2>4. Consistent(Append(asks, e), v, user, list', v, a)
    BY <1>2, <1>4, <1>6, <1>8, <2>1, <2>2, <2>3, FetchSent
  <2> QED BY <1>3, <2>4
<1> QED BY <1>5, <1>7, <1>8 DEF HomeInv, ThrowInv, ListInv

(* A click that sends a change.                                              *)
LEMMA ChangeClicked ==
  ASSUME HomeInv, SessionInv, Click, NEW kind \in {"delete", "restore", "create"}, NEW x \in Services,
         asks' = Append(asks, Ask(kind, x, "user", localToken)),
         busy' \in BOOLEAN, UNCHANGED <<view, list, refetch, overtaken>>
  PROVE  HomeInv'
<1>1. PICK e : e = Ask(kind, x, "user", localToken)
  OBVIOUS
<1>2. e \in Request /\ e.kind = kind /\ e.as = localToken /\ e.ans = None
  BY <1>1, ChangeTyped DEF SessionInv, SessionTypes, Holders
<1>3. /\ asks' = Append(asks, e) /\ view' = view /\ list' = list /\ refetch' = refetch
      /\ overtaken' = overtaken
      /\ user' = user /\ raced' = raced /\ rows' = rows /\ orphans' = orphans /\ user # None
  BY <1>1 DEF Click, session, storage, Mounted
<1>4. asks \in Seq(Request) /\ Listed(asks)
  BY DEF HomeInv, HomeTypes
<1>5. HomeTypes'
  <2>1. asks' \in Seq(Request) /\ Listed(asks')
    BY <1>2, <1>3, <1>4, ListedSent
  <2> QED BY <1>3, <2>1 DEF HomeInv, HomeTypes, Mounted
<1>6. ASSUME ~overtaken PROVE Unthrown(asks')
  <2>1. Unthrown(asks)
    BY <1>6 DEF HomeInv, ThrowInv
  <2> QED BY <1>2, <1>3, <1>4, <2>1, UnthrownSent, Zenon
<1>7. ASSUME ~overtaken, ~raced
      PROVE  Consistent(asks', view', user', list', refetch', Answer(user, view)')
  <2>1. Mounted /\ localToken = user
    BY <1>3, <1>7 DEF SessionInv, Owned, Mounted
  <2>2. Consistent(asks, view, user, list, refetch, Answer(user, view))
    BY <1>7, <2>1 DEF HomeInv, ListInv
  <2>3. Answer(user, view)' = Answer(user, view)
    BY <1>3, SameAnswer
  <2>4. e.kind # "fetch" /\ e.as = user
    BY <1>2, <2>1
  <2>5. Consistent(Append(asks, e), view, user, list, refetch, Answer(user, view))
    BY <1>2, <1>4, <2>2, <2>4, ChangeSent
  <2> QED BY <1>3, <2>3, <2>5, Zenon
<1> QED BY <1>3, <1>5, <1>6, <1>7 DEF HomeInv, ThrowInv, ListInv

(* The server answers a request: a fetch for this view gets the list, a      *)
(* change that is done is pending until its answer fetches again.            *)
LEMMA ServeKeeps == ASSUME HomeInv, NEW i \in DOMAIN asks, Serve(i) PROVE HomeInv'
<1>1. PICK r : r = asks[i]
  OBVIOUS
<1>2. PICK x : x = Answered(r)
  OBVIOUS
<1>3. /\ r.ans = None /\ r.as # None /\ rows' = Changed(r)
      /\ asks' = [asks EXCEPT ![i].ans = x]
      /\ view' = view /\ list' = list /\ busy' = busy /\ refetch' = refetch
      /\ orphans' = orphans /\ overtaken' = overtaken /\ user' = user /\ raced' = raced
  BY <1>1, <1>2 DEF Serve, session, storage
<1>4. asks \in Seq(Request) /\ Listed(asks) /\ RowsTyped(rows)
  BY DEF HomeInv, HomeTypes
<1>5. r \in Request /\ user # None
  <2>1. asks # <<>>
    OBVIOUS
  <2> QED BY <1>1, <1>4, <2>1 DEF HomeInv, HomeTypes, Mounted
<1>6. x \in Replies /\ x # Thrown
  BY <1>2, <1>4, AnsweredTyped
<1>7. IsFetch(asks, i) => x \in {None, Refused, Thrown} \cup {Ok(l) : l \in Lists}
  <2>1. Answer(r.as, r.arg) \in Lists
    BY <1>4, AnswerTyped
  <2> QED BY <1>1, <1>2, <2>1 DEF Answered, IsFetch
<1>8. HomeTypes'
  <2>1. asks' \in Seq(Request) /\ Listed(asks')
    BY <1>3, <1>4, <1>6, <1>7, ListedServed
  <2>2. RowsTyped(rows')
    BY <1>3, <1>4, <1>5, ChangedTyped
  <2> QED BY <1>3, <1>5, <2>1, <2>2 DEF HomeInv, HomeTypes, Mounted
<1>9. ASSUME ~overtaken PROVE Unthrown(asks')
  <2>1. Unthrown(asks)
    BY <1>9 DEF HomeInv, ThrowInv
  <2> QED BY <1>3, <1>4, <1>6, <2>1, UnthrownServed, Zenon
<1>10. ASSUME ~overtaken, ~raced
       PROVE  Consistent(asks', view', user', list', refetch', Answer(user, view)')
  <2>1. PICK a : a = Answer(user, view)
    OBVIOUS
  <2>2. PICK b : b = Answer(user, view)'
    OBVIOUS
  <2>3. Consistent(asks, view, user, list, refetch, a)
    BY <1>5, <1>10, <2>1 DEF HomeInv, ListInv, Mounted
  <2>4. rows' = rows => b = a
    BY <1>3, <2>1, <2>2, SameAnswer
  <2>5. CASE IsFetch(asks, i)
    <3>1. r.kind = "fetch" /\ r.arg = view /\ r.as = user /\ view.range \in Open(user)
      BY <1>1, <2>3, <2>5 DEF Consistent, Mine, ThisView, IsFetch
    <3>2. Done(r)
      BY <3>1, Zenon DEF Done
    <3>3. x = Ok(a) /\ rows' = rows
      BY <1>2, <1>3, <2>1, <3>1, <3>2 DEF Answered, Changed
    <3> QED BY <2>4, <3>3, <2>5, <1>1, <1>3, <1>4, <1>6, <2>2, <2>3, Served
  <2>6. CASE ~IsFetch(asks, i) /\ Done(r)
    <3>1. x = Ok(None)
      BY <1>1, <1>2, <2>6 DEF Answered, IsFetch
    <3> QED BY <3>1, <2>6, <1>1, <1>3, <1>4, <1>6, <2>2, <2>3, Served
  <2>7. CASE ~IsFetch(asks, i) /\ ~Done(r)
    <3>1. rows' = rows
      BY <1>3, <2>7 DEF Changed
    <3> QED BY <3>1, <2>4, <2>7, <1>1, <1>3, <1>4, <1>6, <2>2, <2>3, Served
  <2> QED BY <2>5, <2>6, <2>7
<1> QED BY <1>3, <1>8, <1>9, <1>10 DEF HomeInv, ThrowInv, ListInv

LEMMA ThrowKeeps == ASSUME HomeInv, NEW i \in DOMAIN asks, Throw(i) PROVE HomeInv'
<1>1. /\ asks' = [asks EXCEPT ![i].ans = Thrown] /\ overtaken' = TRUE
      /\ view' = view /\ list' = list /\ busy' = busy /\ refetch' = refetch
      /\ orphans' = orphans /\ rows' = rows /\ user' = user
  BY DEF Throw, storage
<1>2. asks \in Seq(Request) /\ Listed(asks) /\ user # None
  <2>1. asks # <<>>
    OBVIOUS
  <2> QED BY <2>1 DEF HomeInv, HomeTypes, Mounted
<1>3. asks' \in Seq(Request) /\ Listed(asks')
  <2>1. Thrown \in Replies /\ Thrown \in {None, Refused, Thrown} \cup {Ok(l) : l \in Lists}
    BY DEF Replies
  <2> QED BY <1>1, <1>2, <2>1, ListedServed
<1>4. HomeTypes'
  BY <1>1, <1>2, <1>3 DEF HomeInv, HomeTypes, Mounted
<1> QED BY <1>1, <1>4 DEF HomeInv, ThrowInv, ListInv

(* The answer of a fetch arrives: it is the list of this view.               *)
LEMMA FetchArrivesKeeps == ASSUME HomeInv, NEW i \in DOMAIN asks, FetchArrives(i) PROVE HomeInv'
<1>1. PICK r : r = asks[i]
  OBVIOUS
<1>2. /\ r.kind = "fetch" /\ r.ans # None /\ IsFetch(asks, i)
      /\ list' = IF r.ans = Thrown THEN list ELSE IF r.ans = Refused THEN <<>> ELSE r.ans.value
      /\ asks' = RemoveAt(asks, i)
      /\ view' = view /\ refetch' = refetch /\ orphans' = orphans /\ rows' = rows
      /\ overtaken' = overtaken /\ user' = user /\ raced' = raced
  BY <1>1 DEF FetchArrives, Rest, IsFetch, session, storage
<1>3. busy' = (busy /\ r.ans = Thrown /\ r.by \notin {"delete", "restore"})
  BY <1>1 DEF FetchArrives, BusyAfter
<1>4. asks \in Seq(Request) /\ Listed(asks) /\ user # None /\ DOMAIN list \subseteq Services
  <2>1. asks # <<>>
    OBVIOUS
  <2> QED BY <2>1 DEF HomeInv, HomeTypes, Mounted
<1>5. HomeTypes'
  <2>1. asks' \in Seq(Request) /\ Listed(asks')
    BY <1>2, <1>4, ListedTaken
  <2>2. DOMAIN list' \subseteq Services
    <3>1. CASE r.ans = Thrown
      BY <1>2, <1>4, <3>1
    <3>2. CASE r.ans = Refused
      <4>1. list' = <<>>
        BY <1>2, <3>2, ReplyFacts
      <4>2. DOMAIN list' = {}
        BY <4>1
      <4> QED BY <4>2
    <3>3. CASE r.ans # Thrown /\ r.ans # Refused
      <4>1. PICK l \in Lists : r.ans = Ok(l)
        BY <1>1, <1>2, <1>4, <3>3 DEF Listed
      <4>2. list' = l
        BY <1>2, <3>3, <4>1, ReplyFacts
      <4> QED BY <4>2 DEF Lists
    <3> QED BY <3>1, <3>2, <3>3
  <2>3. busy' \in BOOLEAN
    BY <1>3
  <2> QED BY <1>2, <1>4, <2>1, <2>2, <2>3 DEF HomeInv, HomeTypes, Mounted
<1>6. ASSUME ~overtaken PROVE Unthrown(asks')
  <2>1. Unthrown(asks)
    BY <1>6 DEF HomeInv, ThrowInv
  <2> QED BY <1>2, <1>4, <2>1, UnthrownTaken, Zenon
<1>7. ASSUME ~overtaken, ~raced
      PROVE  Consistent(asks', view', user', list', refetch', Answer(user, view)')
  <2>1. Consistent(asks, view, user, list, refetch, Answer(user, view))
    BY <1>4, <1>7 DEF HomeInv, ListInv, Mounted
  <2>2. r.ans.status = "ok"
        /\ Consistent(RemoveAt(asks, i), view, user, r.ans.value, refetch, Answer(user, view))
    BY <1>1, <1>2, <1>4, <2>1, FetchTaken
  <2>3. list' = r.ans.value
    BY <1>2, <2>2, ReplyFacts
  <2>4. Answer(user, view)' = Answer(user, view)
    BY <1>2, SameAnswer
  <2> QED BY <1>2, <2>2, <2>3, <2>4, Zenon
<1> QED BY <1>2, <1>5, <1>6, <1>7 DEF HomeInv, ThrowInv, ListInv

(* A change that succeeded fetches again what the page shows; one that       *)
(* failed changed nothing.                                                   *)
LEMMA ChangeArrivesKeeps ==
  ASSUME HomeInv, SessionInv, NEW i \in DOMAIN asks, ChangeArrives(i)
  PROVE  HomeInv'
<1>1. PICK r : r = asks[i]
  OBVIOUS
<1>2. PICK rest : rest = RemoveAt(asks, i)
  OBVIOUS
<1>3. /\ r.kind # "fetch" /\ r.ans # None /\ ~IsFetch(asks, i)
      /\ view' = view /\ list' = list /\ orphans' = orphans /\ rows' = rows
      /\ user' = user /\ raced' = raced
  BY <1>1 DEF ChangeArrives, IsFetch, session, storage
<1>4. asks \in Seq(Request) /\ Listed(asks) /\ user # None /\ refetch \in Views
      /\ busy \in BOOLEAN /\ overtaken \in BOOLEAN
  <2>1. asks # <<>>
    OBVIOUS
  <2> QED BY <2>1 DEF HomeInv, HomeTypes, Mounted
<1>5. rest \in Seq(Request) /\ Listed(rest) /\ r \in Request
  BY <1>1, <1>2, <1>4, ListedTaken
<1>6. ASSUME ~overtaken PROVE Unthrown(asks) /\ r.ans # Thrown
  BY <1>1, <1>6 DEF HomeInv, ThrowInv, Unthrown
<1>7. ASSUME ~overtaken, ~raced
      PROVE  Consistent(asks, view, user, list, refetch, Answer(user, view))
  BY <1>4, <1>7 DEF HomeInv, ListInv, Mounted
<1>8. CASE r.ans.status = "ok"
  <2>1. PICK e : e = Ask("fetch", refetch, r.kind, localToken)
    OBVIOUS
  <2>2. e \in Request /\ e.kind = "fetch" /\ e.arg = refetch /\ e.as = localToken /\ e.ans = None
    <3>1. r.kind \in Senders /\ localToken \in Holders
      BY <1>3, <1>5, RequestFacts DEF Senders, SessionInv, SessionTypes, Holders
    <3> QED BY <1>4, <2>1, <3>1, FetchTyped
  <2>3. refetch' = refetch /\ busy' = TRUE /\ asks' = Append(rest, e)
        /\ overtaken' = (overtaken \/ Fetching(rest) > 0)
    BY <1>1, <1>2, <1>8, <2>1 DEF ChangeArrives, Fetch, ToRefetch, Rest
  <2>4. HomeTypes'
    <3>1. asks' \in Seq(Request) /\ Listed(asks')
      BY <1>5, <2>2, <2>3, ListedSent
    <3>2. busy' \in BOOLEAN /\ overtaken' \in BOOLEAN
      BY <1>4, <2>3
    <3> QED BY <1>3, <1>4, <2>3, <3>1, <3>2 DEF HomeInv, HomeTypes, Mounted
  <2>5. ASSUME ~overtaken' PROVE ~overtaken /\ \A j \in DOMAIN rest : ~IsFetch(rest, j)
    BY <1>5, <2>3, <2>5, FetchingPositive
  <2>6. ASSUME ~overtaken' PROVE Unthrown(asks')
    <3>1. Unthrown(rest)
      BY <1>2, <1>4, <1>6, <2>5, <2>6, UnthrownTaken, Zenon
    <3> QED BY <1>5, <2>2, <2>3, <3>1, UnthrownSent, Zenon
  <2>7. ASSUME ~overtaken', ~raced', NEW a
        PROVE  Consistent(asks', view', user', list', refetch', a)
    <3>1. ~overtaken /\ ~raced /\ localToken = user
      BY <1>3, <1>4, <2>5, <2>7 DEF SessionInv, Owned
    <3>2. Mine(asks, user) /\ refetch = view /\ view.range \in Open(user)
      BY <1>7, <3>1 DEF Consistent
    <3>3. \A j \in DOMAIN rest : \E k \in DOMAIN asks : rest[j] = asks[k]
      BY <1>2, <1>4, RemovedKeeps
    <3>4. Mine(rest, user)
      BY <3>2, <3>3 DEF Mine
    <3>5. Consistent(Append(rest, e), view, user, list, view, a)
      BY <1>5, <2>2, <2>5, <2>7, <3>1, <3>2, <3>4, FetchSent
    <3> QED BY <1>3, <2>3, <3>2, <3>5
  <2> QED BY <2>4, <2>6, <2>7 DEF HomeInv, ThrowInv, ListInv
<1>9. CASE r.ans.status # "ok"
  <2>1. /\ asks' = rest /\ refetch' = refetch /\ overtaken' = overtaken
        /\ busy' = IF r.kind = "create" \/ (r.kind = "restore" /\ r.ans = Thrown) THEN busy ELSE FALSE
    BY <1>1, <1>2, <1>9 DEF ChangeArrives, Rest
  <2>2. busy' \in BOOLEAN
    BY <1>4, <2>1
  <2>3. HomeTypes'
    BY <1>3, <1>4, <1>5, <2>1, <2>2 DEF HomeInv, HomeTypes, Mounted
  <2>4. ASSUME ~overtaken PROVE Unthrown(asks')
    <3>1. Unthrown(asks)
      BY <1>6, <2>4
    <3> QED BY <1>2, <1>4, <2>1, <3>1, UnthrownTaken, Zenon
  <2>5. ASSUME ~overtaken, ~raced
        PROVE  Consistent(asks', view', user', list', refetch', Answer(user, view)')
    <3>1. asks[i].ans # Ok(None)
      BY <1>1, <1>9, ReplyFacts
    <3>2. Consistent(rest, view, user, list, refetch, Answer(user, view))
      BY <1>2, <1>3, <1>4, <1>7, <2>5, <3>1, ChangeTaken
    <3>3. Answer(user, view)' = Answer(user, view)
      BY <1>3, SameAnswer
    <3> QED BY <1>3, <2>1, <3>2, <3>3, Zenon
  <2> QED BY <1>3, <2>1, <2>3, <2>4, <2>5 DEF HomeInv, ThrowInv, ListInv
<1> QED BY <1>8, <1>9

(* A change of a page that is gone is served.                                *)
LEMMA OrphanKeeps == ASSUME HomeInv, ServeOrphan PROVE HomeInv'
<1>1. PICK r \in orphans :
        /\ r.as # None /\ rows' = Changed(r) /\ orphans' = orphans \ {r}
        /\ overtaken' = (overtaken \/ (Mounted /\ rows' # rows))
        /\ UNCHANGED <<session, view, list, busy, refetch, asks, clicks, threw>>
  BY DEF ServeOrphan
<1>2. /\ view' = view /\ list' = list /\ busy' = busy /\ refetch' = refetch /\ asks' = asks
      /\ user' = user /\ raced' = raced
  BY <1>1 DEF session, storage
<1>3. HomeTypes'
  <2>1. r \in Request /\ RowsTyped(rows)
        /\ overtaken \in BOOLEAN
    BY <1>1 DEF HomeInv, HomeTypes, Request
  <2>2. RowsTyped(rows')
    BY <1>1, <2>1, ChangedTyped
  <2>3. overtaken' \in BOOLEAN /\ orphans' \subseteq ChangeRequest
    BY <1>1, <2>1 DEF HomeInv, HomeTypes
  <2>4. Listed(asks')
    BY <1>2 DEF HomeInv, HomeTypes
  <2> QED BY <1>2, <2>2, <2>3, <2>4 DEF HomeInv, HomeTypes, Mounted
<1>4. ASSUME ~overtaken' PROVE ~overtaken /\ (Mounted => rows' = rows)
  BY <1>1, <1>4
<1>5. ThrowInv'
  BY <1>2, <1>4 DEF HomeInv, ThrowInv
<1>6. ASSUME Mounted', ~overtaken', ~raced'
      PROVE  Consistent(asks', view', user', list', refetch', Answer(user, view)')
  <2>1. Mounted /\ ~overtaken /\ ~raced /\ rows' = rows
    BY <1>2, <1>4, <1>6 DEF Mounted
  <2>2. Consistent(asks, view, user, list, refetch, Answer(user, view))
    BY <2>1 DEF HomeInv, ListInv
  <2>3. Answer(user, view)' = Answer(user, view)
    BY <1>2, <2>1, SameAnswer
  <2> QED BY <1>2, <2>2, <2>3, Zenon
<1> QED BY <1>3, <1>5, <1>6 DEF HomeInv, ListInv

(* Every step keeps the invariant of the list.                               *)
LEMMA HomeStep ==
  ASSUME HomeInv, SessionInv, SessionInv', [Next]_vars
  PROVE  HomeInv'
<1>0. view \in Views /\ DOMAIN list \subseteq Services
  BY DEF HomeInv, HomeTypes
<1>1. CASE SessionNext /\ Follow
  BY <1>1, FollowKeeps
<1>2. CASE (PressReload /\ Remount) \/ ListUnauthorized
  BY <1>2, RemountKeeps DEF ListUnauthorized
<1>3. CASE SelectTab
  <2>1. PICK q \in Open(user) \ {view.range, "HisServices"} :
          /\ Click /\ view' = [view EXCEPT !.range = q, !.page = 1]
          /\ Fetch([view EXCEPT !.range = q, !.page = 1], asks, "effect") /\ UNCHANGED list
    BY <1>3 DEF SelectTab
  <2>2. PICK v : v = [view EXCEPT !.range = q, !.page = 1]
    OBVIOUS
  <2>3. q \in Ranges
    BY DEF Open
  <2>4. v \in Views /\ v.range = q
    <3>1. 1 \in 1 .. MaxPage
      BY PagesStart
    <3>2. PICK w : w = [view EXCEPT !.range = q]
      OBVIOUS
    <3>3. w \in Views /\ w.range = q
      BY <1>0, <2>3, <3>2 DEF Views
    <3>4. v = [w EXCEPT !.page = 1]
      BY <2>2, <3>2
    <3> QED BY <3>1, <3>3, <3>4 DEF Views
  <2> QED BY <2>1, <2>2, <2>4, ViewFetched
<1>4. CASE SelectHis
  <2>1. PICK owner \in Accounts \cup {None} :
          /\ Click /\ view' = [range |-> "HisServices", page |-> 1, his |-> owner]
          /\ Fetch([range |-> "HisServices", page |-> 1, his |-> owner], asks, "effect")
          /\ UNCHANGED list
    BY <1>4 DEF SelectHis
  <2>2. PICK v : v = [range |-> "HisServices", page |-> 1, his |-> owner]
    OBVIOUS
  <2>3. v \in Views /\ v.range = "HisServices"
    BY <2>2, PagesStart DEF Views, Ranges
  <2>4. "HisServices" \in Open(user)
    BY <1>4 DEF SelectHis
  <2> QED BY <2>1, <2>2, <2>3, <2>4, ViewFetched
<1>5. CASE handlePageChange
  <2>1. PICK p \in (1 .. MaxPage) \ {view.page} :
          /\ Click /\ view' = [view EXCEPT !.page = p]
          /\ Fetch([view EXCEPT !.page = p], asks, "effect") /\ UNCHANGED list
    BY <1>5 DEF handlePageChange
  <2>2. PICK v : v = [view EXCEPT !.page = p]
    OBVIOUS
  <2>3. v \in Views /\ v.range = view.range
    BY <1>0, <2>2 DEF Views
  <2>4. ~overtaken /\ ~raced => v.range \in Open(user)
    BY <2>1, <2>3 DEF Click, HomeInv, ListInv, Consistent
  <2> QED BY <2>1, <2>2, <2>3, <2>4, ViewFetched
<1>6. CASE handleDeleteOrRestore
  <2>1. PICK s \in DOMAIN list :
          /\ Click /\ busy' = TRUE /\ UNCHANGED <<view, list, refetch, overtaken>>
          /\ asks' = Append(asks, Ask(IF list[s] THEN "restore" ELSE "delete", s, "user", localToken))
    BY <1>6 DEF handleDeleteOrRestore
  <2>2. PICK kind \in {"delete", "restore"} : kind = IF list[s] THEN "restore" ELSE "delete"
    OBVIOUS
  <2>3. kind \in {"delete", "restore", "create"} /\ kind # "create" /\ s \in Services /\ busy' \in BOOLEAN
    BY <1>0, <2>1
  <2> QED BY <2>1, <2>2, <2>3, ChangeClicked
<1>7. CASE handleCreateService
  <2>1. PICK s \in Services \ DOMAIN rows :
          /\ Click /\ UNCHANGED <<view, list, busy, refetch, overtaken>>
          /\ asks' = Append(asks, Ask("create", s, "user", localToken))
    BY <1>7 DEF handleCreateService
  <2>2. busy' = busy /\ busy' \in BOOLEAN
    BY <2>1 DEF HomeInv, HomeTypes
  <2>3. UNCHANGED <<view, list, refetch, overtaken>> /\ s \in Services
    BY <2>1
  <2> QED BY <2>1, <2>2, <2>3, ChangeClicked
<1>8. ASSUME NEW i \in DOMAIN asks, Serve(i) \/ Throw(i) \/ FetchArrives(i) \/ ChangeArrives(i)
      PROVE  HomeInv'
  BY <1>8, ServeKeeps, ThrowKeeps, FetchArrivesKeeps, ChangeArrivesKeeps
<1>9. CASE ServeOrphan
  BY <1>9, OrphanKeeps
<1>10. CASE UNCHANGED vars
  <2>1. UNCHANGED <<rows, view, list, busy, refetch, asks, orphans, overtaken, user, raced>>
    BY <1>10 DEF vars, listVars, session, storage
  <2> QED BY <2>1, ListSame
<1> QED BY <1>1, <1>2, <1>3, <1>4, <1>5, <1>6, <1>7, <1>8, <1>9, <1>10 DEF Next

(* The invariants of the session and of the list hold always.                *)
LEMMA HomeInductive == Spec => [](SessionInv /\ FormInv /\ HomeInv)
<1>1. Init => HomeInv
  BY HomeInitially
<1>2. SessionInv /\ SessionInv' /\ HomeInv /\ [Next]_vars => HomeInv'
  BY HomeStep
<1> QED BY <1>1, <1>2, SessionTyped, PTL DEF Spec

(* The types of the session and of the list, for any accounts and services:  *)
(* the login form waits for one request, and without a user the page has no  *)
(* list, no request and no spinner (useUser.tsx, LoggedInView.tsx).          *)
THEOREM TypeCorrect == Spec => []TypeOK
<1>1. SessionInv /\ FormInv /\ HomeInv => TypeOK
  <2> SUFFICES ASSUME SessionInv, FormInv, HomeInv PROVE TypeOK
    OBVIOUS
  <2>1. SessionTypeOK
    BY DEF SessionInv, SessionTypes, FormInv, Forms, SessionTypeOK
  <2>2. view.range \in Ranges /\ view.page \in 1 .. MaxPage
    BY DEF HomeInv, HomeTypes, Views
  <2>3. DOMAIN list \subseteq Services /\ (~Mounted => list = <<>> /\ asks = <<>> /\ ~busy)
    BY DEF HomeInv, HomeTypes
  <2> QED BY <2>1, <2>2, <2>3 DEF TypeOK
<1> QED BY <1>1, HomeInductive, PTL

------------------------------------------------------------------------------
(* The spinner of the list.                                                  *)

(* Of the requests a spinner can wait for, a creation is not one: refused,   *)
(* it leaves the spinner as it is.                                           *)
Waits(s) == \E i \in DOMAIN s : s[i].kind # "create"
SpinnerInv == busy /\ ~threw => Waits(asks)

LEMMA WaitsSent ==
  ASSUME NEW s \in Seq(Request), NEW e \in Request, Waits(s) \/ e.kind # "create"
  PROVE  Waits(Append(s, e))
<1> DEFINE t == Append(s, e)
<1>1. /\ DOMAIN t = DOMAIN s \cup {Len(s) + 1} /\ t[Len(s) + 1] = e
      /\ \A j \in DOMAIN s : t[j] = s[j]
  BY AppendFacts
<1> HIDE DEF t
<1> QED BY <1>1 DEF Waits, t

LEMMA WaitsServed ==
  ASSUME NEW s \in Seq(Request), NEW i \in DOMAIN s, NEW x \in Replies, Waits(s)
  PROVE  Waits([s EXCEPT ![i].ans = x])
<1> DEFINE t == [s EXCEPT ![i].ans = x]
<1>1. /\ DOMAIN t = DOMAIN s /\ t[i].kind = s[i].kind
      /\ \A j \in DOMAIN s \ {i} : t[j] = s[j]
  BY ExceptFacts
<1> HIDE DEF t
<1> QED BY <1>1 DEF Waits, t

LEMMA WaitsTaken ==
  ASSUME NEW s \in Seq(Request), NEW i \in DOMAIN s, Waits(s), s[i].kind = "create"
  PROVE  Waits(RemoveAt(s, i))
<1> DEFINE t == RemoveAt(s, i)
<1>1. \A k \in DOMAIN s : k # i => \E j \in DOMAIN t : t[j] = s[k]
  BY RemovedKeeps
<1> HIDE DEF t
<1> QED BY <1>1 DEF Waits, t

LEMMA SpinnerSame ==
  ASSUME SpinnerInv, UNCHANGED <<busy, asks, threw>> PROVE SpinnerInv'
BY DEF SpinnerInv, Waits

(* A page that appears waits for its first fetch.                            *)
LEMMA SpinnerRemount ==
  ASSUME Remount PROVE SpinnerInv'
<1>1. PICK e : e = Ask("fetch", FirstView, "effect", localToken')
  OBVIOUS
<1>2. e.kind = "fetch"
  BY <1>1 DEF Ask
<1>3. busy' = (user' # None) /\ asks' = IF user' # None THEN <<e>> ELSE <<>>
  BY <1>1 DEF Remount
<1>4. ASSUME user' # None PROVE Waits(asks')
  <2>1. asks' = <<e>>
    BY <1>3, <1>4
  <2>2. 1 \in DOMAIN asks' /\ asks'[1] = e
    BY <2>1
  <2> QED BY <1>2, <2>2 DEF Waits
<1> QED BY <1>3, <1>4 DEF SpinnerInv, Waits

LEMMA SpinnerSent ==
  ASSUME HomeInv, SessionInv, SpinnerInv, NEW e \in Request, asks' = Append(asks, e),
         threw' = threw, busy' => busy \/ e.kind # "create"
  PROVE  SpinnerInv'
<1>1. asks \in Seq(Request)
  BY DEF HomeInv, HomeTypes
<1>2. ASSUME busy', ~threw' PROVE Waits(asks')
  <2>1. Waits(asks) \/ e.kind # "create"
    BY <1>2 DEF SpinnerInv
  <2>2. Waits(Append(asks, e))
    BY <1>1, <2>1, WaitsSent
  <2> QED BY <2>2
<1> QED BY <1>2 DEF SpinnerInv, Waits

(* An answer: a fetch that is answered clears the spinner and a refused      *)
(* change too, but for a creation; a change that is done fetches.            *)
LEMMA SpinnerArrives ==
  ASSUME HomeInv, SessionInv, SpinnerInv, NEW i \in DOMAIN asks, FetchArrives(i) \/ ChangeArrives(i)
  PROVE  SpinnerInv'
<1>0. asks \in Seq(Request) /\ refetch \in Views /\ asks[i] \in Request
  <2>1. asks # <<>>
    OBVIOUS
  <2> QED BY <2>1 DEF HomeInv, HomeTypes
<1>1. CASE FetchArrives(i)
  BY <1>1 DEF FetchArrives, BusyAfter, SpinnerInv
<1>2. CASE ChangeArrives(i) /\ asks[i].ans.status = "ok"
  <2>1. PICK e : e = Ask("fetch", refetch, asks[i].kind, localToken)
    OBVIOUS
  <2>2. asks' = Append(RemoveAt(asks, i), e) /\ asks[i].kind # "fetch"
    BY <1>2, <2>1 DEF ChangeArrives, Fetch, ToRefetch, Rest
  <2>3. e \in Request /\ e.kind = "fetch"
    <3>1. asks[i].kind \in Senders /\ localToken \in Holders
      BY <1>0, <2>2, RequestFacts DEF Senders, SessionInv, SessionTypes, Holders
    <3> QED BY <1>0, <2>1, <3>1, FetchTyped
  <2>4. RemoveAt(asks, i) \in Seq(Request) /\ e.kind # "create"
    BY <1>0, <2>3, ListedTaken DEF HomeInv, HomeTypes
  <2>5. Waits(Append(RemoveAt(asks, i), e))
    BY <2>3, <2>4, WaitsSent
  <2>6. Waits(asks')
    BY <2>2, <2>5
  <2> QED BY <2>6 DEF SpinnerInv, Waits
<1>3. CASE ChangeArrives(i) /\ asks[i].ans.status # "ok"
  <2>1. /\ asks' = RemoveAt(asks, i)
        /\ busy' = IF asks[i].kind = "create" \/ (asks[i].kind = "restore" /\ asks[i].ans = Thrown)
                   THEN busy ELSE FALSE
        /\ threw' = (threw \/ asks[i].ans = Thrown)
    BY <1>3 DEF ChangeArrives, Rest
  <2>2. ASSUME busy', ~threw' PROVE Waits(asks')
    <3>1. asks[i].kind = "create" /\ Waits(asks)
      BY <2>1, <2>2 DEF SpinnerInv
    <3>2. Waits(RemoveAt(asks, i))
      BY <1>0, <3>1, WaitsTaken
    <3> QED BY <2>1, <3>2
  <2> QED BY <2>2 DEF SpinnerInv, Waits
<1> QED BY <1>1, <1>2, <1>3

LEMMA SpinnerStep ==
  ASSUME HomeInv, SessionInv, SpinnerInv, [Next]_vars
  PROVE  SpinnerInv'
<1>0. view \in Views /\ DOMAIN list \subseteq Services /\ asks \in Seq(Request)
  BY DEF HomeInv, HomeTypes
<1>1. CASE SessionNext /\ Follow
  <2>1. CASE Mounted /\ user' # None
    BY <1>1, <2>1, SpinnerSame DEF Follow, listVars
  <2>2. CASE ~(Mounted /\ user' # None)
    BY <1>1, <2>2, SpinnerRemount DEF Follow
  <2> QED BY <2>1, <2>2
<1>2. CASE (PressReload /\ Remount) \/ ListUnauthorized
  BY <1>2, SpinnerRemount DEF ListUnauthorized
<1>3. CASE SelectTab \/ SelectHis \/ handlePageChange
  <2>1. PICK v : Click /\ view' = v /\ Fetch(v, asks, "effect")
    BY <1>3 DEF SelectTab, SelectHis, handlePageChange
  <2>2. busy' = TRUE /\ threw' = threw /\ asks' = Append(asks, Ask("fetch", v, "effect", localToken))
    BY <2>1 DEF Fetch, Click
  <2>3. PICK e : e = Ask("fetch", v, "effect", localToken)
    OBVIOUS
  <2>4. e.kind = "fetch" /\ asks' = Append(asks, e)
    BY <2>2, <2>3 DEF Ask
  <2>5. Len(asks) + 1 \in DOMAIN asks' /\ asks'[Len(asks) + 1] = e
    BY <1>0, <2>4
  <2> QED BY <2>4, <2>5 DEF SpinnerInv, Waits
<1>4. CASE handleDeleteOrRestore
  <2>1. PICK s \in DOMAIN list :
          /\ Click
          /\ asks' = Append(asks, Ask(IF list[s] THEN "restore" ELSE "delete", s, "user", localToken))
    BY <1>4 DEF handleDeleteOrRestore
  <2>2. PICK kind \in {"delete", "restore"} : kind = IF list[s] THEN "restore" ELSE "delete"
    OBVIOUS
  <2>3. PICK e : e = Ask(kind, s, "user", localToken)
    OBVIOUS
  <2>4. e.kind # "create" /\ asks' = Append(asks, e)
    BY <2>1, <2>2, <2>3 DEF Ask
  <2>5. Len(asks) + 1 \in DOMAIN asks' /\ asks'[Len(asks) + 1] = e
    BY <1>0, <2>4
  <2> QED BY <2>4, <2>5 DEF SpinnerInv, Waits
<1>5. CASE handleCreateService
  <2>1. PICK s \in Services \ DOMAIN rows :
          Click /\ busy' = busy /\ asks' = Append(asks, Ask("create", s, "user", localToken))
    BY <1>5 DEF handleCreateService
  <2>2. PICK e : e = Ask("create", s, "user", localToken)
    OBVIOUS
  <2>3. e \in Request /\ asks' = Append(asks, e) /\ threw' = threw
    <3>1. localToken \in Holders
      BY DEF SessionInv, SessionTypes, Holders
    <3> QED BY <2>1, <2>2, <3>1, ChangeTyped DEF Click
  <2> QED BY <2>1, <2>3, SpinnerSent
<1>6. ASSUME NEW i \in DOMAIN asks, Serve(i) \/ Throw(i) PROVE SpinnerInv'
  <2>1. PICK x \in Replies : asks' = [asks EXCEPT ![i].ans = x]
    <3>1. CASE Serve(i)
      <4>1. Answered(asks[i]) \in Replies
        BY <1>0, AnsweredTyped DEF HomeInv, HomeTypes
      <4> QED BY <3>1, <4>1 DEF Serve
    <3>2. CASE Throw(i)
      BY <3>2 DEF Throw, Replies
    <3> QED BY <1>6, <3>1, <3>2
  <2>2. busy' = busy /\ threw' = threw
    BY <1>6 DEF Serve, Throw
  <2>3. Waits(asks) => Waits(asks')
    BY <1>0, <2>1, WaitsServed
  <2> QED BY <2>2, <2>3 DEF SpinnerInv, Waits
<1>7. ASSUME NEW i \in DOMAIN asks, FetchArrives(i) \/ ChangeArrives(i) PROVE SpinnerInv'
  BY <1>7, SpinnerArrives
<1>8. CASE ServeOrphan
  BY <1>8, SpinnerSame DEF ServeOrphan
<1>9. CASE UNCHANGED vars
  BY <1>9, SpinnerSame DEF vars, listVars
<1> QED BY <1>1, <1>2, <1>3, <1>4, <1>5, <1>6, <1>7, <1>8, <1>9 DEF Next

(* While no exception reached the page since the last fetch that was         *)
(* answered, the spinner of the service list turns only while a request is   *)
(* out, for any interleaving of tabs, pages, overlapping fetches, changes    *)
(* and reloads (useService.tsx).                                             *)
THEOREM BusyAwaitsAlways == Spec => []BusyAwaits
<1>1. Init => SpinnerInv
  BY DEF Init, SpinnerInv
<1>2. HomeInv /\ SessionInv /\ SpinnerInv /\ [Next]_vars => SpinnerInv'
  BY SpinnerStep
<1>3. SpinnerInv => BusyAwaits
  <2> SUFFICES ASSUME SpinnerInv, busy, ~threw PROVE asks # <<>>
    BY DEF BusyAwaits
  <2>1. \E i \in DOMAIN asks : asks[i].kind # "create"
    BY DEF SpinnerInv, Waits
  <2> QED BY <2>1
<1> QED BY <1>1, <1>2, <1>3, HomeInductive, PTL DEF Spec

(* When all answers are in, the table shows the server's list for the tab,   *)
(* the page and the account on the screen, for any interleaving of clicks,   *)
(* changes, sign-ins and reloads in which no request throws, no two fetches  *)
(* are in flight, no change outlives its page and the session does not       *)
(* change under the page (refetchRef).                                       *)
THEOREM ListCurrentAlways == Spec => []ListCurrent
<1>1. HomeInv => ListCurrent
  <2> SUFFICES ASSUME HomeInv, Mounted, asks = <<>>, ~overtaken, ~raced
               PROVE  list = Answer(user, view)
    BY DEF ListCurrent
  <2>1. Consistent(asks, view, user, list, refetch, Answer(user, view))
    BY DEF HomeInv, ListInv
  <2>2. DOMAIN asks = {}
    OBVIOUS
  <2> QED BY <2>1, <2>2 DEF Consistent, Pending, Shows
<1> QED BY <1>1, HomeInductive, PTL
===============================================================================
