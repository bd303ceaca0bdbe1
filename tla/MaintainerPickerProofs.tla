------------------------ MODULE MaintainerPickerProofs ------------------------
(* Proofs about the maintainer menu, for any users and searches and any      *)
(* number of inputs, failures and other administrators.                      *)
EXTENDS MaintainerPicker, TLAPS, SequenceTheorems

------------------------------------------------------------------------------
(* The inductive invariant.                                                  *)
Switch == [user : Users, add : BOOLEAN]

Request ==
  [kind : {"search", "check", "toggle"}, arg : Seq(Users) \cup Switch,
   ans : {"", "ok", "yes", "no", "failed"}, mount : BOOLEAN]

(* A toggle has the user clicked on, a search the users it will find, and a  *)
(* check those that are still to be checked.                                 *)
GoodArg(r) ==
  /\ r.kind = "toggle" => r.arg \in Switch
  /\ r.kind # "toggle" => r.arg \in Seq(Users)
  /\ r.kind = "check" => r.arg # <<>>

NetOK(s) == s \in Seq(Request) /\ \A i \in DOMAIN s : GoodArg(s[i])

TypedOK == typed = <<>> \/ \E q \in Queries \cup {Short} : typed = <<q>>

(* The toggle this mount of the header has sent, if there is one: the menu   *)
(* is blocked meanwhile, so there is at most one.                            *)
Clicked(r) == r.kind = "toggle" /\ r.mount

OneClick(s) == \A i, j \in DOMAIN s : Clicked(s[i]) /\ Clicked(s[j]) => i = j
NoClick(s) == \A i \in DOMAIN s : ~Clicked(s[i])

(* While nothing of what makes the list stale has happened: a user checked   *)
(* as a maintainer still is one; a toggle not yet served will do what the    *)
(* page showed, one that is served answers what is so; and the list is right *)
(* about everybody but the user of a toggle that is answered.                *)
Checked(r, who) == r.kind = "check" /\ r.ans = "yes" => Head(r.arg) \in who

Settled(r, who) ==
  Clicked(r) =>
    /\ r.ans = "" => (r.arg.add <=> r.arg.user \notin who)
    /\ r.ans # "" => (r.ans = "yes" <=> r.arg.user \in who)

Fits(s, who) == \A i \in DOMAIN s : Checked(s[i], who) /\ Settled(s[i], who)

About(r, u) == Clicked(r) /\ r.ans # "" /\ r.arg.user = u

Pending(s, u) == \E i \in DOMAIN s : About(s[i], u)

Lists(here, s, who) == \A u \in Users : (here[u] > 0 <=> u \in who) \/ Pending(s, u)

Agree == Fits(net, maintainers) /\ Lists(maintainersHere, net, maintainers)

PickInv ==
  /\ TypeOK /\ NetOK(net) /\ TypedOK /\ stale \in BOOLEAN
  /\ OneClick(net) /\ (~switchLoading => NoClick(net))
  /\ ~stale => Agree

------------------------------------------------------------------------------
(* Requests in flight.                                                       *)

(* Taking one away keeps the others, in their order.                         *)
Shift(i, j) == IF j < i THEN j ELSE j + 1

LEMMA Removed ==
  ASSUME NEW s \in Seq(Request), NEW i \in DOMAIN s
  PROVE  /\ RemoveAt(s, i) \in Seq(Request)
         /\ \A j \in DOMAIN RemoveAt(s, i) :
              Shift(i, j) \in DOMAIN s \ {i} /\ RemoveAt(s, i)[j] = s[Shift(i, j)]
         /\ \A j, k \in DOMAIN RemoveAt(s, i) : Shift(i, j) = Shift(i, k) => j = k
         /\ \A k \in DOMAIN s \ {i} : \E j \in DOMAIN RemoveAt(s, i) : k = Shift(i, j)
<1> DEFINE a == SubSeq(s, 1, i - 1)
           b == SubSeq(s, i + 1, Len(s))
           r == RemoveAt(s, i)
<1>0. i \in 1 .. Len(s) /\ Len(s) \in Nat
  BY LenProperties
<1>1. a \in Seq(Request) /\ Len(a) = i - 1 /\ \A j \in 1 .. i - 1 : a[j] = s[j]
  BY <1>0
<1>2. b \in Seq(Request) /\ Len(b) = Len(s) - i /\ \A j \in 1 .. Len(s) - i : b[j] = s[i + j]
  BY <1>0
<1>3. r = a \o b
  BY DEF RemoveAt
<1> HIDE DEF a, b, r
<1>4. r \in Seq(Request) /\ DOMAIN r = 1 .. Len(s) - 1
  BY <1>0, <1>1, <1>2, <1>3
<1>5. ASSUME NEW j \in DOMAIN r PROVE Shift(i, j) \in DOMAIN s \ {i} /\ r[j] = s[Shift(i, j)]
  <2>0. j \in 1 .. Len(s) - 1
    BY <1>4
  <2>1. CASE j < i
    BY <1>0, <1>1, <1>2, <1>3, <2>0, <2>1 DEF Shift
  <2>2. CASE ~(j < i)
    <3>1. r[j] = b[j - (i - 1)]
      BY <1>0, <1>1, <1>2, <1>3, <2>0, <2>2
    <3>2. b[j - (i - 1)] = s[i + (j - (i - 1))]
      BY <1>0, <1>2, <2>0, <2>2, SMTT(30)
    <3>3. i + (j - (i - 1)) = j + 1 /\ j + 1 \in DOMAIN s \ {i}
      BY <1>0, <2>0, <2>2
    <3> QED BY <2>2, <3>1, <3>2, <3>3 DEF Shift
  <2> QED BY <2>1, <2>2
<1>6. \A j, k \in DOMAIN r : Shift(i, j) = Shift(i, k) => j = k
  BY <1>0, <1>4 DEF Shift
<1>7. ASSUME NEW k \in DOMAIN s \ {i} PROVE \E j \in DOMAIN r : k = Shift(i, j)
  <2>0. k \in 1 .. Len(s) /\ k # i
    BY <1>0
  <2>1. CASE k < i
    BY <1>0, <1>4, <2>0, <2>1 DEF Shift
  <2>2. CASE ~(k < i)
    <3>1. k - 1 \in DOMAIN r /\ k = Shift(i, k - 1)
      BY <1>0, <1>4, <2>0, <2>2 DEF Shift
    <3> QED BY <3>1
  <2> QED BY <2>1, <2>2
<1> QED BY <1>4, <1>5, <1>6, <1>7 DEF r

LEMMA Appended ==
  ASSUME NEW s \in Seq(Request), NEW r \in Request
  PROVE  /\ Append(s, r) \in Seq(Request)
         /\ DOMAIN Append(s, r) = DOMAIN s \cup {Len(s) + 1}
         /\ Append(s, r)[Len(s) + 1] = r
         /\ \A j \in DOMAIN s : j # Len(s) + 1 /\ Append(s, r)[j] = s[j]
BY LenProperties

Answers == {"ok", "yes", "no", "failed"}

(* A request that is answered differs in its answer only.                    *)
WithAnswer(s, i, x) == [s EXCEPT ![i].ans = x]

------------------------------------------------------------------------------
(* What an arrival, a request sent and an answer keep of the invariant.      *)
LEMMA RemoveKeeps ==
  ASSUME NEW s, NetOK(s), OneClick(s), NEW i \in DOMAIN s, NEW r, r = RemoveAt(s, i)
  PROVE  /\ NetOK(r) /\ OneClick(r)
         /\ NoClick(s) \/ Clicked(s[i]) => NoClick(r)
         /\ \A who : Fits(s, who) => Fits(r, who)
         /\ \A u : Pending(s, u) /\ ~About(s[i], u) => Pending(r, u)
<1>0. s \in Seq(Request)
  BY DEF NetOK
<1>1. /\ r \in Seq(Request)
      /\ \A j \in DOMAIN r : Shift(i, j) \in DOMAIN s \ {i} /\ r[j] = s[Shift(i, j)]
      /\ \A j, k \in DOMAIN r : Shift(i, j) = Shift(i, k) => j = k
      /\ \A k \in DOMAIN s \ {i} : \E j \in DOMAIN r : k = Shift(i, j)
  BY <1>0, Removed
<1>2. NetOK(r)
  BY <1>1 DEF NetOK
<1>3. OneClick(r) /\ (NoClick(s) \/ Clicked(s[i]) => NoClick(r))
  BY <1>1 DEF OneClick, NoClick
<1>4. ASSUME NEW who, Fits(s, who) PROVE Fits(r, who)
  BY <1>1, <1>4 DEF Fits
<1>5. ASSUME NEW u, Pending(s, u), ~About(s[i], u) PROVE Pending(r, u)
  <2>1. PICK k \in DOMAIN s : About(s[k], u)
    BY <1>5 DEF Pending
  <2>2. PICK j \in DOMAIN r : k = Shift(i, j)
    BY <1>1, <1>5, <2>1
  <2> QED BY <1>1, <2>1, <2>2 DEF Pending
<1> QED BY <1>2, <1>3, <1>4, <1>5

LEMMA AppendKeeps ==
  ASSUME NEW s, NetOK(s), NEW r \in Request, GoodArg(r), NEW t, t = Append(s, r)
  PROVE  /\ NetOK(t)
         /\ OneClick(s) /\ (~Clicked(r) \/ NoClick(s)) => OneClick(t)
         /\ NoClick(s) /\ ~Clicked(r) => NoClick(t)
         /\ \A who : Fits(s, who) /\ Checked(r, who) /\ Settled(r, who) => Fits(t, who)
         /\ \A u : Pending(s, u) => Pending(t, u)
<1>0. s \in Seq(Request)
  BY DEF NetOK
<1>1. PICK n :
        /\ t \in Seq(Request) /\ DOMAIN t = DOMAIN s \cup {n} /\ t[n] = r
        /\ \A j \in DOMAIN s : j # n /\ t[j] = s[j]
  BY <1>0, Appended
<1>2. NetOK(t)
  BY <1>1 DEF NetOK
<1>3. OneClick(s) /\ (~Clicked(r) \/ NoClick(s)) => OneClick(t)
  BY <1>1 DEF OneClick, NoClick
<1>4. NoClick(s) /\ ~Clicked(r) => NoClick(t)
  BY <1>1 DEF NoClick
<1>5. \A who : Fits(s, who) /\ Checked(r, who) /\ Settled(r, who) => Fits(t, who)
  BY <1>1 DEF Fits
<1>6. \A u : Pending(s, u) => Pending(t, u)
  BY <1>1 DEF Pending
<1> QED BY <1>2, <1>3, <1>4, <1>5, <1>6

LEMMA AnswerKeeps ==
  ASSUME NEW s, NetOK(s), OneClick(s), NEW i \in DOMAIN s,
         NEW x \in Answers, NEW t, t = WithAnswer(s, i, x)
  PROVE  /\ NetOK(t) /\ OneClick(t) /\ (NoClick(s) => NoClick(t))
         /\ DOMAIN t = DOMAIN s /\ \A j \in DOMAIN s : j # i => t[j] = s[j]
         /\ t[i].ans = x /\ t[i].kind = s[i].kind /\ t[i].arg = s[i].arg
         /\ t[i].mount = s[i].mount
         /\ \A u : Pending(s, u) => Pending(t, u)
<1>0. s \in Seq(Request)
  BY DEF NetOK
<1>1. /\ t \in Seq(Request)
      /\ DOMAIN t = DOMAIN s /\ \A j \in DOMAIN s : j # i => t[j] = s[j]
      /\ t[i].ans = x /\ t[i].kind = s[i].kind /\ t[i].arg = s[i].arg
      /\ t[i].mount = s[i].mount
  <2>1. s[i] \in Request /\ i \in 1 .. Len(s)
    BY <1>0, LenProperties, ElementOfSeq
  <2>2. PICK r : r = [s[i] EXCEPT !.ans = x]
    OBVIOUS
  <2>3. /\ r \in Request /\ r.ans = x /\ r.kind = s[i].kind /\ r.arg = s[i].arg
        /\ r.mount = s[i].mount
    BY <2>1, <2>2 DEF Request, Answers
  <2>4. t = [s EXCEPT ![i] = r]
    BY <2>2 DEF WithAnswer
  <2>5. t \in Seq(Request)
    BY <1>0, <2>1, <2>3, <2>4, ExceptSeq
  <2> QED BY <1>0, <2>3, <2>4, <2>5
<1>2. \A j \in DOMAIN s : Clicked(t[j]) <=> Clicked(s[j])
  BY <1>1 DEF Clicked
<1>3. NetOK(t)
  BY <1>1 DEF NetOK, GoodArg
<1>4. OneClick(t) /\ (NoClick(s) => NoClick(t))
  BY <1>1, <1>2 DEF OneClick, NoClick
<1>5. \A u : Pending(s, u) => Pending(t, u)
  BY <1>1, <1>2 DEF Pending, About, Answers
<1> QED BY <1>1, <1>3, <1>4, <1>5

------------------------------------------------------------------------------
(* The steps.                                                                *)
IsTyped(t) == t = <<>> \/ \E q \in Queries \cup {Short} : t = <<q>>

LEMMA Facts ==
  ASSUME PickInv
  PROVE  /\ maintainers \subseteq Users \ {Owner} /\ maintainersHere \in [Users -> Nat]
         /\ options \subseteq Users /\ switchLoading \in BOOLEAN /\ stale \in BOOLEAN
         /\ IsTyped(typed) /\ NetOK(net) /\ OneClick(net)
         /\ ~switchLoading => NoClick(net)
         /\ ~stale => Fits(net, maintainers) /\ Lists(maintainersHere, net, maintainers)
BY DEF PickInv, TypeOK, TypedOK, IsTyped, Agree

LEMMA Rebuild ==
  ASSUME maintainers' \subseteq Users \ {Owner}, maintainersHere' \in [Users -> Nat],
         options' \subseteq Users, switchLoading' \in BOOLEAN, stale' \in BOOLEAN,
         IsTyped(typed'), NetOK(net'), OneClick(net'),
         ~switchLoading' => NoClick(net'),
         ~stale' => Fits(net', maintainers') /\ Lists(maintainersHere', net', maintainers')
  PROVE  PickInv'
<1>1. \A i \in DOMAIN net' : net'[i].kind \in {"search", "check", "toggle"}
  <2>1. \A i \in DOMAIN net' : net'[i] \in Request
    BY LenProperties, ElementOfSeq DEF NetOK
  <2> QED BY <2>1 DEF Request
<1>2. TypeOK' /\ TypedOK'
  BY <1>1 DEF TypeOK, TypedOK, IsTyped
<1>3. ~stale' => Agree'
  BY DEF Agree, Fits, Lists, Pending, Checked, Settled, About, Clicked
<1>4. NetOK(net)' /\ OneClick(net)' /\ (~switchLoading' => NoClick(net)')
  BY DEF NetOK, OneClick, NoClick, Clicked, GoodArg
<1> QED BY <1>2, <1>3, <1>4 DEF PickInv

LEMMA InitOK == Init => PickInv
<1> SUFFICES ASSUME Init PROVE PickInv
  OBVIOUS
<1>1. /\ maintainersHere \in [Users -> Nat]
      /\ \A u \in Users : maintainersHere[u] > 0 <=> u \in maintainers
  BY DEF Init, Listed
<1>2. NetOK(net) /\ OneClick(net) /\ NoClick(net) /\ Fits(net, maintainers)
  BY DEF Init, NetOK, OneClick, NoClick, Fits
<1>3. Lists(maintainersHere, net, maintainers)
  BY <1>1 DEF Lists
<1>4. TypeOK /\ TypedOK /\ stale \in BOOLEAN
  <2>1. maintainers \subseteq Users \ {Owner}
    BY DEF Init
  <2>2. options = {} /\ switchLoading = FALSE /\ net = <<>> /\ typed = <<>> /\ stale = FALSE
    BY DEF Init
  <2>3. DOMAIN net = {}
    BY <2>2
  <2>4. TypeOK
    BY <1>1, <2>1, <2>2, <2>3 DEF TypeOK
  <2>5. TypedOK
    BY <2>2 DEF TypedOK
  <2> QED BY <2>2, <2>4, <2>5
<1> QED BY <1>2, <1>3, <1>4 DEF PickInv, Agree

LEMMA TypeStep ==
  ASSUME PickInv, NEW q \in Queries \cup {Short}, Type(q)
  PROVE  PickInv'
<1>1. UNCHANGED <<maintainers, maintainersHere, options, switchLoading, net, stale>>
  BY DEF Type, Input, server
<1>2. IsTyped(typed')
  BY DEF Type, IsTyped
<1> QED BY <1>1, <1>2, Facts, Rebuild

LEMMA SearchStep ==
  ASSUME PickInv, getMaintainerOptions
  PROVE  PickInv'
<1>0. /\ UNCHANGED <<maintainers, maintainersHere, switchLoading, stale>>
      /\ typed # <<>> /\ IsTyped(typed')
  BY DEF getMaintainerOptions, server, IsTyped
<1>1. CASE typed[1] = Short
  <2>1. options' = {} /\ net' = net
    BY <1>1 DEF getMaintainerOptions
  <2> QED BY <1>0, <2>1, Facts, Rebuild
<1>2. CASE typed[1] # Short
  <2>1. options' = options /\ net' = Append(net, Ask("search", typed[1]))
    BY <1>2 DEF getMaintainerOptions
  <2>2. typed[1] \in Seq(Users)
    BY <1>0, <1>2, Facts, QueriesFindUsers DEF IsTyped
  <2>3. PICK r : r = Ask("search", typed[1])
    OBVIOUS
  <2>4. /\ r \in Request /\ GoodArg(r) /\ ~Clicked(r)
        /\ \A who : Checked(r, who) /\ Settled(r, who)
    BY <2>2, <2>3 DEF Ask, Request, GoodArg, Clicked, Checked, Settled
  <2>5. /\ NetOK(net') /\ OneClick(net') /\ (NoClick(net) => NoClick(net'))
        /\ Fits(net, maintainers) => Fits(net', maintainers)
        /\ \A u : Pending(net, u) => Pending(net', u)
    <3>1. net' = Append(net, r) /\ NetOK(net) /\ OneClick(net)
      BY <2>1, <2>3, Facts
    <3> QED BY <2>4, <3>1, AppendKeeps, Zenon
  <2>6. Lists(maintainersHere, net, maintainers) => Lists(maintainersHere, net', maintainers)
    BY <2>5 DEF Lists
  <2> QED BY <1>0, <2>1, <2>5, <2>6, Facts, Rebuild
<1> QED BY <1>1, <1>2

LEMMA ToggleStep ==
  ASSUME PickInv, NEW u \in Users, Toggle(u)
  PROVE  PickInv'
<1>0. /\ UNCHANGED <<maintainers, maintainersHere, options, typed, stale>>
      /\ switchLoading' = TRUE /\ ~switchLoading
      /\ net' = Append(net, Ask("toggle", [user |-> u, add |-> u \notin Shown]))
  BY DEF Toggle, Input, server, Idle
<1>1. PICK r : r = Ask("toggle", [user |-> u, add |-> u \notin Shown])
  OBVIOUS
<1>2. /\ r \in Request /\ GoodArg(r) /\ r.kind = "toggle" /\ r.ans = ""
      /\ r.arg.user = u /\ r.arg.add = (u \notin Shown)
  BY <1>1 DEF Ask, Request, GoodArg, Switch
<1>3. NoClick(net) /\ \A v : ~Pending(net, v)
  BY <1>0, Facts DEF NoClick, Pending, About
<1>4. /\ NetOK(net') /\ OneClick(net')
      /\ Fits(net, maintainers) /\ Checked(r, maintainers) /\ Settled(r, maintainers)
           => Fits(net', maintainers)
  <2>1. net' = Append(net, r) /\ NetOK(net) /\ OneClick(net)
    BY <1>0, <1>1, Facts
  <2> QED BY <1>2, <1>3, <2>1, AppendKeeps, Zenon
<1>5. ASSUME ~stale
      PROVE  Fits(net', maintainers) /\ Lists(maintainersHere, net', maintainers)
  <2>1. \A v \in Users : maintainersHere[v] > 0 <=> v \in maintainers
    BY <1>3, <1>5, Facts DEF Lists
  <2>2. Checked(r, maintainers) /\ Settled(r, maintainers)
    BY <1>2, <2>1 DEF Checked, Settled, Shown
  <2> QED BY <1>4, <1>5, <2>1, <2>2, Facts DEF Lists
<1> QED BY <1>0, <1>4, <1>5, Facts, Rebuild

(* The next user found is checked, if there is one.                          *)
LEMMA CheckNextKeeps ==
  ASSUME NEW s, NetOK(s), OneClick(s), NEW found \in Seq(Users), NEW t, t = CheckNext(s, found)
  PROVE  /\ NetOK(t) /\ OneClick(t) /\ (NoClick(s) => NoClick(t))
         /\ \A who : Fits(s, who) => Fits(t, who)
         /\ \A u : Pending(s, u) => Pending(t, u)
<1>1. CASE found = <<>>
  <2>1. t = s
    BY <1>1 DEF CheckNext
  <2> QED BY <2>1
<1>2. CASE found # <<>>
  <2>1. PICK r : r = Ask("check", found)
    OBVIOUS
  <2>2. /\ r \in Request /\ GoodArg(r) /\ ~Clicked(r)
        /\ \A who : Checked(r, who) /\ Settled(r, who)
    BY <1>2, <2>1 DEF Ask, Request, GoodArg, Clicked, Checked, Settled
  <2>3. t = Append(s, r)
    BY <1>2, <2>1 DEF CheckNext
  <2> QED BY <2>2, <2>3, AppendKeeps, Zenon
<1> QED BY <1>1, <1>2

LEMMA SearchArrivesStep ==
  ASSUME PickInv, NEW i \in DOMAIN net, SearchArrives(i)
  PROVE  PickInv'
<1>0. /\ UNCHANGED <<maintainers, maintainersHere, typed, switchLoading, stale>>
      /\ net[i].kind = "search"
  BY DEF SearchArrives, server, Answered
<1>1. NetOK(net) /\ OneClick(net) /\ net[i].arg \in Seq(Users)
  BY <1>0, Facts DEF NetOK, GoodArg
<1>2. PICK r : r = Rest(i)
  OBVIOUS
<1>3. /\ NetOK(r) /\ OneClick(r) /\ (NoClick(net) => NoClick(r))
      /\ Fits(net, maintainers) => Fits(r, maintainers)
      /\ \A u : Pending(net, u) => Pending(r, u)
  <2>1. r = RemoveAt(net, i)
    BY <1>2 DEF Rest
  <2>2. \A u : ~About(net[i], u)
    BY <1>0 DEF About, Clicked
  <2> QED BY <1>1, <2>1, <2>2, RemoveKeeps, Zenon
<1>4. /\ NetOK(net') /\ OneClick(net') /\ (NoClick(r) => NoClick(net'))
      /\ Fits(r, maintainers) => Fits(net', maintainers)
      /\ \A u : Pending(r, u) => Pending(net', u)
  <2>1. CASE net' = r
    BY <1>3, <2>1
  <2>2. CASE net' = CheckNext(r, net[i].arg)
    <3>1. PICK found \in Seq(Users) : found = net[i].arg
      BY <1>1
    <3>2. net' = CheckNext(r, found) /\ NetOK(r) /\ OneClick(r)
      BY <1>3, <2>2, <3>1
    <3> QED BY <3>2, CheckNextKeeps
  <2> QED BY <1>2, <2>1, <2>2 DEF SearchArrives
<1>5. options' \subseteq Users
  <2>1. \A s \in Seq(Users) : Range(s) \subseteq Users
    BY LenProperties, ElementOfSeq DEF Range
  <2> QED BY <1>1, <2>1, Facts DEF SearchArrives
<1>6. Lists(maintainersHere, net, maintainers) => Lists(maintainersHere, net', maintainers)
  BY <1>3, <1>4 DEF Lists
<1> QED BY <1>0, <1>3, <1>4, <1>5, <1>6, Facts, Rebuild

LEMMA CheckArrivesStep ==
  ASSUME PickInv, NEW i \in DOMAIN net, CheckArrives(i)
  PROVE  PickInv'
<1>0. /\ UNCHANGED <<maintainers, options, typed, switchLoading, stale>>
      /\ net[i].kind = "check"
      /\ net' = CheckNext(Rest(i), Tail(net[i].arg))
  BY DEF CheckArrives, server, Answered
<1>1. /\ NetOK(net) /\ OneClick(net) /\ net[i].arg \in Seq(Users)
      /\ Head(net[i].arg) \in Users /\ Tail(net[i].arg) \in Seq(Users)
  <2>1. NetOK(net) /\ OneClick(net) /\ net[i].arg \in Seq(Users) /\ net[i].arg # <<>>
    BY <1>0, Facts DEF NetOK, GoodArg
  <2> QED BY <2>1, HeadTailProperties
<1>2. PICK r : r = Rest(i)
  OBVIOUS
<1>3. /\ NetOK(r) /\ OneClick(r) /\ (NoClick(net) => NoClick(r))
      /\ Fits(net, maintainers) => Fits(r, maintainers)
      /\ \A u : Pending(net, u) => Pending(r, u)
  <2>1. r = RemoveAt(net, i)
    BY <1>2 DEF Rest
  <2>2. \A u : ~About(net[i], u)
    BY <1>0 DEF About, Clicked
  <2> QED BY <1>1, <2>1, <2>2, RemoveKeeps, Zenon
<1>4. /\ NetOK(net') /\ OneClick(net') /\ (NoClick(r) => NoClick(net'))
      /\ Fits(r, maintainers) => Fits(net', maintainers)
      /\ \A u : Pending(r, u) => Pending(net', u)
  <2>1. PICK found \in Seq(Users) : found = Tail(net[i].arg)
    BY <1>1
  <2>2. net' = CheckNext(r, found) /\ NetOK(r) /\ OneClick(r)
    BY <1>0, <1>2, <1>3, <2>1
  <2> QED BY <2>2, CheckNextKeeps
<1>5. /\ maintainersHere' \in [Users -> Nat]
      /\ \A u \in Users : \/ maintainersHere'[u] = maintainersHere[u]
                          \/ u = Head(net[i].arg) /\ net[i].ans = "yes" /\ maintainersHere'[u] > 0
  BY <1>1, Facts DEF CheckArrives
<1>6. ASSUME ~stale PROVE Lists(maintainersHere', net', maintainers)
  <2>1. Checked(net[i], maintainers) /\ Lists(maintainersHere, net, maintainers)
    BY <1>6, Facts DEF Fits
  <2>2. ASSUME NEW u \in Users
        PROVE  (maintainersHere'[u] > 0 <=> u \in maintainers) \/ Pending(net', u)
    <3>1. CASE maintainersHere'[u] = maintainersHere[u]
      BY <1>3, <1>4, <2>1, <3>1 DEF Lists
    <3>2. CASE u = Head(net[i].arg) /\ net[i].ans = "yes" /\ maintainersHere'[u] > 0
      BY <1>0, <2>1, <3>2 DEF Checked
    <3> QED BY <1>5, <3>1, <3>2
  <2> QED BY <2>2 DEF Lists
<1> QED BY <1>0, <1>3, <1>4, <1>5, <1>6, Facts, Rebuild

LEMMA ToggleArrivesStep ==
  ASSUME PickInv, NEW i \in DOMAIN net, ToggleArrives(i)
  PROVE  PickInv'
<1>0. /\ UNCHANGED <<maintainers, options, typed, stale>>
      /\ switchLoading' = FALSE
      /\ Clicked(net[i]) /\ net[i].ans # ""
  BY DEF ToggleArrives, server, Answered, Unanswered, Switched, Clicked
<1>1. NetOK(net) /\ OneClick(net) /\ net[i].arg.user \in Users
  BY <1>0, Facts DEF NetOK, GoodArg, Clicked, Switch
<1>2. /\ NetOK(net') /\ OneClick(net') /\ NoClick(net')
      /\ Fits(net, maintainers) => Fits(net', maintainers)
      /\ \A u : Pending(net, u) /\ ~About(net[i], u) => Pending(net', u)
  <2>1. net' = RemoveAt(net, i)
    BY DEF ToggleArrives, Rest
  <2> QED BY <1>0, <1>1, <2>1, RemoveKeeps, Zenon
<1>3. /\ maintainersHere' \in [Users -> Nat]
      /\ \A u \in Users : u # net[i].arg.user => maintainersHere'[u] = maintainersHere[u]
      /\ maintainersHere'[net[i].arg.user] > 0 <=> net[i].ans = "yes"
  BY <1>1, Facts DEF ToggleArrives, ListAfter
<1>4. ASSUME ~stale PROVE Lists(maintainersHere', net', maintainers)
  <2>1. Settled(net[i], maintainers) /\ Lists(maintainersHere, net, maintainers)
    BY <1>4, Facts DEF Fits
  <2>2. ASSUME NEW u \in Users
        PROVE  (maintainersHere'[u] > 0 <=> u \in maintainers) \/ Pending(net', u)
    <3>1. CASE u = net[i].arg.user
      BY <1>0, <1>3, <2>1, <3>1 DEF Settled
    <3>2. CASE u # net[i].arg.user
      BY <1>2, <1>3, <2>1, <3>2 DEF Lists, About
    <3> QED BY <3>1, <3>2
  <2> QED BY <2>2 DEF Lists
<1> QED BY <1>0, <1>2, <1>3, <1>4, Facts, Rebuild

LEMMA DropStep ==
  ASSUME PickInv, NEW i \in DOMAIN net, Drop(i)
  PROVE  PickInv'
<1>0. /\ UNCHANGED <<maintainers, maintainersHere, options, typed, switchLoading, stale>>
      /\ ~Clicked(net[i]) /\ net' = RemoveAt(net, i)
  BY DEF Drop, server, view, Rest, Clicked
<1>1. /\ NetOK(net') /\ OneClick(net') /\ (NoClick(net) => NoClick(net'))
      /\ Fits(net, maintainers) => Fits(net', maintainers)
      /\ \A u : Pending(net, u) => Pending(net', u)
  <2>1. NetOK(net) /\ OneClick(net)
    BY Facts
  <2>2. \A u : ~About(net[i], u)
    BY <1>0 DEF About
  <2> QED BY <1>0, <2>1, <2>2, RemoveKeeps, Zenon
<1>2. Lists(maintainersHere, net, maintainers) => Lists(maintainersHere, net', maintainers)
  BY <1>1 DEF Lists
<1> QED BY <1>0, <1>1, <1>2, Facts, Rebuild

LEMMA RemountStep ==
  ASSUME PickInv, Remount
  PROVE  PickInv'
<1>0. UNCHANGED <<maintainers, stale>> /\ options' = {} /\ IsTyped(typed') /\ switchLoading' = FALSE
  BY DEF Remount, Input, server, IsTyped
<1>1. net \in Seq(Request) /\ \A i \in DOMAIN net : net[i] \in Request /\ GoodArg(net[i])
  BY Facts, LenProperties, ElementOfSeq DEF NetOK
<1>2. /\ net' = [i \in DOMAIN net |-> [net[i] EXCEPT !.mount = FALSE]] /\ DOMAIN net' = DOMAIN net
      /\ DOMAIN net = 1 .. Len(net) /\ Len(net) \in Nat
  BY <1>1, LenProperties DEF Remount
<1>3. ASSUME NEW i \in DOMAIN net
      PROVE  /\ net'[i] \in Request /\ ~net'[i].mount /\ net'[i].kind = net[i].kind
             /\ net'[i].arg = net[i].arg /\ net'[i].ans = net[i].ans
  <2>1. net[i] \in Request /\ net'[i] = [net[i] EXCEPT !.mount = FALSE]
    BY <1>1, <1>2
  <2> QED BY <2>1 DEF Request
<1>4. net' \in Seq(Request)
  BY <1>2, <1>3
<1>5. NetOK(net') /\ OneClick(net') /\ NoClick(net')
  BY <1>1, <1>2, <1>3, <1>4 DEF NetOK, GoodArg, OneClick, NoClick, Clicked
<1>6. Fits(net, maintainers) => Fits(net', maintainers)
  <2>1. ASSUME NEW i \in DOMAIN net, Checked(net[i], maintainers)
        PROVE  Checked(net'[i], maintainers) /\ Settled(net'[i], maintainers)
    BY <1>3, <2>1 DEF Checked, Settled, Clicked
  <2> QED BY <1>2, <2>1 DEF Fits
<1>7. maintainersHere' \in [Users -> Nat] /\ Lists(maintainersHere', net', maintainers)
  BY DEF Remount, Listed, Lists
<1> QED BY <1>0, <1>5, <1>6, <1>7, Facts, Rebuild

(* The answers of the server, by the kind of request.                        *)
LEMMA AnswerFacts ==
  ASSUME NEW r
  PROVE  /\ r.kind = "search" => Answer(r) = "ok"
         /\ r.kind = "check" => Answer(r) = YesNo(Head(r.arg) \in maintainers)
         /\ r.kind = "toggle" /\ r.arg.user = Owner => Answer(r) = "failed"
         /\ r.kind = "toggle" /\ r.arg.user # Owner => Answer(r) = YesNo(r.arg.user \in After(r))
<1>1. r.kind = "search" => Answer(r) = "ok"
  BY Zenon DEF Answer
<1>2. r.kind = "check" => Answer(r) = YesNo(Head(r.arg) \in maintainers)
  BY Zenon DEF Answer
<1>3. r.kind = "toggle" =>
        Answer(r) = IF Refuses(r.arg.user) THEN "failed" ELSE YesNo(r.arg.user \in After(r))
  BY Zenon DEF Answer
<1> QED BY <1>1, <1>2, <1>3 DEF Refuses

LEMMA ServeStep ==
  ASSUME PickInv, NEW i \in DOMAIN net, Serve(i)
  PROVE  PickInv'
<1>0. /\ UNCHANGED <<maintainersHere, options, typed, switchLoading>>
      /\ net[i].ans = "" /\ maintainers' = After(net[i])
      /\ net' = WithAnswer(net, i, Answer(net[i]))
      /\ stale' = (stale \/ /\ net[i].kind = "toggle"
                            /\ ~net[i].mount \/ Overtaken(net[i].arg.user))
  BY DEF Serve, view, Unanswered, WithAnswer
<1>1. /\ NetOK(net) /\ OneClick(net) /\ net[i] \in Request /\ GoodArg(net[i])
      /\ net[i].kind \in {"search", "check", "toggle"}
  <2>1. NetOK(net) /\ OneClick(net)
    BY Facts
  <2>2. net[i] \in Request /\ GoodArg(net[i])
    BY <2>1, LenProperties, ElementOfSeq DEF NetOK
  <2> QED BY <2>1, <2>2 DEF Request
<1>2. PICK x \in Answers : x = Answer(net[i])
  BY <1>1, AnswerFacts DEF YesNo, Answers
<1>3. /\ NetOK(net') /\ OneClick(net') /\ (NoClick(net) => NoClick(net'))
      /\ DOMAIN net' = DOMAIN net /\ \A j \in DOMAIN net : j # i => net'[j] = net[j]
      /\ net'[i].ans = x /\ net'[i].kind = net[i].kind /\ net'[i].arg = net[i].arg
      /\ net'[i].mount = net[i].mount
      /\ \A u : Pending(net, u) => Pending(net', u)
  <2>1. net' = WithAnswer(net, i, x)
    BY <1>0, <1>2
  <2> QED BY <1>1, <1>2, <2>1, AnswerKeeps
<1>4. stale' \in BOOLEAN /\ (~stale' => ~stale)
  BY <1>0, Facts
<1>5. CASE net[i].kind # "toggle" \/ net[i].arg.user = Owner
  <2>1. maintainers' = maintainers
    BY <1>0, <1>5 DEF After, Refuses
  <2>2. ASSUME ~stale' PROVE Fits(net', maintainers) /\ Lists(maintainersHere, net', maintainers)
    <3>1. Fits(net, maintainers) /\ Lists(maintainersHere, net, maintainers)
          /\ Owner \notin maintainers
      BY <1>4, <2>2, Facts
    <3>2. Checked(net'[i], maintainers)
      BY <1>1, <1>2, <1>3, AnswerFacts DEF Checked, YesNo
    <3>3. Settled(net'[i], maintainers)
      BY <1>1, <1>2, <1>3, <1>5, <3>1, AnswerFacts DEF Settled, Clicked
    <3>4. Fits(net', maintainers)
      BY <1>3, <3>1, <3>2, <3>3 DEF Fits
    <3> QED BY <1>3, <3>1, <3>4 DEF Lists
  <2> QED BY <1>0, <1>3, <1>4, <2>1, <2>2, Facts, Rebuild
<1>6. CASE net[i].kind = "toggle" /\ net[i].arg.user # Owner
  <2> DEFINE u == net[i].arg.user
  <2>1. u \in Users /\ u # Owner
    BY <1>1, <1>6 DEF GoodArg, Switch
  <2>2. /\ maintainers' = AddOrRemove(maintainers, u) /\ x = YesNo(u \in maintainers')
    BY <1>0, <1>2, <1>6, AnswerFacts DEF After, Refuses
  <2>3. maintainers' \subseteq Users \ {Owner}
    BY <2>1, <2>2, Facts DEF AddOrRemove
  <2>4. \A v : v # u => (v \in maintainers' <=> v \in maintainers)
    BY <2>2 DEF AddOrRemove
  <2>5. ASSUME ~stale'
        PROVE  Fits(net', maintainers') /\ Lists(maintainersHere, net', maintainers')
    <3>1. /\ Fits(net, maintainers) /\ Lists(maintainersHere, net, maintainers)
          /\ Clicked(net[i]) /\ ~Overtaken(u)
      BY <1>0, <1>4, <1>6, <2>5, Facts DEF Clicked
    <3>2. ASSUME NEW j \in DOMAIN net, j # i
          PROVE  Checked(net'[j], maintainers') /\ Settled(net'[j], maintainers')
      <4>1. Checked(net[j], maintainers) /\ ~Clicked(net[j]) /\ net'[j] = net[j]
        BY <1>1, <1>3, <3>1, <3>2 DEF Fits, OneClick
      <4>2. net[j].kind = "check" /\ net[j].ans = "yes" => Head(net[j].arg) # u
        BY <3>1 DEF Overtaken
      <4> QED BY <2>4, <4>1, <4>2 DEF Checked, Settled
    <3>3. Checked(net'[i], maintainers') /\ Settled(net'[i], maintainers')
      BY <1>3, <1>6, <2>2 DEF Checked, Settled, YesNo
    <3>4. Fits(net', maintainers')
      BY <1>3, <3>2, <3>3 DEF Fits
    <3>5. Pending(net', u)
      <4>1. About(net'[i], u)
        BY <1>3, <2>2, <3>1 DEF About, Clicked, YesNo
      <4> QED BY <1>3, <4>1 DEF Pending
    <3>6. Lists(maintainersHere, net', maintainers')
      BY <1>3, <2>4, <3>1, <3>5 DEF Lists
    <3> QED BY <3>4, <3>6
  <2> QED BY <1>0, <1>3, <1>4, <2>3, <2>5, Facts, Rebuild
<1> QED BY <1>1, <1>5, <1>6

LEMMA FailStep ==
  ASSUME PickInv, NEW i \in DOMAIN net, Fail(i)
  PROVE  PickInv'
<1>0. /\ UNCHANGED <<maintainers, maintainersHere, options, typed, switchLoading>>
      /\ net' = WithAnswer(net, i, "failed")
      /\ stale' = (stale \/ net[i].kind = "toggle")
  BY DEF Fail, view, server, WithAnswer
<1>1. NetOK(net) /\ OneClick(net)
  BY Facts
<1>2. /\ NetOK(net') /\ OneClick(net') /\ (NoClick(net) => NoClick(net'))
      /\ DOMAIN net' = DOMAIN net /\ \A j \in DOMAIN net : j # i => net'[j] = net[j]
      /\ net'[i].ans = "failed" /\ net'[i].kind = net[i].kind
      /\ \A u : Pending(net, u) => Pending(net', u)
  <2>1. PICK x \in Answers : x = "failed"
    BY DEF Answers
  <2>2. net' = WithAnswer(net, i, x)
    BY <1>0, <2>1
  <2> QED BY <1>1, <2>1, <2>2, AnswerKeeps
<1>3. ASSUME ~stale' PROVE Fits(net', maintainers) /\ Lists(maintainersHere, net', maintainers)
  <2>1. Fits(net, maintainers) /\ Lists(maintainersHere, net, maintainers) /\ net[i].kind # "toggle"
    BY <1>0, <1>3, Facts
  <2>2. Checked(net'[i], maintainers) /\ Settled(net'[i], maintainers)
    BY <1>2, <2>1 DEF Checked, Settled, Clicked
  <2> QED BY <1>2, <2>1, <2>2 DEF Fits, Lists
<1>4. stale' \in BOOLEAN
  BY <1>0
<1> QED BY <1>0, <1>2, <1>3, <1>4, Facts, Rebuild

LEMMA OthersStep ==
  ASSUME PickInv, OthersToggle
  PROVE  PickInv'
<1>1. UNCHANGED <<maintainersHere, options, typed, switchLoading, net>> /\ stale' = TRUE
  BY DEF OthersToggle, view
<1>2. maintainers' \subseteq Users \ {Owner}
  BY Facts DEF OthersToggle, AddOrRemove
<1> QED BY <1>1, <1>2, Facts, Rebuild

LEMMA PickAlways == Spec => []PickInv
<1>1. ASSUME PickInv, [Next]_vars PROVE PickInv'
  <2>1. CASE UNCHANGED vars
    <3>1. UNCHANGED <<maintainers, maintainersHere, options, typed, switchLoading, net, stale>>
      BY <2>1 DEF vars
    <3> QED BY <1>1, <3>1, Facts, Rebuild
  <2>2. CASE Next
    BY <1>1, <2>2, TypeStep, SearchStep, ToggleStep, RemountStep, ServeStep, SearchArrivesStep,
       CheckArrivesStep, ToggleArrivesStep, DropStep, FailStep, OthersStep DEF Next, Network
  <2> QED BY <1>1, <2>1, <2>2
<1> QED BY <1>1, InitOK, PTL DEF Spec

------------------------------------------------------------------------------
(* TypeOK: every variable keeps its shape; the owner is never a maintainer,  *)
(* whoever is clicked on.                                                    *)
THEOREM TypeCorrect == Spec => []TypeOK
<1> QED BY PickAlways, PTL DEF PickInv

(* ListRight: whatever searches, checks and clicks overlap, the list of the  *)
(* page is right when all answers are in; only the four events that set      *)
(* `stale` make it wrong.                                                    *)
THEOREM ListRightAlways == Spec => []ListRight
<1>1. PickInv => ListRight
  <2>1. SUFFICES ASSUME PickInv, net = <<>>, ~stale PROVE Shown = maintainers
    BY DEF ListRight
  <2>2. DOMAIN net = {}
    BY <2>1
  <2>3. \A u \in Users : maintainersHere[u] > 0 <=> u \in maintainers
    BY <2>1, <2>2, Facts DEF Lists, Pending
  <2> QED BY <2>1, <2>3, Facts DEF Shown
<1> QED BY <1>1, PickAlways, PTL

(* ClicksMeant: while the list is right, the toggle that is served adds who  *)
(* the page did not show and removes who it showed.                          *)
THEOREM ClicksMeantAlways == Spec => ClicksMeant
<1>1. ASSUME PickInv, [Next]_vars, maintainers' # maintainers, ~stale'
      PROVE  \E i \in DOMAIN net :
               /\ net[i].kind = "toggle" /\ Unanswered(i)
               /\ maintainers' = IF net[i].arg.add THEN maintainers \cup {net[i].arg.user}
                                 ELSE maintainers \ {net[i].arg.user}
  <2>1. PICK i \in DOMAIN net : Serve(i)
    BY <1>1 DEF Next, Network, Type, getMaintainerOptions, Toggle, Remount, SearchArrives,
       CheckArrives, ToggleArrives, Drop, Fail, OthersToggle, Input, server, vars
  <2>2. /\ net[i].kind = "toggle" /\ net[i].ans = "" /\ net[i].mount
        /\ maintainers' = AddOrRemove(maintainers, net[i].arg.user) /\ ~stale
    BY <1>1, <2>1 DEF Serve, After, Unanswered
  <2>3. Settled(net[i], maintainers) /\ net[i].arg.add \in BOOLEAN
    BY <1>1, <2>2, Facts DEF Fits, NetOK, GoodArg, Switch
  <2>4. net[i].arg.add <=> net[i].arg.user \notin maintainers
    BY <2>2, <2>3 DEF Settled, Clicked
  <2> QED BY <2>2, <2>4 DEF Unanswered, AddOrRemove
<1>2. PickInv /\ [Next]_vars =>
        [maintainers' # maintainers /\ ~stale' =>
           \E i \in DOMAIN net :
             /\ net[i].kind = "toggle"
             /\ Unanswered(i)
             /\ maintainers' = IF net[i].arg.add THEN maintainers \cup {net[i].arg.user}
                               ELSE maintainers \ {net[i].arg.user}]_vars
  BY <1>1
<1> QED BY <1>2, PickAlways, PTL DEF Spec, ClicksMeant

==============================================================================
