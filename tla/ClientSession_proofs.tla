------------------------ MODULE ClientSession_proofs ------------------------
(* Theorems of ClientSession, for any accounts, conversations, sockets and    *)
(* requests: the account shown is the one acted for, nobody is signed out by  *)
(* accident, and the badge is the sum of the unread counts.                   *)
EXTENDS ClientSession, FiniteSetTheorems, WellFoundedInduction, TLAPS

USE SessionAssumption

-----------------------------------------------------------------------------
(* Sums. FoldFunction takes one element after the other out of the domain; it *)
(* is a recursive function on the subsets of the domain.                      *)

Pick(s) == CHOOSE x \in s : TRUE

\* The sum over s from those over smaller sets.
Adds(f, g, s) == IF s = {} THEN 0 ELSE f[Pick(s)] + g[s \ {Pick(s)}]

Sums(S, f) == CHOOSE g : g = [s \in SUBSET S |-> Adds(f, g, s)]

\* A family of subsets of a finite set has a smallest member.
LEMMA SmallestSubset ==
  ASSUME NEW S, IsFiniteSet(S), NEW T, T \subseteq SUBSET S, T # {}
  PROVE  \E m \in T : \A s \in T : ~(s \subseteq m /\ s # m)
<1>1. T \subseteq FiniteSubsetsOf(S)
  BY FS_Subset DEF FiniteSubsetsOf
<1>2. PICK m \in T : \A s \in T : <<s, m>> \notin StrictSubsetOrdering(S)
  BY <1>1, FS_StrictSubsetOrderingWellFounded, WFMin
<1>3. \A s \in T : ~(s \subseteq m /\ s # m)
  <2> SUFFICES ASSUME NEW s \in T, s \subseteq m, s # m PROVE FALSE
    OBVIOUS
  <2>1. <<s, m>> \in (SUBSET S) \X (SUBSET S)
    OBVIOUS
  <2>2. <<s, m>> \in StrictSubsetOrdering(S)
    BY <2>1 DEF StrictSubsetOrdering
  <2> QED
    BY <1>2, <2>2
<1> QED
  BY <1>3

\* The element that is picked is one of the set.
LEMMA Picked ==
  ASSUME NEW s, s # {}
  PROVE  Pick(s) \in s
  BY DEF Pick

LEMMA SmallestNumber ==
  ASSUME NEW T, T \subseteq Nat, T # {}
  PROVE  \E m \in T : \A k \in T : ~(k < m)
<1>1. \E m \in T : \A k \in T : <<k, m>> \notin OpToRel(<, Nat)
  BY NatLessThanWellFounded, WFMin
<1> QED
  BY <1>1 DEF OpToRel

\* The recursion has a solution: one for sets of less than k elements, taken one
\* step further, is one for sets of k.
LEMMA SumRecursion ==
  ASSUME NEW S, IsFiniteSet(S), NEW f
  PROVE  \E g : g = [s \in SUBSET S |-> Adds(f, g, s)]
<1> DEFINE Solves(g, k) == /\ g = [s \in SUBSET S |-> g[s]]
                           /\ \A s \in SUBSET S : Cardinality(s) <= k => g[s] = Adds(f, g, s)
           T == {k \in Nat : ~ \E g : Solves(g, k)}
<1>0. \A s \in SUBSET S : Cardinality(s) \in Nat /\ IsFiniteSet(s)
  BY FS_Subset, FS_CardinalityType
<1>1. T = {}
  <2> SUFFICES ASSUME T # {} PROVE FALSE
    OBVIOUS
  <2>1. PICK k \in T : \A j \in T : ~(j < k)
    <3>1. T \subseteq Nat
      OBVIOUS
    <3> HIDE DEF T
    <3> QED
      BY <3>1, SmallestNumber
  <2>2. CASE k = 0
    <3> DEFINE g == [s \in SUBSET S |-> 0]
    <3>1. \A s \in SUBSET S : Cardinality(s) <= 0 => s = {}
      BY <1>0, FS_EmptySet
    <3>2. Solves(g, 0)
      BY <3>1 DEF Adds
    <3> QED
      BY <2>2, <3>2
  <2>3. CASE k # 0
    <3>0. k \in Nat /\ k - 1 < k
      BY <2>1
    <3>1. k - 1 \in Nat /\ k - 1 \notin T
      <4>1. k - 1 \in Nat
        BY <2>3, <3>0
      <4> HIDE DEF T
      <4> QED
        BY <2>1, <3>0, <4>1
    <3>2. PICK g : Solves(g, k - 1)
      BY <3>1
    <3> DEFINE h == [s \in SUBSET S |-> Adds(f, g, s)]
    <3>3. \A s \in SUBSET S : Cardinality(s) <= k - 1 => h[s] = g[s]
      BY <3>2
    <3>4. \A s \in SUBSET S : Cardinality(s) <= k => Adds(f, h, s) = Adds(f, g, s)
      <4> SUFFICES ASSUME NEW s \in SUBSET S, Cardinality(s) <= k
                   PROVE  Adds(f, h, s) = Adds(f, g, s)
        OBVIOUS
      <4>1. CASE s = {}
        BY <4>1 DEF Adds
      <4>2. CASE s # {}
        <5>1. Pick(s) \in s
          BY <4>2, Picked
        <5>2. Cardinality(s \ {Pick(s)}) = Cardinality(s) - 1
          BY <1>0, <5>1, FS_RemoveElement
        <5>3. s \ {Pick(s)} \in SUBSET S /\ Cardinality(s \ {Pick(s)}) <= k - 1
          BY <1>0, <5>2, <2>1
        <5>4. h[s \ {Pick(s)}] = g[s \ {Pick(s)}]
          BY <3>3, <5>3
        <5> HIDE DEF h
        <5> QED
          BY <4>2, <5>4 DEF Adds
      <4> QED
        BY <4>1, <4>2
    <3>5. Solves(h, k)
      BY <3>4
    <3> QED
      BY <3>5
  <2> QED
    BY <2>2, <2>3
<1>2. Cardinality(S) \in Nat
  BY FS_CardinalityType
<1>3. PICK g : Solves(g, Cardinality(S))
  BY <1>1, <1>2
<1>4. g = [s \in SUBSET S |-> Adds(f, g, s)]
  BY <1>3, FS_Subset
<1> QED
  BY <1>4

\* The recursion equation of the sum.
LEMMA SumEquation ==
  ASSUME NEW S, IsFiniteSet(S), NEW f
  PROVE  \A s \in SUBSET S : Sums(S, f)[s] = Adds(f, Sums(S, f), s)
<1>1. Sums(S, f) = [s \in SUBSET S |-> Adds(f, Sums(S, f), s)]
  BY SumRecursion DEF Sums
<1> QED
  BY <1>1

\* FoldFunction with + is that sum over the whole domain.
LEMMA FoldIsSum ==
  ASSUME NEW f
  PROVE  FoldFunction(+, 0, f) = Sums(DOMAIN f, f)[DOMAIN f]
  BY DEF FoldFunction, FoldFunctionOnSet, MapThenFoldSet, Sums, Adds, Pick

\* A sum of natural numbers is one, and no summand exceeds it.
LEMMA SumBounds ==
  ASSUME NEW S, IsFiniteSet(S), NEW f \in [S -> Nat]
  PROVE  \A s \in SUBSET S : Sums(S, f)[s] \in Nat /\ \A c \in s : f[c] <= Sums(S, f)[s]
<1> DEFINE sum == Sums(S, f)
           Good(s) == sum[s] \in Nat /\ \A c \in s : f[c] <= sum[s]
           T == {s \in SUBSET S : ~Good(s)}
<1>1. \A s \in SUBSET S : sum[s] = Adds(f, sum, s)
  BY SumEquation
<1> HIDE DEF sum
<1>2. T = {}
  <2> SUFFICES ASSUME T # {} PROVE FALSE
    OBVIOUS
  <2>1. PICK m \in T : \A s \in T : ~(s \subseteq m /\ s # m)
    <3>1. T \subseteq SUBSET S
      OBVIOUS
    <3> HIDE DEF T
    <3> QED
      BY <3>1, SmallestSubset
  <2>2. CASE m = {}
    BY <1>1, <2>2 DEF Adds
  <2>3. CASE m # {}
    <3> DEFINE x == Pick(m)
    <3>1. x \in m
      BY <2>3, Picked
    <3>2. m \ {x} \in SUBSET S /\ Good(m \ {x})
      BY <2>1, <3>1
    <3>3. sum[m] = f[x] + sum[m \ {x}]
      BY <1>1, <2>3 DEF Adds
    <3>4. f[x] \in Nat
      BY <3>1
    <3> HIDE DEF x
    <3>5. sum[m] \in Nat /\ f[x] <= sum[m]
      BY <3>2, <3>3, <3>4
    <3>6. ASSUME NEW c \in m PROVE f[c] <= sum[m]
      <4>1. CASE c = x
        BY <3>5, <4>1
      <4>2. CASE c # x
        <5>1. f[c] \in Nat /\ f[c] <= sum[m \ {x}]
          BY <3>2, <4>2
        <5> QED
          BY <3>2, <3>3, <3>4, <5>1
      <4> QED
        BY <4>1, <4>2
    <3> QED
      BY <3>5, <3>6
  <2> QED
    BY <2>2, <2>3
<1> QED
  BY <1>2 DEF sum

\* A sum of zeros is zero.
LEMMA SumOfZeros ==
  ASSUME NEW S, IsFiniteSet(S)
  PROVE  \A s \in SUBSET S : Sums(S, [c \in S |-> 0])[s] = 0
<1> DEFINE f == [c \in S |-> 0]
           sum == Sums(S, f)
           T == {s \in SUBSET S : sum[s] # 0}
<1>1. \A s \in SUBSET S : sum[s] = Adds(f, sum, s)
  BY SumEquation
<1> HIDE DEF sum
<1>2. T = {}
  <2> SUFFICES ASSUME T # {} PROVE FALSE
    OBVIOUS
  <2>1. PICK m \in T : \A s \in T : ~(s \subseteq m /\ s # m)
    <3>1. T \subseteq SUBSET S
      OBVIOUS
    <3> HIDE DEF T
    <3> QED
      BY <3>1, SmallestSubset
  <2>2. CASE m = {}
    BY <1>1, <2>2 DEF Adds
  <2>3. CASE m # {}
    <3> DEFINE x == Pick(m)
    <3>1. x \in m
      BY <2>3, Picked
    <3>2. sum[m \ {x}] = 0
      BY <2>1, <3>1
    <3>3. sum[m] = f[x] + sum[m \ {x}]
      BY <1>1, <2>3 DEF Adds
    <3>4. f[x] = 0
      BY <3>1
    <3> HIDE DEF x, f
    <3> QED
      BY <3>2, <3>3, <3>4
  <2> QED
    BY <2>2, <2>3
<1> QED
  BY <1>2 DEF sum

\* A change of one summand changes the sum by as much.
LEMMA SumOfChange ==
  ASSUME NEW S, IsFiniteSet(S), NEW f \in [S -> Nat], NEW c \in S, NEW v \in Nat,
         NEW g \in [S -> Nat], g[c] = v, \A x \in S : x # c => g[x] = f[x]
  PROVE  \A s \in SUBSET S :
           Sums(S, g)[s] = IF c \in s THEN Sums(S, f)[s] - f[c] + v ELSE Sums(S, f)[s]
<1> DEFINE sf == Sums(S, f)
           sg == Sums(S, g)
           Good(s) == sg[s] = IF c \in s THEN sf[s] - f[c] + v ELSE sf[s]
           T == {s \in SUBSET S : ~Good(s)}
<1>1. /\ \A s \in SUBSET S : sf[s] = Adds(f, sf, s)
      /\ \A s \in SUBSET S : sg[s] = Adds(g, sg, s)
  BY SumEquation
<1>2. \A s \in SUBSET S : sf[s] \in Nat
  BY SumBounds
<1>3. g[c] = v /\ \A x \in S : x # c => g[x] = f[x]
  OBVIOUS
<1> HIDE DEF sf, sg
<1>4. T = {}
  <2> SUFFICES ASSUME T # {} PROVE FALSE
    OBVIOUS
  <2>1. PICK m \in T : \A s \in T : ~(s \subseteq m /\ s # m)
    <3>1. T \subseteq SUBSET S
      OBVIOUS
    <3> HIDE DEF T
    <3> QED
      BY <3>1, SmallestSubset
  <2>2. CASE m = {}
    BY <1>1, <2>2 DEF Adds
  <2>3. CASE m # {}
    <3> DEFINE x == Pick(m)
               r == m \ {x}
    <3>1. x \in m
      BY <2>3, Picked
    <3>2. r \in SUBSET S /\ Good(r)
      BY <2>1, <3>1
    <3>3. sf[m] = f[x] + sf[r] /\ sg[m] = g[x] + sg[r]
      BY <1>1, <2>3 DEF Adds
    <3>4. f[x] \in Nat /\ f[c] \in Nat /\ sf[r] \in Nat
      BY <1>2, <3>1, <3>2
    <3>5. x \in S /\ (x # c => (c \in m <=> c \in r)) /\ (x = c => c \in m /\ c \notin r)
      BY <3>1
    <3> HIDE DEF x, r
    <3>6. CASE x = c
      BY <1>3, <3>2, <3>3, <3>4, <3>5, <3>6
    <3>7. CASE x # c
      <4>1. g[x] = f[x]
        BY <1>3, <3>5, <3>7
      <4>2. CASE c \in m
        BY <3>2, <3>3, <3>4, <3>5, <3>7, <4>1, <4>2
      <4>3. CASE c \notin m
        BY <3>2, <3>3, <3>4, <3>5, <3>7, <4>1, <4>3
      <4> QED
        BY <4>2, <4>3
    <3> QED
      BY <3>6, <3>7
  <2> QED
    BY <2>2, <2>3
<1> QED
  BY <1>4 DEF sf, sg

-----------------------------------------------------------------------------
(* The unread counts of the conversations and their total. *)

Counts == [Convs -> Nat]
Total(f) == FoldFunction(+, 0, f)

LEMMA TotalBounds ==
  ASSUME NEW f \in Counts
  PROVE  Total(f) \in Nat /\ \A c \in Convs : f[c] <= Total(f)
<1>1. DOMAIN f = Convs /\ IsFiniteSet(Convs) /\ Convs \in SUBSET Convs
  BY DEF Counts
<1>2. f \in [Convs -> Nat]
  BY DEF Counts
<1>3. \A s \in SUBSET Convs : /\ Sums(Convs, f)[s] \in Nat
                              /\ \A c \in s : f[c] <= Sums(Convs, f)[s]
  BY <1>1, <1>2, SumBounds
<1>4. Total(f) = Sums(Convs, f)[Convs]
  BY <1>1, FoldIsSum DEF Total
<1> QED
  BY <1>1, <1>3, <1>4

LEMMA TotalOfZeros == Total([c \in Convs |-> 0]) = 0
<1> DEFINE z == [c \in Convs |-> 0]
<1>1. DOMAIN z = Convs /\ IsFiniteSet(Convs) /\ Convs \in SUBSET Convs
  OBVIOUS
<1>2. Sums(Convs, z)[Convs] = 0
  BY <1>1, SumOfZeros
<1> HIDE DEF z
<1> QED
  BY <1>1, <1>2, FoldIsSum DEF Total, z

LEMMA TotalOfChange ==
  ASSUME NEW f \in Counts, NEW c \in Convs, NEW v \in Nat
  PROVE  /\ [f EXCEPT ![c] = v] \in Counts
         /\ Total([f EXCEPT ![c] = v]) = Total(f) - f[c] + v
<1> DEFINE g == [f EXCEPT ![c] = v]
<1>1. DOMAIN f = Convs /\ DOMAIN g = Convs /\ IsFiniteSet(Convs) /\ Convs \in SUBSET Convs
  BY DEF Counts
<1>2. Sums(Convs, g)[Convs] = Sums(Convs, f)[Convs] - f[c] + v
  <2>1. f \in [Convs -> Nat] /\ g \in [Convs -> Nat]
    BY DEF Counts
  <2>2. g[c] = v /\ \A x \in Convs : x # c => g[x] = f[x]
    BY <1>1
  <2> HIDE DEF g
  <2>3. \A s \in SUBSET Convs :
          Sums(Convs, g)[s] =
            IF c \in s THEN Sums(Convs, f)[s] - f[c] + v ELSE Sums(Convs, f)[s]
    BY <1>1, <2>1, <2>2, SumOfChange
  <2> QED
    BY <1>1, <2>3
<1>3. g \in Counts
  BY DEF Counts
<1> HIDE DEF g
<1>4. Total(g) = Sums(Convs, g)[Convs] /\ Total(f) = Sums(Convs, f)[Convs]
  BY <1>1, FoldIsSum DEF Total
<1> QED
  BY <1>2, <1>3, <1>4 DEF g

-----------------------------------------------------------------------------
(* The invariant. Storage and memory hold a token with the user it belongs    *)
(* to, or none; a session that is shown has one.                              *)

Owned ==
    /\ storage.token # Nobody => storage.user.id = storage.token
    /\ session.token # Nobody => /\ storage.token = session.token
                                 /\ session.user.id = session.token
    /\ session.auth => session.token # Nobody

\* Each count is a summand of a total that is bounded.
SessionInv == SessionTypeOK /\ UnreadAddsUp /\ Owned

LEMMA MaxWithZero ==
  ASSUME NEW n \in Nat
  PROVE  Max({0, n}) = n
  BY DEF Max

\* A socket and the phase it is in.
Link == [phase : {"none", "open", "closing", "waiting"}, as : Users \cup {Nobody}]

LinksTyped == links \in [Slots -> Link] /\ wsRef \in 0..MaxLinks

LEMMA Updates ==
  ASSUME NEW ls \in [Slots -> Link], NEW k \in Slots
  PROVE  /\ \A l \in Link : [ls EXCEPT ![k] = l] \in [Slots -> Link]
         /\ [ls EXCEPT ![k].phase = "closing"] \in [Slots -> Link]
<1>1. [ls[k] EXCEPT !.phase = "closing"] \in Link
  BY DEF Link
<1> QED
  BY <1>1

LEMMA CloseRefTyped ==
  ASSUME LinksTyped
  PROVE  CloseRef(links) \in [Slots -> Link]
<1>1. wsRef # 0 => wsRef \in Slots
  BY DEF LinksTyped, Slots
<1> QED
  BY <1>1, Updates DEF LinksTyped, CloseRef

\* The effect on isAuthenticated keeps the sockets in their slots.
LEMMA EffectTyped ==
  ASSUME LinksTyped, session.auth \in BOOLEAN,
         NEW auth \in BOOLEAN, NotificationEffect(auth),
         storage'.token \in Users \cup {Nobody}
  PROVE  LinksTyped'
<1>1. CASE auth /\ ~session.auth
  <2>1. PICK k \in Slots : /\ links' = [links EXCEPT ![k] = [phase |-> "open",
                                                          as |-> storage'.token]]
                          /\ wsRef' = k
    BY <1>1 DEF NotificationEffect
  <2>2. [phase |-> "open", as |-> storage'.token] \in Link
    BY DEF Link
  <2> QED
    BY <2>1, <2>2, Updates DEF LinksTyped, Slots
<1>2. CASE ~auth /\ session.auth
  <2>1. links' = CloseRef(links) /\ wsRef' = 0
    BY <1>2 DEF NotificationEffect
  <2> QED
    BY <2>1, CloseRefTyped DEF LinksTyped
<1>3. CASE auth = session.auth
  <2>1. links' = links /\ wsRef' = wsRef
    BY <1>3 DEF NotificationEffect
  <2> QED
    BY <2>1 DEF LinksTyped
<1> QED
  BY <1>1, <1>2, <1>3

\* The render: an account is authenticated only with a token.
LEMMA Rendered ==
  ASSUME LinksTyped, session.auth \in BOOLEAN,
         NEW t \in Users \cup {Nobody}, NEW u \in User, Render(t, u),
         storage'.token \in Users \cup {Nobody}
  PROVE  /\ session'.token = t /\ session'.user = u
         /\ session' \in [token : Users \cup {Nobody}, user : User, auth : BOOLEAN]
         /\ session'.auth => t # Nobody
         /\ LinksTyped'
<1>1. IsAuthenticated(t, u) \in BOOLEAN /\ (IsAuthenticated(t, u) => t # Nobody)
  BY DEF IsAuthenticated
<1>2. session' = [token |-> t, user |-> u, auth |-> IsAuthenticated(t, u)]
  BY DEF Render
<1>3. NotificationEffect(IsAuthenticated(t, u))
  BY DEF Render
<1> QED
  BY <1>1, <1>2, <1>3, EffectTyped

-----------------------------------------------------------------------------
(* The invariant, part by part. *)

Tokens == Users \cup {Nobody}
Stored == [token : Tokens, user : User, perConv : [Convs -> 0..MaxUnread], count : 0..MaxUnread]
Shown  == [token : Tokens, user : User, auth : BOOLEAN]
Badge  == [perConv : [Convs -> 0..MaxUnread], count : 0..MaxUnread]
Calls  == [kind : {"login", "google", "avatar"}, as : Users]

AccountsTyped == storage \in Stored /\ session \in Shown /\ alive \subseteq Users
BadgeTyped    == unread \in Badge
PageTyped     == /\ toasts \in [Listings -> 0..MaxToasts] /\ timers \in Seq(Listings)
                 /\ calls \subseteq Calls
                 /\ navbar \in [msgOpen : BOOLEAN, uploading : BOOLEAN]

Parts == AccountsTyped /\ BadgeTyped /\ PageTyped /\ LinksTyped /\ UnreadAddsUp /\ Owned

LEMMA PartsOfInv == Parts <=> SessionInv
  BY DEF Parts, SessionInv, SessionTypeOK, AccountsTyped, BadgeTyped, PageTyped, LinksTyped,
         Tokens, Stored, Shown, Badge, Calls, Link

\* Signing in or out changes token and user in storage, and nothing else of it.
LEMMA StorageUpdates ==
  ASSUME NEW s \in Stored, NEW t \in Tokens, NEW u \in User, NEW r,
         \/ r = [s EXCEPT !.token = t, !.user = u]
         \/ r = [s EXCEPT !.user = u] /\ t = s.token
  PROVE  r \in Stored /\ r.token = t /\ r.user = u /\ r.perConv = s.perConv /\ r.count = s.count
  BY DEF Stored

\* The badge is the total of the entries, in a form without the fold.
BadgeIsTotal == /\ unread.count = Total(unread.perConv)
                /\ storage.count = unread.count /\ storage.perConv = unread.perConv

LEMMA BadgeSum == (UnreadAddsUp <=> BadgeIsTotal) /\ (UnreadAddsUp' <=> BadgeIsTotal')
<1>1. FoldFunction(+, 0, unread.perConv) = Total(unread.perConv)
  BY Zenon DEF Total
<1>2. UnreadAddsUp <=> BadgeIsTotal
  BY <1>1, Zenon DEF UnreadAddsUp, BadgeIsTotal
<1> QED
  BY <1>2, PTL

\* A step that leaves the accounts and the badge alone.
LEMMA SameAccounts ==
  ASSUME Parts, UNCHANGED <<storage, session, unread>>, alive' \subseteq Users
  PROVE  AccountsTyped' /\ BadgeTyped' /\ UnreadAddsUp' /\ Owned'
  BY BadgeSum DEF Parts, AccountsTyped, BadgeTyped, BadgeIsTotal, Owned

\* A step that leaves the badge alone, and its copy in storage.
LEMMA SameBadge ==
  ASSUME Parts, UNCHANGED unread, storage'.perConv = storage.perConv,
         storage'.count = storage.count
  PROVE  BadgeTyped' /\ UnreadAddsUp'
  BY BadgeSum DEF Parts, BadgeTyped, BadgeIsTotal

LEMMA NoUserTyped == NoUser \in User /\ NoUser.id = Nobody
  BY DEF NoUser, User

LEMMA PageSteps ==
  ASSUME Parts
  PROVE  /\ \A u \in Users : StartLogin("login", u) \/ StartLogin("google", u)
                                 \/ TokenExpires(u) => Parts'
         /\ \A c \in calls : CallFails(c) => Parts'
         /\ handleAvatarChange \/ ToastTimer \/ handleMsgClick \/ CloseDropdown => Parts'
         /\ \A k \in Slots, l \in Listings : AuctionNotice(k, l) => Parts'
<1> USE DEF PageTyped
<1>0. AccountsTyped /\ BadgeTyped /\ PageTyped /\ LinksTyped /\ UnreadAddsUp /\ Owned
  BY DEF Parts
<1>1. ASSUME NEW u \in Users, NEW kind \in {"login", "google"}, StartLogin(kind, u)
      PROVE  Parts'
  <2>1. [kind |-> kind, as |-> u] \in Calls
    BY DEF Calls
  <2>2. UNCHANGED <<storage, session, alive, unread, links, wsRef, toasts, timers, navbar>>
        /\ calls' \subseteq Calls
    BY <1>0, <1>1, <2>1 DEF StartLogin
  <2> QED
    BY <1>0, <2>2, SameAccounts DEF Parts, LinksTyped, AccountsTyped
<1>2. ASSUME NEW u \in Users, TokenExpires(u) PROVE Parts'
  BY <1>0, <1>2, SameAccounts DEF TokenExpires, Parts, LinksTyped, AccountsTyped
<1>3. ASSUME NEW c \in calls, CallFails(c) PROVE Parts'
  <2>1. (c.kind # "avatar") \in BOOLEAN /\ navbar' \in [msgOpen : BOOLEAN, uploading : BOOLEAN]
    BY <1>0, <1>3 DEF CallFails
  <2> QED
    BY <1>0, <1>3, <2>1, SameAccounts DEF CallFails, Parts, LinksTyped, AccountsTyped
<1>4. CASE handleAvatarChange
  <2>1. storage.token \in Users
    BY <1>0, <1>4 DEF handleAvatarChange, AvatarShown, Owned, AccountsTyped, Shown, Tokens
  <2>2. [kind |-> "avatar", as |-> storage.token] \in Calls
    BY <2>1 DEF Calls
  <2> QED
    BY <1>0, <1>4, <2>2, SameAccounts DEF handleAvatarChange, Parts, LinksTyped, AccountsTyped
<1>5. CASE ToastTimer
  <2>1. toasts' \in [Listings -> 0..MaxToasts] /\ timers' \in Seq(Listings)
    BY <1>0, <1>5 DEF ToastTimer
  <2> QED
    BY <1>0, <1>5, <2>1, SameAccounts DEF ToastTimer, Parts, LinksTyped, AccountsTyped
<1>6. CASE handleMsgClick \/ CloseDropdown
  <2>1. navbar' \in [msgOpen : BOOLEAN, uploading : BOOLEAN]
    BY <1>0, <1>6 DEF handleMsgClick, CloseDropdown
  <2> QED
    BY <1>0, <1>6, <2>1, SameAccounts
       DEF handleMsgClick, CloseDropdown, Parts, LinksTyped, AccountsTyped
<1>7. ASSUME NEW k \in Slots, NEW l \in Listings, AuctionNotice(k, l) PROVE Parts'
  <2>1. toasts[l] + 1 \in 0..MaxToasts
    BY <1>0, <1>7 DEF AuctionNotice, showToast
  <2>2. toasts' \in [Listings -> 0..MaxToasts] /\ timers' \in Seq(Listings)
    BY <1>0, <1>7, <2>1 DEF AuctionNotice, showToast
  <2> QED
    BY <1>0, <1>7, <2>2, SameAccounts DEF AuctionNotice, Parts, LinksTyped, AccountsTyped
<1> QED
  BY <1>1, <1>2, <1>3, <1>4, <1>5, <1>6, <1>7

LEMMA AccountSteps ==
  ASSUME Parts
  PROVE  /\ \A c \in calls : login(c) \/ googleLogin(c) \/ updatePicture(c) => Parts'
         /\ handleLogout => Parts'
<1>0. AccountsTyped /\ BadgeTyped /\ PageTyped /\ LinksTyped /\ UnreadAddsUp /\ Owned
  BY DEF Parts
<1>1. /\ storage \in Stored /\ session \in Shown /\ alive \subseteq Users
      /\ session.auth \in BOOLEAN /\ session.token \in Tokens
      /\ storage.token \in Tokens /\ storage.user \in User /\ calls \subseteq Calls
  BY <1>0 DEF AccountsTyped, Stored, Shown, PageTyped
<1>2. ASSUME NEW c \in calls, SignedIn(c) PROVE Parts'
  <2> DEFINE user == [id |-> c.as, picture |-> Nobody]
  <2>1. c.as \in Users /\ c.as # Nobody /\ c.as \in Tokens /\ user \in User /\ user.id = c.as
    BY <1>1 DEF Calls, Tokens, User
  <2>2. /\ storage' \in Stored /\ storage'.token = c.as /\ storage'.user = user
        /\ storage'.perConv = storage.perConv /\ storage'.count = storage.count
    BY <1>1, <1>2, <2>1 DEF SignedIn, Stored
  <2>3. session' \in Shown /\ session'.token = c.as /\ session'.user = user /\ alive' \subseteq Users
    BY <1>1, <1>2, <2>1 DEF SignedIn, Shown
  <2>4. LinksTyped'
    BY <1>0, <1>1, <1>2, <2>1, <2>2, EffectTyped DEF SignedIn, Tokens
  <2>5. PageTyped'
    BY <1>0, <1>2 DEF SignedIn, PageTyped
  <2>6. BadgeTyped' /\ UnreadAddsUp'
    BY <1>2, <2>2, SameBadge DEF SignedIn
  <2> QED
    BY <2>1, <2>2, <2>3, <2>4, <2>5, <2>6 DEF Parts, AccountsTyped, Owned
<1>3. ASSUME NEW c \in calls, updatePicture(c) PROVE Parts'
  <2> DEFINE user == [storage.user EXCEPT !.picture = c.as]
  <2>1. user \in User /\ user.id = storage.user.id
    BY <1>1 DEF Calls, User
  <2>2. /\ storage' \in Stored /\ storage'.token = storage.token /\ storage'.user = user
        /\ storage'.perConv = storage.perConv /\ storage'.count = storage.count
    BY <1>1, <1>3, <2>1 DEF updatePicture, Stored
  <2>3. Render(session.token, user)
    BY <1>3 DEF updatePicture
  <2>4. /\ session'.token = session.token /\ session'.user = user /\ session' \in Shown
        /\ (session'.auth => session.token # Nobody) /\ LinksTyped'
    BY <1>0, <1>1, <2>1, <2>2, <2>3, Rendered DEF Shown, Tokens
  <2>5. PageTyped'
    <3>1. navbar' \in [msgOpen : BOOLEAN, uploading : BOOLEAN]
      BY <1>0, <1>3 DEF updatePicture, PageTyped
    <3> QED
      BY <1>0, <1>3, <3>1 DEF updatePicture, PageTyped
  <2>6. BadgeTyped' /\ UnreadAddsUp' /\ alive' = alive
    BY <1>3, <2>2, SameBadge DEF updatePicture
  <2> QED
    BY <1>0, <1>1, <2>1, <2>2, <2>4, <2>5, <2>6 DEF Parts, AccountsTyped, Owned
<1>4. CASE handleLogout
  <2>1. Nobody \in Tokens /\ NoUser \in User
    BY NoUserTyped DEF Tokens
  <2>2. /\ storage' \in Stored /\ storage'.token = Nobody
        /\ storage'.perConv = storage.perConv /\ storage'.count = storage.count
    BY <1>1, <1>4, <2>1 DEF handleLogout, logout, Stored
  <2>3. Render(Nobody, NoUser)
    BY <1>4 DEF handleLogout, logout
  <2>4. /\ session'.token = Nobody /\ session' \in Shown
        /\ ~session'.auth /\ LinksTyped'
    BY <1>0, <1>1, <2>1, <2>2, <2>3, Rendered DEF Shown, Tokens
  <2>5. BadgeTyped' /\ UnreadAddsUp' /\ alive' = alive /\ PageTyped'
    BY <1>0, <1>4, <2>2, SameBadge DEF handleLogout, PageTyped
  <2> QED
    BY <1>1, <2>2, <2>4, <2>5 DEF Parts, AccountsTyped, Owned
<1> QED
  BY <1>2, <1>3, <1>4 DEF login, googleLogin

\* The effects that write the badge to storage leave the account there alone.
LEMMA Persisted ==
  ASSUME Parts, Persist, UNCHANGED session, unread' \in Badge, alive' = alive,
         unread'.count = Total(unread'.perConv)
  PROVE  AccountsTyped' /\ BadgeTyped' /\ UnreadAddsUp' /\ Owned'
<1>1. storage \in Stored /\ session \in Shown /\ alive \subseteq Users /\ Owned
  BY DEF Parts, AccountsTyped
<1>2. /\ storage' \in Stored
      /\ storage'.token = storage.token /\ storage'.user = storage.user
      /\ storage'.perConv = unread'.perConv /\ storage'.count = unread'.count
  BY <1>1 DEF Persist, Stored, Badge
<1> QED
  BY <1>1, <1>2, BadgeSum DEF AccountsTyped, BadgeTyped, BadgeIsTotal, Owned

LEMMA BadgeSteps ==
  ASSUME Parts
  PROVE  /\ \A k \in Slots, c \in Convs : NewMessage(k, c) => Parts'
         /\ clearUnread => Parts'
         /\ \A c \in Convs : clearUnreadForConversation(c) => Parts'
<1>0. AccountsTyped /\ BadgeTyped /\ PageTyped /\ LinksTyped /\ UnreadAddsUp /\ Owned
  BY DEF Parts
<1>1. /\ unread \in Badge /\ unread.count \in 0..MaxUnread
      /\ unread.perConv \in [Convs -> 0..MaxUnread] /\ unread.perConv \in Counts
      /\ \A c \in Convs : unread.perConv[c] \in Nat
      /\ unread.count = Total(unread.perConv)
  BY <1>0, BadgeSum DEF BadgeTyped, Badge, Counts, BadgeIsTotal
<1>2. ASSUME NEW f \in Counts, Total(f) <= MaxUnread
      PROVE  [perConv |-> f, count |-> Total(f)] \in Badge
  <2>1. Total(f) \in Nat /\ \A c \in Convs : f[c] <= Total(f)
    BY TotalBounds
  <2>2. f \in [Convs -> 0..MaxUnread]
    BY <1>2, <2>1 DEF Counts
  <2> QED
    BY <1>2, <2>1, <2>2 DEF Badge
<1>3. ASSUME NEW k \in Slots, NEW c \in Convs, NewMessage(k, c) PROVE Parts'
  <2> DEFINE f == [unread.perConv EXCEPT ![c] = unread.perConv[c] + 1]
  <2>1. f \in Counts /\ Total(f) = unread.count + 1
    <3>1. unread.perConv[c] \in Nat /\ unread.perConv[c] + 1 \in Nat
      BY <1>1
    <3>2. f \in Counts /\ Total(f) = Total(unread.perConv) - unread.perConv[c] + (unread.perConv[c] + 1)
      BY <1>1, <3>1, TotalOfChange
    <3> HIDE DEF f
    <3> QED
      BY <1>1, <3>1, <3>2
  <2> HIDE DEF f
  <2>2. unread' = [perConv |-> f, count |-> Total(f)] /\ Total(f) <= MaxUnread
    <3>1. unread' = [perConv |-> f, count |-> unread.count + 1] /\ unread.count < MaxUnread
      BY <1>3 DEF NewMessage, addUnread, f
    <3> QED
      BY <1>1, <2>1, <3>1
  <2>3. unread' \in Badge /\ unread'.count = Total(unread'.perConv)
    BY <1>2, <2>1, <2>2
  <2>4. AccountsTyped' /\ BadgeTyped' /\ UnreadAddsUp' /\ Owned'
    BY <1>3, <2>3, Persisted DEF NewMessage, addUnread
  <2> QED
    BY <1>0, <1>3, <2>4 DEF NewMessage, Parts, PageTyped, LinksTyped
<1>4. CASE clearUnread
  <2> DEFINE f == [c \in Convs |-> 0]
  <2>1. f \in Counts /\ Total(f) = 0
    BY TotalOfZeros DEF Counts
  <2> HIDE DEF f
  <2>2. unread' = [perConv |-> f, count |-> Total(f)] /\ Total(f) <= MaxUnread
    BY <1>4, <2>1 DEF clearUnread, f
  <2>3. unread' \in Badge /\ unread'.count = Total(unread'.perConv)
    BY <1>2, <2>1, <2>2
  <2>4. AccountsTyped' /\ BadgeTyped' /\ UnreadAddsUp' /\ Owned'
    BY <1>4, <2>3, Persisted DEF clearUnread
  <2> QED
    BY <1>0, <1>4, <2>4 DEF clearUnread, Parts, PageTyped, LinksTyped
<1>5. ASSUME NEW c \in Convs, clearUnreadForConversation(c) PROVE Parts'
  <2> DEFINE f == [unread.perConv EXCEPT ![c] = 0]
  <2>1. f \in Counts /\ Total(f) = unread.count - unread.perConv[c]
    <3>1. f \in Counts /\ Total(f) = Total(unread.perConv) - unread.perConv[c] + 0
      BY <1>1, TotalOfChange
    <3> HIDE DEF f
    <3> QED
      BY <1>1, <3>1
  <2> HIDE DEF f
  <2>2. unread.count - unread.perConv[c] \in Nat
    BY <1>1, TotalBounds
  <2>3. Max({0, unread.count - unread.perConv[c]}) = unread.count - unread.perConv[c]
    BY <2>2, MaxWithZero
  <2>4. unread' = [perConv |-> f, count |-> Total(f)] /\ Total(f) <= MaxUnread
    <3>1. unread' = [perConv |-> f, count |-> Max({0, unread.count - unread.perConv[c]})]
      BY <1>5 DEF clearUnreadForConversation, f
    <3> QED
      BY <1>1, <2>1, <2>2, <2>3, <3>1
  <2>5. unread' \in Badge /\ unread'.count = Total(unread'.perConv)
    BY <1>2, <2>1, <2>4
  <2>6. AccountsTyped' /\ BadgeTyped' /\ UnreadAddsUp' /\ Owned'
    BY <1>5, <2>5, Persisted DEF clearUnreadForConversation
  <2> QED
    BY <1>0, <1>5, <2>6 DEF clearUnreadForConversation, Parts, PageTyped, LinksTyped
<1> QED
  BY <1>3, <1>4, <1>5

LEMMA LinkSteps ==
  ASSUME Parts
  PROVE  /\ \A k \in Slots : OnClose(k) \/ Reconnect(k) => Parts'
         /\ Reload => Parts'
<1>0. AccountsTyped /\ BadgeTyped /\ PageTyped /\ LinksTyped /\ UnreadAddsUp /\ Owned
  BY DEF Parts
<1>1. /\ storage \in Stored /\ session \in Shown /\ alive \subseteq Users
      /\ storage.token \in Tokens /\ storage.user \in User
      /\ links \in [Slots -> Link] /\ wsRef \in 0..MaxLinks
  BY <1>0 DEF AccountsTyped, Stored, Shown, LinksTyped
<1>2. /\ Down \in Link /\ [phase |-> "waiting", as |-> Nobody] \in Link
      /\ \A t \in Tokens : SocketOf(t) \in Link
  BY DEF Down, Link, SocketOf, Tokens
<1>3. Nobody \in Tokens /\ NoUser \in User /\ isTokenExpired(Nobody)
  BY <1>1, NoUserTyped DEF Tokens, isTokenExpired
<1>4. ASSUME NEW k \in Slots, OnClose(k) PROVE Parts'
  <2>1. PageTyped' /\ UNCHANGED <<alive, unread>>
    BY <1>0, <1>4 DEF OnClose, PageTyped
  <2>2. CASE LogoutOnClose(k)
    <3>1. /\ storage' \in Stored /\ storage'.token = Nobody
          /\ storage'.perConv = storage.perConv /\ storage'.count = storage.count
      BY <1>1, <1>3, <2>2 DEF LogoutOnClose, Stored
    <3>2. session' \in Shown /\ session'.token = Nobody /\ ~session'.auth
      BY <1>3, <2>2 DEF LogoutOnClose, Shown
    <3>3. LinksTyped'
      <4>1. (IF session.auth THEN CloseRef(links) ELSE links) \in [Slots -> Link]
        BY <1>0, <1>1, CloseRefTyped
      <4>2. links' \in [Slots -> Link]
        BY <1>2, <2>2, <4>1, Updates DEF LogoutOnClose
      <4> QED
        BY <1>1, <2>2, <4>2 DEF LogoutOnClose, LinksTyped
    <3> QED
      BY <1>1, <2>1, <3>1, <3>2, <3>3, SameBadge DEF Parts, AccountsTyped, Owned
  <2>3. CASE RetryOnClose(k)
    <3>1. LinksTyped'
      BY <1>1, <1>2, <2>3, Updates DEF RetryOnClose, LinksTyped
    <3> QED
      BY <1>1, <2>1, <2>3, <3>1, SameAccounts DEF Parts, RetryOnClose
  <2> QED
    BY <1>4, <2>2, <2>3 DEF OnClose
<1>5. ASSUME NEW k \in Slots, Reconnect(k) PROVE Parts'
  <2>1. LinksTyped'
    <3>1. CASE storage.token # Nobody
      BY <1>1, <1>2, <1>5, <3>1, Updates DEF Reconnect, LinksTyped, Slots
    <3>2. CASE storage.token = Nobody
      BY <1>1, <1>2, <1>5, <3>2, Updates DEF Reconnect, LinksTyped
    <3> QED
      BY <3>1, <3>2
  <2> QED
    BY <1>0, <1>1, <1>5, <2>1, SameAccounts DEF Reconnect, Parts, PageTyped
<1>6. CASE Reload
  <2> DEFINE token == InitialToken
             user  == LoadUser(token)
             auth  == IsAuthenticated(token, user)
  <2>1. /\ token \in Tokens /\ user \in User /\ auth \in BOOLEAN /\ (auth => token # Nobody)
        /\ token # Nobody => token = storage.token /\ user = storage.user
    BY <1>1, <1>3 DEF InitialToken, LoadUser, IsAuthenticated
  <2>2. /\ session' = [token |-> token, user |-> user, auth |-> auth]
        /\ storage' = IF token = Nobody
                        THEN [storage EXCEPT !.token = Nobody, !.user = NoUser] ELSE storage
        /\ links' = [k \in Slots |-> IF auth /\ k = 1 THEN SocketOf(token) ELSE Down]
        /\ wsRef' = IF auth THEN 1 ELSE 0
    BY <1>6 DEF Reload
  <2>3. /\ unread' = [perConv |-> storage.perConv, count |-> storage.count] /\ alive' = alive
        /\ PageTyped'
    BY <1>6 DEF Reload, InitialUnread, PageTyped
  <2> HIDE DEF token, user, auth
  <2>4. /\ storage' \in Stored
        /\ storage'.perConv = storage.perConv /\ storage'.count = storage.count
        /\ storage'.token # Nobody => storage' = storage
        /\ token # Nobody => storage' = storage
    BY <1>1, <1>3, <2>2 DEF Stored
  <2>5. session' \in Shown /\ session'.token = token /\ session'.user = user /\ session'.auth = auth
    BY <2>1, <2>2 DEF Shown
  <2>6. LinksTyped'
    BY <1>2, <2>1, <2>2 DEF LinksTyped
  <2>7. unread' = unread
    <3>1. storage.count = unread.count /\ storage.perConv = unread.perConv
      BY <1>0, BadgeSum DEF BadgeIsTotal
    <3>2. unread = [perConv |-> unread.perConv, count |-> unread.count]
      BY <1>0 DEF BadgeTyped, Badge
    <3> QED
      BY <2>3, <3>1, <3>2
  <2>8. BadgeTyped' /\ UnreadAddsUp'
    BY <2>4, <2>7, SameBadge
  <2>9. Owned'
    BY <1>0, <2>1, <2>4, <2>5 DEF Owned
  <2> QED
    BY <1>1, <2>3, <2>4, <2>5, <2>6, <2>8, <2>9 DEF Parts, AccountsTyped
<1> QED
  BY <1>4, <1>5, <1>6

-----------------------------------------------------------------------------
(* The theorems. *)

LEMMA SessionInit == Init => Parts
<1> SUFFICES ASSUME Init PROVE Parts
  OBVIOUS
<1>1. Nobody \in Tokens /\ NoUser \in User /\ NoUser.id = Nobody
  BY NoUserTyped DEF Tokens
<1>2. [c \in Convs |-> 0] \in [Convs -> 0..MaxUnread]
  OBVIOUS
<1>3. AccountsTyped /\ Owned
  BY <1>1, <1>2 DEF Init, AccountsTyped, Stored, Shown, Owned
<1>4. BadgeTyped /\ PageTyped /\ LinksTyped
  BY <1>2 DEF Init, BadgeTyped, Badge, PageTyped, LinksTyped, Link, Down
<1>5. UnreadAddsUp
  BY <1>2, BadgeSum, TotalOfZeros DEF Init, BadgeIsTotal
<1> QED
  BY <1>3, <1>4, <1>5 DEF Parts

LEMMA SessionNext == Parts /\ [Next]_vars => Parts'
<1> SUFFICES ASSUME Parts, [Next]_vars PROVE Parts'
  OBVIOUS
<1>1. CASE Next
  BY <1>1, PageSteps, AccountSteps, BadgeSteps, LinkSteps DEF Next
<1>2. CASE UNCHANGED vars
  <2>1. AccountsTyped' /\ BadgeTyped' /\ UnreadAddsUp' /\ Owned'
    BY <1>2, SameAccounts DEF vars, Parts, AccountsTyped
  <2> QED
    BY <1>2, <2>1 DEF vars, Parts, PageTyped, LinksTyped
<1> QED
  BY <1>1, <1>2

\* The invariant holds in every state of every session.
THEOREM SessionInvariance == SessionSpec => []SessionInv
<1>1. SessionSpec => []Parts
  BY SessionInit, SessionNext, PTL DEF SessionSpec
<1> QED
  BY <1>1, PartsOfInv, PTL

\* State, storage, sockets, toasts and requests keep their types and bounds.
THEOREM SessionTyped == SessionSpec => []SessionTypeOK
<1>1. SessionInv => SessionTypeOK
  BY DEF SessionInv
<1> QED
  BY <1>1, SessionInvariance, PTL

\* The badge is the sum of the entries of the dropdown, on the screen and in storage.
THEOREM BadgeAddsUp == SessionSpec => []UnreadAddsUp
<1>1. SessionInv => UnreadAddsUp
  BY DEF SessionInv
<1> QED
  BY <1>1, SessionInvariance, PTL

\* The account shown as signed in is the one the page acts for.
THEOREM AccountIsRight == SessionSpec => []RightAccount
<1>1. SessionInv => RightAccount
  BY DEF SessionInv, Owned, RightAccount
<1> QED
  BY <1>1, SessionInvariance, PTL

LEMMA SignOutStep ==
  ASSUME Parts, [Next]_vars, session.auth, ~session'.auth, session.token \in alive
  PROVE  handleLogout
<1>1. /\ session.token # Nobody /\ storage.token = session.token
      /\ storage.user.id = session.token /\ session.user.id = session.token
      /\ storage \in Stored /\ session \in Shown /\ storage.user \in User
      /\ alive \subseteq Users /\ calls \subseteq Calls
  BY DEF Parts, Owned, AccountsTyped, PageTyped, Stored
<1>2. UNCHANGED session => FALSE
  OBVIOUS
<1>3. ASSUME NEW u \in Users, StartLogin("login", u) \/ StartLogin("google", u) \/ TokenExpires(u)
      PROVE  FALSE
  BY <1>2, <1>3 DEF StartLogin, TokenExpires
<1>4. ASSUME NEW c \in calls, login(c) \/ googleLogin(c) \/ CallFails(c)
      PROVE  FALSE
  <2>1. CASE SignedIn(c)
    <3>1. session' = [token |-> c.as, user |-> [id |-> c.as, picture |-> Nobody], auth |-> TRUE]
      BY <2>1 DEF SignedIn
    <3>2. session'.auth = TRUE
      BY <3>1
    <3> QED
      BY <3>2
  <2>2. CASE CallFails(c)
    BY <1>2, <2>2 DEF CallFails
  <2> QED
    BY <1>4, <2>1, <2>2 DEF login, googleLogin
<1>5. ASSUME NEW c \in calls, updatePicture(c)
      PROVE  FALSE
  <2> DEFINE user == [storage.user EXCEPT !.picture = c.as]
  <2>1. user.id = session.token
    BY <1>1 DEF User
  <2>2. user # NoUser
    BY <1>1, <2>1, NoUserTyped
  <2>3. session' = [token |-> session.token, user |-> user,
                    auth |-> IsAuthenticated(session.token, user)]
    BY <1>5 DEF updatePicture, Render
  <2> HIDE DEF user
  <2> QED
    BY <1>1, <2>2, <2>3 DEF IsAuthenticated, isTokenExpired
<1>6. ASSUME NEW k \in Slots, OnClose(k) PROVE FALSE
  <2>1. ~isTokenExpired(storage.token)
    BY <1>1 DEF isTokenExpired
  <2>2. RetryOnClose(k)
    BY <1>6, <2>1, Zenon DEF OnClose
  <2> QED
    BY <1>2, <2>2 DEF RetryOnClose
<1>7. ASSUME NEW k \in Slots,
             \/ Reconnect(k) \/ \E c \in Convs : NewMessage(k, c)
             \/ \E l \in Listings : AuctionNotice(k, l)
      PROVE  FALSE
  BY <1>2, <1>7 DEF Reconnect, NewMessage, AuctionNotice
<1>8. ASSUME \/ handleAvatarChange \/ ToastTimer \/ clearUnread \/ handleMsgClick
             \/ CloseDropdown \/ \E c \in Convs : clearUnreadForConversation(c)
      PROVE  FALSE
  BY <1>2, <1>8 DEF handleAvatarChange, ToastTimer, clearUnread, handleMsgClick,
                    CloseDropdown, clearUnreadForConversation
<1>9. ASSUME Reload PROVE FALSE
  <2>1. InitialToken = session.token /\ LoadUser(InitialToken) = storage.user
    BY <1>1 DEF InitialToken, LoadUser, isTokenExpired
  <2>2. session'.auth = IsAuthenticated(session.token, storage.user)
    BY <1>9, <2>1 DEF Reload
  <2>3. storage.user # NoUser
    BY <1>1, NoUserTyped
  <2> QED
    BY <1>1, <2>2, <2>3 DEF IsAuthenticated, isTokenExpired
<1> QED
  BY <1>2, <1>3, <1>4, <1>5, <1>6, <1>7, <1>8, <1>9 DEF Next, vars

\* Only the user signs herself out, or the end of her token: no lost
\* connection, no late answer and no reload does.
THEOREM OnlyWantedSignOuts == SessionSpec => NoSpuriousSignOut
<1>1. Parts /\ [Next]_vars =>
        [session.auth /\ ~session.auth' => handleLogout \/ session.token \notin alive]_vars
  BY SignOutStep
<1>2. SessionSpec => []Parts
  BY SessionInit, SessionNext, PTL DEF SessionSpec
<1> QED
  BY <1>1, <1>2, PTL DEF SessionSpec, NoSpuriousSignOut
=============================================================================
