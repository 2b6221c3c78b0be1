------------------------ MODULE ProxyBidding_proofs ------------------------
(***************************************************************************)
(* Theorems of ProxyBidding, for every set of users, handlers, amounts and *)
(* prices, every increment and every end. The argument: a handler between  *)
(* its read and its commit owns the row and has read what is still there   *)
(* (Control); what one commit does to the ledger, the proxy and the users' *)
(* maxima keeps them in agreement (Agreement).                             *)
(***************************************************************************)
EXTENDS ProxyBidding, TLAPS

Rows == [bidder : Bidders, amount : Nat]

-----------------------------------------------------------------------------
(* The ledger.                                                             *)

\* A ledger that has a top row.
HasTop(L) == L # <<>> /\ \E i \in DOMAIN L : IsTop(i, L)

\* The CHOOSE of TopBid finds a top row, and no row is above it.
LEMMA TopIsGreatest ==
  ASSUME NEW L \in Seq(Rows), HasTop(L)
  PROVE  /\ TopBid(L) \in Rows
         /\ \A j \in DOMAIN L : L[j].amount <= TopBid(L).amount
         /\ \E i \in DOMAIN L : TopBid(L) = L[i] /\ IsTop(i, L)
<1> DEFINE t == CHOOSE i \in DOMAIN L : IsTop(i, L)
<1>1. t \in DOMAIN L /\ IsTop(t, L)
  BY DEF HasTop
<1>2. \A j \in DOMAIN L : L[j] \in Rows
  OBVIOUS
<1>3. TopBid(L) = L[t]
  BY DEF TopBid
<1> HIDE DEF t
<1>4. \A j \in DOMAIN L : L[j].amount <= L[t].amount
  BY <1>1, <1>2 DEF IsTop, Rows
<1> QED
  BY <1>1, <1>2, <1>3, <1>4

\* A row appended to a ledger is the new top when it is above the old one, and
\* changes nothing otherwise.
LEMMA TopAfterAppend ==
  ASSUME NEW L \in Seq(Rows), NEW r \in Rows, L = <<>> \/ HasTop(L)
  PROVE  /\ Append(L, r) \in Seq(Rows)
         /\ HasTop(Append(L, r))
         /\ TopBid(Append(L, r)).amount =
              IF L = <<>> \/ r.amount > TopBid(L).amount
                THEN r.amount ELSE TopBid(L).amount
<1> DEFINE M == Append(L, r)
           n == Len(L) + 1
<1>1. /\ M \in Seq(Rows) /\ M # <<>> /\ Len(L) \in Nat
      /\ DOMAIN L = 1 .. Len(L) /\ DOMAIN M = 1 .. n
      /\ M[n] = r /\ \A j \in DOMAIN L : M[j] = L[j] /\ L[j] \in Rows
  OBVIOUS
<1>2. /\ r.amount \in Nat /\ \A j \in DOMAIN L : L[j].amount \in Nat
      /\ n \in Nat /\ n = Len(L) + 1
      /\ n \in DOMAIN M /\ DOMAIN L \subseteq DOMAIN M
      /\ L = <<>> => DOMAIN M = {n}
  BY <1>1 DEF Rows
<1> HIDE DEF M, n
<1>3. CASE L = <<>>
  <2>1. DOMAIN M = {n}
    BY <1>2, <1>3
  <2>2. IsTop(n, M)
    BY <2>1, <1>1, <1>2 DEF IsTop
  <2>3. HasTop(M)
    BY <2>1, <2>2, <1>1, <1>2 DEF HasTop
  <2>4. PICK i \in DOMAIN M : TopBid(M) = M[i]
    BY <2>3, <1>1, TopIsGreatest
  <2> QED
    BY <2>1, <2>3, <2>4, <1>1, <1>3 DEF M
<1>4. CASE L # <<>>
  <2>1. PICK t \in DOMAIN L : TopBid(L) = L[t] /\ IsTop(t, L)
    BY <1>4, TopIsGreatest
  <2>2. CASE r.amount > L[t].amount
    <3>1. IsTop(n, M)
      BY <2>1, <2>2, <1>1, <1>2 DEF IsTop
    <3>2. HasTop(M)
      BY <3>1, <1>1, <1>2 DEF HasTop
    <3>3. PICK i \in DOMAIN M : TopBid(M) = M[i] /\ IsTop(i, M)
      BY <3>2, <1>1, TopIsGreatest
    <3>4. i = n
      BY <3>1, <3>3, <1>1, <1>2 DEF IsTop
    <3> QED
      BY <3>2, <3>3, <3>4, <2>1, <2>2, <1>1, <1>2 DEF M
  <2>3. CASE ~(r.amount > L[t].amount)
    <3>1. IsTop(t, M)
      BY <2>1, <2>3, <1>1, <1>2 DEF IsTop
    <3>2. HasTop(M)
      BY <3>1, <2>1, <1>1, <1>2 DEF HasTop
    <3>3. PICK i \in DOMAIN M : TopBid(M) = M[i] /\ IsTop(i, M)
      BY <3>2, <1>1, TopIsGreatest
    <3>4. i = t
      BY <3>1, <3>3, <2>1, <1>1, <1>2 DEF IsTop
    <3> QED
      BY <3>2, <3>3, <3>4, <2>1, <2>3, <1>1, <1>2, <1>4 DEF M
  <2> QED
    BY <2>2, <2>3
<1> QED
  BY <1>3, <1>4

\* What a fight does to the ledger: two rows more, the old ones in place.
LEMMA TwoRows ==
  ASSUME NEW L \in Seq(Rows), HasTop(L), NEW r \in Rows, NEW s \in Rows
  PROVE  LET M == Append(Append(L, r), s) IN
         /\ M \in Seq(Rows) /\ HasTop(M)
         /\ M[1] = L[1]
         /\ \A i \in DOMAIN M : M[i] = r \/ M[i] = s \/ (i \in DOMAIN L /\ M[i] = L[i])
         /\ TopBid(L).amount \in Nat
         /\ r.amount >= TopBid(L).amount /\ s.amount >= r.amount
              => TopBid(M).amount = s.amount
<1> DEFINE K == Append(L, r)
           M == Append(K, s)
<1>1. /\ K \in Seq(Rows) /\ HasTop(K)
      /\ TopBid(K).amount = IF r.amount > TopBid(L).amount
                              THEN r.amount ELSE TopBid(L).amount
  <2>1. L # <<>>
    BY DEF HasTop
  <2> QED
    BY <2>1, TopAfterAppend
<1>2. L # <<>> /\ K # <<>>
  BY <1>1 DEF HasTop
<1>3. /\ M \in Seq(Rows) /\ HasTop(M)
      /\ TopBid(M).amount = IF s.amount > TopBid(K).amount
                              THEN s.amount ELSE TopBid(K).amount
  <2> HIDE DEF K
  <2> QED
    BY <1>1, <1>2, TopAfterAppend
<1>4. TopBid(L).amount \in Nat /\ r.amount \in Nat /\ s.amount \in Nat
  BY TopIsGreatest DEF Rows
<1>5. /\ M[1] = L[1]
      /\ \A i \in DOMAIN M : M[i] = r \/ M[i] = s \/ (i \in DOMAIN L /\ M[i] = L[i])
  <2>1. /\ K[1] = L[1] /\ K \in Seq(Rows)
        /\ \A i \in DOMAIN K : K[i] = r \/ (i \in DOMAIN L /\ K[i] = L[i])
    BY <1>2
  <2> HIDE DEF K
  <2>2. /\ M[1] = K[1]
        /\ \A i \in DOMAIN M : M[i] = s \/ (i \in DOMAIN K /\ M[i] = K[i])
    BY <2>1, <1>2
  <2> QED
    BY <2>1, <2>2
<1> QED
  BY <1>1, <1>3, <1>4, <1>5

-----------------------------------------------------------------------------
(* The inductive invariant.                                                *)

\* What a handler knows while it owns the row.
Knows(h) ==
  /\ pc[h] # "idle" => req[h] \in [user : Users, amount : Amounts]
  /\ pc[h] \in {"locked", "deciding"} =>
       /\ rowLock = h
       /\ req[h].user \in Bidders
       /\ ~listing.isSold
       /\ ~listing.deleted
  /\ pc[h] = "locked" => seen[h].price = listing.price
  /\ pc[h] = "deciding" =>
       /\ seen[h].price = PublicPrice(bids, listing.price)
       /\ seen[h].minimum = MinRequiredBid(bids, listing.price)
       /\ seen[h].proxy = proxy

Control == \A h \in Handlers : Knows(h)

\* The ledger, the proxy row and what the users authorised.
Agreement ==
  /\ bids = <<>> => proxy = NoProxy /\ \A u \in Users : asked[u] = 0
  /\ bids # <<>> => HasTop(bids) /\ proxy.max > 0
  /\ HolderPricedOutRivals
  /\ NeverAboveOwnMax
  /\ SecondPrice

IInv == TypeOK /\ Control /\ Agreement

USE BiddingAssumption

-----------------------------------------------------------------------------
(* What the commits do to Agreement.                                       *)

\* The parts of the type invariant a commit is about.
CommitType ==
  /\ bids \in Seq(Rows)
  /\ proxy \in ProxyRow
  /\ asked \in [Users -> Nat]

\* The first bid (PlaceFirst) leaves holder, price and authorisations agreeing.
LEMMA FirstBidAgrees ==
  ASSUME CommitType, Agreement, NEW u \in Bidders, NEW m \in Amounts,
         NEW p \in Prices, bids = <<>>, m >= p,
         bids' = Append(bids, Row(u, p)),
         proxy' = [bidder |-> u, max |-> m],
         asked' = [asked EXCEPT ![u] = m]
  PROVE  Agreement'
<1>1. u \in Users /\ m \in Nat /\ m > 0 /\ p \in Nat /\ Row(u, p) \in Rows
  BY DEF Bidders, Row, Rows
<1>2. HasTop(bids') /\ TopBid(bids').amount = p
  BY <1>1, TopAfterAppend DEF CommitType, Row
<1>3. bids' = <<Row(u, p)>> /\ bids' # <<>>
  BY DEF CommitType
<1>4. asked'[u] = m /\ \A v \in Users \ {u} : asked'[v] = 0
  BY <1>1 DEF CommitType, Agreement
<1>5. HolderPricedOutRivals'
  BY <1>1, <1>2, <1>4 DEF HolderPricedOutRivals
<1>6. NeverAboveOwnMax'
  BY <1>1, <1>3, <1>4 DEF NeverAboveOwnMax, Row
<1>7. SecondPrice'
  BY <1>2, <1>3 DEF SecondPrice, Row
<1> QED
  BY <1>1, <1>2, <1>3, <1>5, <1>6, <1>7 DEF Agreement

\* So does a holder who raises her maximum (RaiseMax).
LEMMA RaiseMaxAgrees ==
  ASSUME CommitType, Agreement, NEW m \in Amounts,
         proxy # NoProxy, m > proxy.max,
         bids' = bids,
         proxy' = [bidder |-> proxy.bidder, max |-> m],
         asked' = [asked EXCEPT ![proxy.bidder] = m]
  PROVE  Agreement'
<1> DEFINE u == proxy.bidder
<1>1. bids # <<>> /\ HasTop(bids) /\ HasTop(bids')
  BY DEF Agreement
<1>2. u \in Users /\ asked[u] = proxy.max /\ m \in Nat /\ proxy.max \in Nat /\ m > 0
  BY <1>1 DEF Agreement, HolderPricedOutRivals, Bidders, CommitType, ProxyRow
<1>3. /\ asked'[u] = m /\ asked' \in [Users -> Nat]
      /\ \A v \in Users \ {u} : asked'[v] = asked[v]
  BY <1>2 DEF CommitType
<1>4. TopBid(bids).amount \in Nat /\ \A i \in DOMAIN bids : bids[i] \in Rows
  <2>1. bids \in Seq(Rows)
    BY DEF CommitType
  <2>2. TopBid(bids) \in Rows
    BY <2>1, <1>1, TopIsGreatest
  <2>3. \A i \in DOMAIN bids : bids[i] \in Rows
    BY <2>1
  <2>4. TopBid(bids).amount \in Nat
    BY <2>2 DEF Rows
  <2> QED
    BY <2>3, <2>4
<1>5. HolderPricedOutRivals'
  BY <1>1, <1>2, <1>3, <1>4 DEF Agreement, HolderPricedOutRivals
<1>6. NeverAboveOwnMax'
  BY <1>2, <1>3, <1>4 DEF Agreement, NeverAboveOwnMax, Rows, Bidders, CommitType
<1>7. SecondPrice'
  BY <1>1, <1>2, <1>3 DEF Agreement, SecondPrice
<1> QED
  BY <1>1, <1>2, <1>5, <1>6, <1>7 DEF Agreement

\* What Agreement says once there is a proxy.
LEMMA AgreementFacts ==
  ASSUME CommitType, Agreement, proxy # NoProxy
  PROVE  /\ bids # <<>> /\ HasTop(bids)
         /\ proxy.bidder \in Bidders /\ proxy.bidder \in Users
         /\ proxy.max \in Nat /\ proxy.max > 0
         /\ asked[proxy.bidder] = proxy.max
         /\ TopBid(bids).amount \in Nat
         /\ TopBid(bids).amount <= proxy.max
         /\ \A v \in Users \ {proxy.bidder} : asked[v] <= TopBid(bids).amount
         /\ \A v \in Users : asked[v] \in Nat
         /\ \A i \in DOMAIN bids :
              /\ bids[i] \in Rows /\ bids[i].bidder \in Users /\ bids[i].amount \in Nat
              /\ bids[i].amount <= asked[bids[i].bidder]
<1>1. bids # <<>> /\ HasTop(bids) /\ proxy.max > 0
  BY DEF Agreement
<1>2. /\ proxy.bidder \in Bidders /\ asked[proxy.bidder] = proxy.max
      /\ TopBid(bids).amount <= proxy.max
      /\ \A v \in Users \ {proxy.bidder} : asked[v] <= TopBid(bids).amount
  BY <1>1 DEF Agreement, HolderPricedOutRivals
<1>3. proxy.max \in Nat /\ \A v \in Users : asked[v] \in Nat
  BY DEF CommitType, ProxyRow
<1>4. bids \in Seq(Rows) /\ \A i \in DOMAIN bids : bids[i] \in Rows
  BY DEF CommitType
<1>5. TopBid(bids) \in Rows
  BY <1>1, <1>4, TopIsGreatest
<1>6. TopBid(bids).amount \in Nat
  BY <1>5 DEF Rows
<1>7. \A i \in DOMAIN bids : bids[i].bidder \in Users /\ bids[i].amount \in Nat
  BY <1>4 DEF Rows, Bidders
<1>8. \A i \in DOMAIN bids : bids[i].amount <= asked[bids[i].bidder]
  BY DEF Agreement, NeverAboveOwnMax
<1> QED
  BY <1>1, <1>2, <1>3, <1>4, <1>6, <1>7, <1>8 DEF Bidders

\* A fight: the maximum of u is m, and two rows are added, the first of amount a
\* and the second, of at least a, the new public price.
LEMMA FightAgrees ==
  ASSUME CommitType, Agreement, proxy # NoProxy,
         NEW u \in Bidders \ {proxy.bidder}, NEW m \in Amounts,
         m >= TopBid(bids).amount + Inc,
         NEW r \in Rows, NEW s \in Rows,
         bids' = Append(Append(bids, r), s),
         asked' = [asked EXCEPT ![u] = m],
         r.amount >= TopBid(bids).amount, s.amount >= r.amount,
         r.amount <= asked'[r.bidder], s.amount <= asked'[s.bidder],
         proxy' \in ProxyRow, proxy'.bidder \in {u, proxy.bidder},
         proxy'.max = asked'[proxy'.bidder], s.amount <= proxy'.max,
         NEW w \in {u, proxy.bidder} \ {proxy'.bidder},
         asked'[w] <= s.amount, s.amount <= asked'[w] + Inc
  PROVE  Agreement'
<1> DEFINE top == TopBid(bids).amount
<1>1. /\ HasTop(bids') /\ bids' # <<>> /\ bids' \in Seq(Rows)
      /\ TopBid(bids').amount = s.amount
      /\ bids'[1] = bids[1]
      /\ \A i \in DOMAIN bids' :
           bids'[i] = r \/ bids'[i] = s \/ (i \in DOMAIN bids /\ bids'[i] = bids[i])
  <2>1. bids \in Seq(Rows) /\ HasTop(bids)
    BY AgreementFacts DEF CommitType
  <2>2. /\ bids' \in Seq(Rows) /\ HasTop(bids')
        /\ bids'[1] = bids[1]
        /\ \A i \in DOMAIN bids' :
             bids'[i] = r \/ bids'[i] = s \/ (i \in DOMAIN bids /\ bids'[i] = bids[i])
        /\ r.amount >= TopBid(bids).amount /\ s.amount >= r.amount
             => TopBid(bids').amount = s.amount
    <3>1. bids' = Append(Append(bids, r), s)
      OBVIOUS
    <3> QED
      BY <2>1, <3>1, TwoRows
  <2>3. bids' # <<>>
    BY <2>2 DEF HasTop
  <2> QED
    BY <2>2, <2>3
<1>2. /\ m \in Nat /\ m > 0 /\ u \in Users /\ top \in Nat /\ top <= m
      /\ r.amount \in Nat /\ s.amount \in Nat /\ r.bidder \in Users /\ s.bidder \in Users
  BY AgreementFacts DEF Bidders, Rows
<1>3. asked' \in [Users -> Nat] /\ asked'[u] = m /\ \A v \in Users \ {u} : asked'[v] = asked[v]
  BY <1>2 DEF CommitType
<1>4. asked[u] <= top
  BY <1>2, AgreementFacts
<1>5. HolderPricedOutRivals'
  <2>1. proxy'.bidder \in Bidders
    BY AgreementFacts
  <2>2. ASSUME NEW v \in Users \ {proxy'.bidder}
        PROVE  asked'[v] <= s.amount
    <3>1. CASE v = w
      BY <3>1
    <3>2. CASE v # w
      <4>1. v \in Users \ {u, proxy.bidder}
        BY <3>2
      <4>2. asked'[v] = asked[v] /\ asked[v] <= top /\ asked[v] \in Nat
        BY <4>1, <1>3, AgreementFacts
      <4> QED
        BY <4>2, <1>2
    <3> QED
      BY <3>1, <3>2
  <2> QED
    BY <1>1, <2>1, <2>2 DEF HolderPricedOutRivals
<1>6. NeverAboveOwnMax'
  <2>1. ASSUME NEW i \in DOMAIN bids
        PROVE  bids[i].amount <= asked'[bids[i].bidder]
    <3>1. /\ bids[i].bidder \in Users /\ bids[i].amount \in Nat
          /\ bids[i].amount <= asked[bids[i].bidder] /\ asked[bids[i].bidder] \in Nat
      BY AgreementFacts
    <3>2. CASE bids[i].bidder = u
      BY <3>1, <3>2, <1>2, <1>3, <1>4
    <3>3. CASE bids[i].bidder # u
      BY <3>1, <3>3, <1>3
    <3> QED
      BY <3>2, <3>3
  <2>2. ASSUME NEW i \in DOMAIN bids'
        PROVE  bids'[i].amount <= asked'[bids'[i].bidder]
    BY <1>1, <2>1
  <2> QED
    BY <2>2 DEF NeverAboveOwnMax
<1>7. SecondPrice'
  <2>1. w \in Users \ {proxy'.bidder}
    BY <1>2, AgreementFacts
  <2>2. asked'[w] > 0
    BY <1>2, <1>3, AgreementFacts
  <2> QED
    BY <1>1, <2>1, <2>2 DEF SecondPrice
<1>8. proxy'.max > 0
  BY <1>2, <1>3, AgreementFacts
<1> QED
  BY <1>1, <1>5, <1>6, <1>7, <1>8 DEF Agreement

\* So does a challenger who takes the lead (Outbid).
LEMMA OutbidAgrees ==
  ASSUME CommitType, Agreement, proxy # NoProxy,
         NEW u \in Bidders \ {proxy.bidder}, NEW m \in Amounts,
         m >= TopBid(bids).amount + Inc, m > proxy.max,
         NEW fight, fight = Lesser(proxy.max + Inc, m),
         bids' = Append(Append(bids, Row(proxy.bidder, proxy.max)), Row(u, fight)),
         proxy' = [bidder |-> u, max |-> m],
         asked' = [asked EXCEPT ![u] = m]
  PROVE  Agreement'
<1> DEFINE r == Row(proxy.bidder, proxy.max)
           s == Row(u, fight)
<1>1. /\ m \in Nat /\ fight \in Nat /\ u \in Users
      /\ proxy.max <= fight /\ fight <= m /\ fight <= proxy.max + Inc
  BY AgreementFacts DEF Lesser, Bidders
<1>2. /\ r \in Rows /\ r.amount = proxy.max /\ r.bidder = proxy.bidder
      /\ s \in Rows /\ s.amount = fight /\ s.bidder = u
  BY <1>1, AgreementFacts DEF Row, Rows
<1>3. asked'[u] = m /\ asked'[proxy.bidder] = proxy.max
  BY <1>1, AgreementFacts DEF CommitType
<1>4. proxy' \in ProxyRow /\ proxy'.bidder = u /\ proxy'.max = m
  BY <1>1 DEF ProxyRow
<1>5. /\ r.amount >= TopBid(bids).amount /\ s.amount >= r.amount
      /\ r.amount <= asked'[r.bidder] /\ s.amount <= asked'[s.bidder]
      /\ proxy'.max = asked'[proxy'.bidder] /\ s.amount <= proxy'.max
  BY <1>1, <1>2, <1>3, <1>4, AgreementFacts
<1>6. /\ proxy.bidder \in {u, proxy.bidder} \ {proxy'.bidder}
      /\ asked'[proxy.bidder] <= s.amount /\ s.amount <= asked'[proxy.bidder] + Inc
  BY <1>1, <1>2, <1>3, <1>4, AgreementFacts
<1> HIDE DEF r, s
<1>7. bids' = Append(Append(bids, r), s)
  BY DEF r, s
<1> QED
  BY <1>2, <1>4, <1>5, <1>6, <1>7, FightAgrees

\* So does a proxy that answers a challenger (Defend, Tie).
LEMMA DefendAgrees ==
  ASSUME CommitType, Agreement, proxy # NoProxy,
         NEW u \in Bidders \ {proxy.bidder}, NEW m \in Amounts,
         m >= TopBid(bids).amount + Inc, m <= proxy.max,
         NEW fight, fight = Lesser(m + Inc, proxy.max),
         bids' = Append(Append(bids, Row(u, m)), Row(proxy.bidder, fight)),
         proxy' = proxy,
         asked' = [asked EXCEPT ![u] = m]
  PROVE  Agreement'
<1> DEFINE r == Row(u, m)
           s == Row(proxy.bidder, fight)
<1>1. /\ m \in Nat /\ fight \in Nat /\ u \in Users
      /\ m <= fight /\ fight <= proxy.max /\ fight <= m + Inc
  BY AgreementFacts DEF Lesser, Bidders
<1>2. /\ r \in Rows /\ r.amount = m /\ r.bidder = u
      /\ s \in Rows /\ s.amount = fight /\ s.bidder = proxy.bidder
  BY <1>1, AgreementFacts DEF Row, Rows
<1>3. asked'[u] = m /\ asked'[proxy.bidder] = proxy.max
  BY <1>1, AgreementFacts DEF CommitType
<1>4. proxy' \in ProxyRow /\ proxy'.bidder = proxy.bidder /\ proxy'.max = proxy.max
  BY DEF CommitType
<1>5. /\ r.amount >= TopBid(bids).amount /\ s.amount >= r.amount
      /\ r.amount <= asked'[r.bidder] /\ s.amount <= asked'[s.bidder]
      /\ proxy'.max = asked'[proxy'.bidder] /\ s.amount <= proxy'.max
  BY <1>1, <1>2, <1>3, <1>4, AgreementFacts
<1>6. /\ u \in {u, proxy.bidder} \ {proxy'.bidder}
      /\ asked'[u] <= s.amount /\ s.amount <= asked'[u] + Inc
  BY <1>1, <1>2, <1>3, <1>4, AgreementFacts
<1> HIDE DEF r, s
<1>7. bids' = Append(Append(bids, r), s)
  BY DEF r, s
<1> QED
  BY <1>2, <1>4, <1>5, <1>6, <1>7, FightAgrees

-----------------------------------------------------------------------------
(* The invariant holds.                                                    *)

\* The price and the minimum a handler reads are natural numbers.
LEMMA PricesAreNat ==
  ASSUME TypeOK, Agreement, NEW p \in Prices
  PROVE  PublicPrice(bids, p) \in Nat /\ MinRequiredBid(bids, p) \in Nat
<1>1. CASE bids = <<>>
  BY <1>1 DEF PublicPrice, MinRequiredBid
<1>2. CASE bids # <<>>
  <2>1. HasTop(bids) /\ bids \in Seq(Rows)
    BY <1>2 DEF Agreement, TypeOK, Rows
  <2>2. TopBid(bids) \in Rows
    BY <2>1, TopIsGreatest
  <2>3. TopBid(bids).amount \in Nat
    BY <2>2 DEF Rows
  <2> QED
    BY <2>3, <1>2 DEF PublicPrice, MinRequiredBid
<1> QED
  BY <1>1, <1>2

\* The initial states satisfy the invariant.
LEMMA InitIInv == Init => IInv
<1> SUFFICES ASSUME Init PROVE IInv
  OBVIOUS
<1>1. TypeOK
  <2>1. NoProxy \in ProxyRow /\ NoReq \in Request
    BY DEF NoProxy, ProxyRow, NoReq, Request
  <2>2. /\ NoSeen \in [price : Nat, minimum : Nat, proxy : ProxyRow]
        /\ NoReply \in [price : Nat, winner : Users \cup {NoUser},
                        outbid : Users \cup {NoUser}]
    BY <2>1 DEF NoSeen, NoReply
  <2>3. listing \in [price : Prices, reserve : Reserves, isSold : BOOLEAN,
                    status : Statuses, deleted : BOOLEAN]
    BY DEF Init, Statuses
  <2>4. now \in 0 .. MaxTime /\ bids \in Seq([bidder : Bidders, amount : Nat])
    BY DEF Init
  <2> QED
    BY <2>1, <2>2, <2>3, <2>4 DEF Init, TypeOK
<1>2. Control
  BY DEF Init, Control, Knows
<1>3. Agreement
  BY DEF Init, Agreement, HolderPricedOutRivals, NeverAboveOwnMax, SecondPrice
<1> QED
  BY <1>1, <1>2, <1>3 DEF IInv

\* What is known when handler h is about to commit.
LEMMA AtDecision ==
  ASSUME IInv, NEW h \in Handlers, pc[h] = "deciding"
  PROVE  /\ CommitType /\ Agreement
         /\ rowLock = h
         /\ req[h].user \in Bidders /\ req[h].user \in Users /\ req[h].user # NoUser
         /\ req[h].amount \in Amounts /\ req[h].amount \in Nat
         /\ seen[h].price = PublicPrice(bids, listing.price)
         /\ seen[h].minimum = MinRequiredBid(bids, listing.price)
         /\ seen[h].proxy = proxy
         /\ listing.price \in Prices
         /\ ~listing.isSold /\ ~listing.deleted
         /\ proxy.max \in Nat
<1>1. CommitType /\ Agreement /\ listing.price \in Prices /\ proxy.max \in Nat
  BY DEF IInv, TypeOK, CommitType, Rows, ProxyRow
<1>2. Knows(h)
  BY DEF IInv, Control
<1> QED
  BY <1>1, <1>2 DEF IInv, Knows

\* The handler that challenges the proxy of somebody else.
LEMMA AtChallenge ==
  ASSUME IInv, NEW h \in Handlers, Challenges(h)
  PROVE  /\ pc[h] = "deciding"
         /\ proxy # NoProxy /\ proxy.bidder \in Bidders
         /\ req[h].user \in Bidders \ {proxy.bidder}
         /\ req[h].amount >= TopBid(bids).amount + Inc
         /\ bids # <<>>
<1>1. pc[h] = "deciding"
  BY DEF Challenges
<1>2. seen[h].proxy = proxy /\ req[h].user \in Bidders /\ CommitType /\ Agreement
  BY <1>1, AtDecision
<1>3. proxy # NoProxy /\ req[h].user # proxy.bidder
  BY <1>2 DEF Challenges, HasProxy, IsSelfBump
<1>4. bids # <<>> /\ proxy.bidder \in Bidders
  BY <1>2, <1>3, AgreementFacts
<1>5. req[h].amount >= TopBid(bids).amount + Inc
  BY <1>1, <1>4, AtDecision DEF Challenges, HighEnough, MinRequiredBid
<1> QED
  BY <1>1, <1>2, <1>3, <1>4, <1>5

\* The four things a step may do to the tables a bid writes, if it does anything.
Quiet == UNCHANGED <<bids, proxy, asked>>

CommitsFirst(u, m, p) ==
  /\ bids = <<>> /\ proxy = NoProxy /\ m >= p
  /\ bids' = Append(bids, Row(u, p))
  /\ proxy' = [bidder |-> u, max |-> m]
  /\ asked' = [asked EXCEPT ![u] = m]

CommitsRaise(u, m) ==
  /\ proxy # NoProxy /\ u = proxy.bidder /\ m > proxy.max
  /\ bids' = bids
  /\ proxy' = [bidder |-> proxy.bidder, max |-> m]
  /\ asked' = [asked EXCEPT ![proxy.bidder] = m]

CommitsFight(u, m) ==
  /\ proxy # NoProxy /\ u # proxy.bidder /\ m >= TopBid(bids).amount + Inc
  /\ asked' = [asked EXCEPT ![u] = m]

CommitsOutbid(u, m, fight) ==
  /\ CommitsFight(u, m) /\ m > proxy.max
  /\ fight = Lesser(proxy.max + Inc, m)
  /\ bids' = Append(Append(bids, Row(proxy.bidder, proxy.max)), Row(u, fight))
  /\ proxy' = [bidder |-> u, max |-> m]

CommitsDefend(u, m, fight) ==
  /\ CommitsFight(u, m) /\ m <= proxy.max
  /\ fight = Lesser(m + Inc, proxy.max)
  /\ bids' = Append(Append(bids, Row(u, m)), Row(proxy.bidder, fight))
  /\ proxy' = proxy

Commits ==
  \E u \in Bidders, m \in Amounts :
    \/ \E p \in Prices : CommitsFirst(u, m, p)
    \/ CommitsRaise(u, m)
    \/ \E fight \in Nat : CommitsOutbid(u, m, fight) \/ CommitsDefend(u, m, fight)

\* Only a handler that has decided, and so owns the row of an open auction,
\* writes them, and what it writes follows from what is in them.
LEMMA OnlyCommits ==
  ASSUME IInv, [Next]_vars, ~Quiet
  PROVE  Commits /\ ~listing.isSold
<1>1. ASSUME NEW h \in Handlers, PlaceFirst(h)
      PROVE  Commits /\ ~listing.isSold
  <2> DEFINE u == req[h].user
             m == req[h].amount
             p == listing.price
  <2>1. pc[h] = "deciding"
    BY <1>1 DEF PlaceFirst
  <2>2. proxy = NoProxy
    BY <1>1, <2>1, AtDecision DEF PlaceFirst, HasProxy
  <2>3. bids = <<>>
    BY <2>1, <2>2, AtDecision DEF Agreement, NoProxy
  <2>4. seen[h].price = p /\ m >= p
    BY <1>1, <2>1, <2>3, AtDecision DEF PlaceFirst, HighEnough, PublicPrice, MinRequiredBid
  <2>5. CommitsFirst(u, m, p)
    BY <1>1, <2>2, <2>3, <2>4 DEF PlaceFirst, Settle, Quiet, CommitsFirst
  <2> QED
    BY <2>1, <2>5, AtDecision DEF Commits
<1>2. ASSUME NEW h \in Handlers, RaiseMax(h)
      PROVE  Commits /\ ~listing.isSold
  <2>1. pc[h] = "deciding"
    BY <1>2 DEF RaiseMax
  <2>2. CommitsRaise(req[h].user, req[h].amount)
    BY <1>2, <2>1, AtDecision
       DEF RaiseMax, HasProxy, IsSelfBump, Settle, Quiet, CommitsRaise
  <2> QED
    BY <2>1, <2>2, AtDecision DEF Commits
<1>3. ASSUME NEW h \in Handlers, Outbid(h)
      PROVE  Commits /\ ~listing.isSold
  <2> DEFINE fight == Lesser(proxy.max + Inc, req[h].amount)
  <2>1. Challenges(h) /\ pc[h] = "deciding"
    BY <1>3 DEF Outbid, Challenges
  <2>2. CommitsOutbid(req[h].user, req[h].amount, fight)
    BY <1>3, <2>1, AtChallenge, AtDecision
       DEF Outbid, Settle, Quiet, CommitsOutbid, CommitsFight
  <2>3. fight \in Nat
    BY <2>1, AtDecision DEF Lesser
  <2> QED
    BY <2>1, <2>2, <2>3, AtDecision DEF Commits
<1>4. ASSUME NEW h \in Handlers, Defend(h) \/ Tie(h)
      PROVE  Commits /\ ~listing.isSold
  <2> DEFINE m == req[h].amount
             fight == Lesser(m + Inc, proxy.max)
  <2>1. Challenges(h) /\ pc[h] = "deciding"
    BY <1>4 DEF Defend, Tie, Challenges
  <2>2. seen[h].proxy = proxy /\ m \in Nat /\ proxy.max \in Nat
    BY <2>1, AtDecision
  <2>3. /\ fight \in Nat
        /\ m = proxy.max => fight = proxy.max
    BY <2>2 DEF Lesser
  <2>4. CommitsDefend(req[h].user, m, fight)
    BY <1>4, <2>1, <2>2, <2>3, AtChallenge
       DEF Defend, Tie, Settle, Quiet, CommitsDefend, CommitsFight
  <2> QED
    BY <2>1, <2>3, <2>4, AtDecision DEF Commits
<1>5. ASSUME NEW h \in Handlers, HandlerStep(h)
      PROVE  PlaceFirst(h) \/ RaiseMax(h) \/ Outbid(h) \/ Defend(h) \/ Tie(h)
  BY <1>5 DEF HandlerStep, AcquireRow, RefuseRow, ReadLedger, RefuseBid, Answer, Finish,
              Quiet, dbVars
<1>6. \E h \in Handlers : HandlerStep(h)
  BY DEF Next, BidRequest, BidArrives, Abort, Finish, UpdateListing, DeleteListing,
         CloseListing, Crash, Tick, Quiet, dbVars, vars
<1> QED
  BY <1>1, <1>2, <1>3, <1>4, <1>5, <1>6

\* Every step keeps the ledger, the proxy row and the authorisations agreeing.
LEMMA AgreementStep ==
  ASSUME IInv, [Next]_vars
  PROVE  Agreement'
<1>0. CommitType /\ Agreement
  BY DEF IInv, TypeOK, CommitType, Rows
<1>1. CASE Quiet
  <2>1. bids' = bids /\ proxy' = proxy /\ asked' = asked
    BY <1>1 DEF Quiet
  <2>2. HolderPricedOutRivals' /\ NeverAboveOwnMax' /\ SecondPrice'
    BY <1>0, <2>1 DEF Agreement, HolderPricedOutRivals, NeverAboveOwnMax, SecondPrice
  <2> QED
    BY <1>0, <2>1, <2>2 DEF Agreement
<1>2. CASE ~Quiet
  <2>1. PICK u \in Bidders, m \in Amounts :
          \/ \E p \in Prices : CommitsFirst(u, m, p)
          \/ CommitsRaise(u, m)
          \/ \E fight \in Nat : CommitsOutbid(u, m, fight) \/ CommitsDefend(u, m, fight)
    BY <1>2, OnlyCommits DEF Commits
  <2>2. ASSUME NEW p \in Prices, CommitsFirst(u, m, p) PROVE Agreement'
    BY <1>0, <2>2, FirstBidAgrees DEF CommitsFirst
  <2>3. CASE CommitsRaise(u, m)
    BY <1>0, <2>3, RaiseMaxAgrees DEF CommitsRaise
  <2>4. ASSUME NEW fight \in Nat, CommitsOutbid(u, m, fight) PROVE Agreement'
    BY <1>0, <2>4, OutbidAgrees DEF CommitsOutbid, CommitsFight
  <2>5. ASSUME NEW fight \in Nat, CommitsDefend(u, m, fight) PROVE Agreement'
    BY <1>0, <2>5, DefendAgrees DEF CommitsDefend, CommitsFight
  <2> QED
    BY <2>1, <2>2, <2>3, <2>4, <2>5
<1> QED
  BY <1>1, <1>2

\* While the row is free no handler is between its read and its commit.
LEMMA FreeRow ==
  ASSUME IInv, rowLock = NoHandler, NEW k \in Handlers
  PROVE  pc[k] \notin {"locked", "deciding"}
BY DEF IInv, Control, Knows

\* A step of handler h changes what another one knows only through the tables,
\* and the tables only while it owns the row.
LEMMA HandlerControl ==
  ASSUME IInv, NEW h \in Handlers, HandlerStep(h) \/ Abort(h)
  PROVE  Control'
<1> SUFFICES ASSUME NEW k \in Handlers PROVE Knows(k)'
  BY DEF Control
<1>0. /\ Knows(k) /\ Knows(h)
      /\ pc \in [Handlers -> {"idle", "waiting", "locked", "deciding", "replying"}]
      /\ seen \in [Handlers -> [price : Nat, minimum : Nat, proxy : ProxyRow]]
  BY DEF IInv, Control, TypeOK
<1>1. CASE Finish(h)
  BY <1>0, <1>1 DEF Finish, Knows
<1>2. CASE AcquireRow(h)
  <2>1. CASE k = h
    BY <1>0, <1>2, <2>1 DEF AcquireRow, RowAccepts, NoSeen, Knows, dbVars, Bidders
  <2>2. CASE k # h
    BY <1>0, <1>2, <2>2, FreeRow DEF AcquireRow, Knows, dbVars
  <2> QED
    BY <2>1, <2>2
<1>3. CASE ReadLedger(h)
  <2>1. CASE k = h
    BY <1>0, <1>3, <2>1 DEF ReadLedger, Knows, dbVars
  <2>2. CASE k # h
    BY <1>0, <1>3, <2>2 DEF ReadLedger, Knows, dbVars
  <2> QED
    BY <2>1, <2>2
<1>4. ASSUME NEW newBids, NEW newProxy, NEW answer, pc[h] = "deciding",
             Settle(h, newBids, newProxy, answer)
      PROVE  Knows(k)'
  <2>1. pc' = [pc EXCEPT ![h] = "replying"] /\ UNCHANGED req
    BY <1>4 DEF Settle
  <2>2. k # h => pc[k] \notin {"locked", "deciding"}
    BY <1>0, <1>4 DEF Knows
  <2> QED
    BY <1>0, <1>4, <2>1, <2>2 DEF Knows
<1>5. CASE PlaceFirst(h)
  BY <1>4, <1>5 DEF PlaceFirst
<1>6. CASE RaiseMax(h)
  BY <1>4, <1>6 DEF RaiseMax
<1>7. CASE Outbid(h) \/ Defend(h) \/ Tie(h)
  BY <1>4, <1>7 DEF Outbid, Defend, Tie, Challenges
<1> QED
  BY <1>1, <1>2, <1>3, <1>5, <1>6, <1>7
     DEF HandlerStep, RefuseRow, RefuseBid, Answer, Abort

\* Every step keeps what a handler knows while it holds the row.
LEMMA ControlStep ==
  ASSUME IInv, [Next]_vars
  PROVE  Control'
<1>1. ASSUME NEW h \in Handlers, NEW u \in Users, NEW m \in Amounts, BidArrives(h, u, m)
      PROVE  Control'
  <2> SUFFICES ASSUME NEW k \in Handlers PROVE Knows(k)'
    BY DEF Control
  <2>1. /\ Knows(k)
        /\ pc \in [Handlers -> {"idle", "waiting", "locked", "deciding", "replying"}]
        /\ req \in [Handlers -> Request]
    BY DEF IInv, Control, TypeOK
  <2>2. CASE k = h
    BY <1>1, <2>1, <2>2 DEF BidArrives, Knows
  <2>3. CASE k # h
    BY <1>1, <2>1, <2>3 DEF BidArrives, Knows, dbVars
  <2> QED
    BY <2>2, <2>3
<1>2. CASE UpdateListing \/ DeleteListing \/ CloseListing
  <2> SUFFICES ASSUME NEW k \in Handlers PROVE Knows(k)'
    BY DEF Control
  <2>1. /\ Knows(k) /\ pc[k] \notin {"locked", "deciding"}
        /\ pc' = pc /\ req' = req
    BY <1>2, FreeRow
       DEF IInv, Control, UpdateListing, DeleteListing, CloseListing, localVars
  <2> QED
    BY <2>1 DEF Knows
<1>3. CASE Crash
  BY <1>3 DEF Crash, Control, Knows
<1>4. CASE Tick \/ UNCHANGED vars
  <2>1. UNCHANGED <<listing, bids, proxy, rowLock, pc, req, seen>> /\ Control
    BY <1>4 DEF Tick, vars, dbVars, localVars, IInv
  <2> QED
    BY <2>1 DEF Control, Knows
<1> QED
  BY <1>1, <1>2, <1>3, <1>4, HandlerControl DEF Next, BidRequest

\* The shapes of what a handler keeps to itself.
LocalType ==
  /\ rowLock \in Handlers \cup {NoHandler}
  /\ pc \in [Handlers -> {"idle", "waiting", "locked", "deciding", "replying"}]
  /\ req \in [Handlers -> Request]
  /\ seen \in [Handlers -> [price : Nat, minimum : Nat, proxy : ProxyRow]]
  /\ reply \in [Handlers -> [price : Nat, winner : Users \cup {NoUser},
                             outbid : Users \cup {NoUser}]]

\* The shapes of the clock and the listing row.
RowType ==
  /\ now \in 0 .. MaxTime
  /\ listing \in [price : Prices, reserve : Reserves, isSold : BOOLEAN,
                  status : Statuses, deleted : BOOLEAN]

\* The type invariant falls into the row, what a commit writes, and the locals.
LEMMA TypeParts ==
  /\ TypeOK <=> RowType /\ CommitType /\ LocalType
  /\ TypeOK' <=> RowType' /\ CommitType' /\ LocalType'
BY DEF TypeOK, RowType, CommitType, LocalType, Rows

\* The empty values have the shapes of the full ones.
LEMMA NothingTyped ==
  /\ NoProxy \in ProxyRow /\ NoReq \in Request
  /\ NoSeen \in [price : Nat, minimum : Nat, proxy : ProxyRow]
  /\ NoReply \in [price : Nat, winner : Users \cup {NoUser}, outbid : Users \cup {NoUser}]
<1>1. NoProxy \in ProxyRow /\ NoReq \in Request
  BY DEF NoProxy, ProxyRow, NoReq, Request
<1> QED
  BY <1>1 DEF NoSeen, NoReply

\* A handler that is through leaves the types as they are.
LEMMA FinishTyped ==
  ASSUME TypeOK, NEW h \in Handlers, Finish(h)
  PROVE  TypeOK'
<1>1. RowType' /\ CommitType'
  BY TypeParts DEF Finish, RowType, CommitType
<1>2. LocalType'
  BY TypeParts, NothingTyped DEF Finish, LocalType
<1> QED
  BY <1>1, <1>2, TypeParts

\* So does a commit of typed rows, whether it takes or is lost.
LEMMA SettleTyped ==
  ASSUME TypeOK, NEW h \in Handlers, req[h].amount \in Nat,
         NEW newBids \in Seq(Rows), NEW newProxy \in ProxyRow,
         NEW answer \in [price : Nat, winner : Users \cup {NoUser},
                         outbid : Users \cup {NoUser}],
         Settle(h, newBids, newProxy, answer)
  PROVE  TypeOK'
<1>1. RowType'
  BY TypeParts DEF Settle, RowType
<1>2. CommitType'
  <2>1. CASE UNCHANGED <<bids, proxy, asked>>
    BY <2>1, TypeParts DEF CommitType
  <2>2. CASE bids' = newBids /\ proxy' = newProxy
             /\ asked' = [asked EXCEPT ![req[h].user] = req[h].amount]
    BY <2>2, TypeParts DEF CommitType
  <2> QED
    BY <2>1, <2>2 DEF Settle
<1>3. LocalType'
  BY TypeParts, NothingTyped DEF Settle, LocalType
<1> QED
  BY <1>1, <1>2, <1>3, TypeParts

\* So does every step of a handler.
LEMMA HandlerTyped ==
  ASSUME IInv, NEW h \in Handlers, HandlerStep(h) \/ Abort(h)
  PROVE  TypeOK'
<1>0. TypeOK /\ RowType /\ CommitType /\ LocalType /\ Agreement
  BY TypeParts DEF IInv
<1> DEFINE u == req[h].user
           m == req[h].amount
           Answers == [price : Nat, winner : Users \cup {NoUser},
                       outbid : Users \cup {NoUser}]
<1>1. CASE Finish(h)
  BY <1>0, <1>1, FinishTyped
<1>2. CASE AcquireRow(h)
  <2>1. listing.price \in Nat
    BY <1>0 DEF RowType
  <2>2. [NoSeen EXCEPT !.price = listing.price]
          \in [price : Nat, minimum : Nat, proxy : ProxyRow]
    BY <2>1, NothingTyped DEF NoSeen
  <2>3. LocalType'
    BY <1>0, <1>2, <2>2 DEF AcquireRow, LocalType
  <2>4. RowType' /\ CommitType'
    BY <1>0, <1>2 DEF AcquireRow, RowType, CommitType, dbVars
  <2> QED
    BY <2>3, <2>4, TypeParts
<1>3. CASE ReadLedger(h)
  <2>1. seen[h].price \in Prices
    BY <1>0, <1>3 DEF ReadLedger, IInv, Control, Knows, RowType
  <2>2. /\ PublicPrice(bids, seen[h].price) \in Nat
        /\ MinRequiredBid(bids, seen[h].price) \in Nat
    BY <1>0, <2>1, PricesAreNat
  <2>3. LocalType'
    BY <1>0, <1>3, <2>2 DEF ReadLedger, LocalType, CommitType
  <2>4. RowType' /\ CommitType'
    BY <1>0, <1>3 DEF ReadLedger, RowType, CommitType, dbVars
  <2> QED
    BY <2>3, <2>4, TypeParts
<1>4. ASSUME pc[h] = "deciding"
      PROVE  /\ u \in Bidders /\ u \in Users /\ m \in Nat /\ seen[h].proxy = proxy
             /\ seen[h].price \in Nat /\ proxy.max \in Nat /\ bids \in Seq(Rows)
             /\ [bidder |-> u, max |-> m] \in ProxyRow
             /\ [price |-> seen[h].price, winner |-> u, outbid |-> NoUser] \in Answers
  BY <1>0, <1>4, AtDecision, PricesAreNat DEF CommitType, ProxyRow
<1>5. CASE PlaceFirst(h)
  <2>1. pc[h] = "deciding"
    BY <1>5 DEF PlaceFirst
  <2>2. Row(u, seen[h].price) \in Rows
    BY <1>4, <2>1 DEF Row, Rows
  <2>3. Append(bids, Row(u, seen[h].price)) \in Seq(Rows)
    BY <1>4, <2>1, <2>2
  <2> QED
    BY <1>0, <1>4, <1>5, <2>1, <2>3, SettleTyped DEF PlaceFirst
<1>6. CASE RaiseMax(h)
  <2>1. pc[h] = "deciding"
    BY <1>6 DEF RaiseMax
  <2> QED
    BY <1>0, <1>4, <1>6, <2>1, SettleTyped DEF RaiseMax
<1>7. ASSUME Challenges(h), NEW a \in Nat, NEW b \in Nat,
             NEW r, NEW s, r \in Rows, s \in Rows
      PROVE  Append(Append(bids, r), s) \in Seq(Rows)
  <2>1. bids \in Seq(Rows)
    BY <1>0 DEF CommitType
  <2> QED
    BY <2>1, <1>7
<1>8. CASE Outbid(h)
  <2> DEFINE fight == Lesser(proxy.max + Inc, m)
             r == Row(proxy.bidder, proxy.max)
             s == Row(u, fight)
  <2>1. pc[h] = "deciding" /\ proxy.bidder \in Bidders
    BY <1>8, AtChallenge DEF Outbid
  <2>2. fight \in Nat
    BY <1>4, <2>1 DEF Lesser
  <2>3. r \in Rows /\ s \in Rows
    BY <1>4, <2>1, <2>2 DEF Row, Rows
  <2>4. Append(Append(bids, r), s) \in Seq(Rows)
    BY <1>4, <2>1, <2>3
  <2>5. [price |-> fight, winner |-> u, outbid |-> proxy.bidder] \in Answers
    BY <1>4, <2>1, <2>2 DEF Bidders
  <2>6. Settle(h, Append(Append(bids, r), s), [bidder |-> u, max |-> m],
               [price |-> fight, winner |-> u, outbid |-> proxy.bidder])
    BY <1>4, <1>8, <2>1 DEF Outbid
  <2> QED
    BY <1>0, <1>4, <2>1, <2>4, <2>5, <2>6, SettleTyped
<1>9. ASSUME NEW fight \in Nat, Challenges(h),
             Settle(h, Append(Append(bids, Row(u, m)), Row(proxy.bidder, fight)), proxy,
                    [price |-> fight, winner |-> proxy.bidder, outbid |-> NoUser])
      PROVE  TypeOK'
  <2> DEFINE r == Row(u, m)
             s == Row(proxy.bidder, fight)
  <2>1. pc[h] = "deciding" /\ proxy.bidder \in Bidders
    BY <1>9, AtChallenge
  <2>2. r \in Rows /\ s \in Rows
    BY <1>4, <2>1 DEF Row, Rows
  <2>3. Append(Append(bids, r), s) \in Seq(Rows)
    BY <1>4, <2>1, <2>2
  <2>4. [price |-> fight, winner |-> proxy.bidder, outbid |-> NoUser] \in Answers
    BY <2>1 DEF Bidders
  <2>5. proxy \in ProxyRow
    BY <1>0 DEF CommitType
  <2> QED
    BY <1>0, <1>4, <1>9, <2>1, <2>3, <2>4, <2>5, SettleTyped
<1>10. CASE Defend(h)
  <2>1. Challenges(h) /\ seen[h].proxy = proxy /\ m \in Nat /\ proxy.max \in Nat
    BY <1>4, <1>10 DEF Defend, Challenges
  <2>2. Lesser(m + Inc, proxy.max) \in Nat
    BY <2>1 DEF Lesser
  <2> QED
    BY <1>9, <1>10, <2>1, <2>2 DEF Defend
<1>11. CASE Tie(h)
  <2>1. Challenges(h) /\ seen[h].proxy = proxy /\ proxy.max \in Nat
    BY <1>4, <1>11 DEF Tie, Challenges
  <2> QED
    BY <1>9, <1>11, <2>1 DEF Tie
<1> QED
  BY <1>1, <1>2, <1>3, <1>5, <1>6, <1>8, <1>10, <1>11
     DEF HandlerStep, RefuseRow, RefuseBid, Answer, Abort

\* Every step keeps the types.
LEMMA TypeStep ==
  ASSUME IInv, [Next]_vars
  PROVE  TypeOK'
<1>0. RowType /\ CommitType /\ LocalType
  BY TypeParts DEF IInv
<1>1. ASSUME NEW h \in Handlers, NEW u \in Users, NEW m \in Amounts, BidArrives(h, u, m)
      PROVE  TypeOK'
  <2>1. LocalType'
    BY <1>0, <1>1 DEF BidArrives, LocalType, Request
  <2>2. RowType' /\ CommitType'
    BY <1>0, <1>1 DEF BidArrives, RowType, CommitType, dbVars
  <2> QED
    BY <2>1, <2>2, TypeParts
<1>2. CASE UpdateListing \/ DeleteListing \/ CloseListing
  <2>1. RowType'
    BY <1>0, <1>2 DEF UpdateListing, DeleteListing, CloseListing, RowType, Statuses
  <2>2. CommitType' /\ LocalType'
    BY <1>0, <1>2
       DEF UpdateListing, DeleteListing, CloseListing, CommitType, LocalType, localVars
  <2> QED
    BY <2>1, <2>2, TypeParts
<1>3. CASE Crash
  <2>1. LocalType'
    BY <1>0, <1>3, NothingTyped DEF Crash, LocalType
  <2>2. RowType' /\ CommitType'
    BY <1>0, <1>3 DEF Crash, RowType, CommitType, dbVars
  <2> QED
    BY <2>1, <2>2, TypeParts
<1>4. CASE Tick
  <2>1. RowType'
    BY <1>0, <1>4 DEF Tick, RowType, dbVars
  <2>2. CommitType' /\ LocalType'
    BY <1>0, <1>4 DEF Tick, CommitType, LocalType, dbVars, localVars
  <2> QED
    BY <2>1, <2>2, TypeParts
<1>5. CASE UNCHANGED vars
  <2>1. RowType' /\ CommitType' /\ LocalType'
    BY <1>0, <1>5 DEF vars, RowType, CommitType, LocalType
  <2> QED
    BY <2>1, TypeParts
<1> QED
  BY <1>1, <1>2, <1>3, <1>4, <1>5, HandlerTyped DEF Next, BidRequest

-----------------------------------------------------------------------------
(* Theorems.                                                               *)

\* IInv is inductive.
LEMMA IInvStep ==
  ASSUME IInv, [Next]_vars
  PROVE  IInv'
BY TypeStep, ControlStep, AgreementStep DEF IInv

\* The invariant the others rest on.
THEOREM Invariance == Spec => []IInv
<1>1. IInv /\ [Next]_vars => IInv'
  BY IInvStep
<1> QED
  BY <1>1, InitIInv, PTL DEF Spec

\* Every variable keeps its shape, whatever the users, handlers and amounts.
THEOREM TypeCorrect == Spec => []TypeOK
<1>1. IInv => TypeOK
  BY DEF IInv
<1> QED
  BY <1>1, Invariance, PTL

\* SELECT ... FOR UPDATE does its work: what BidHandler decides on is still true
\* when it commits.
THEOREM DecisionsAreFresh == Spec => []NoStaleDecision
<1>1. IInv => NoStaleDecision
  BY DEF IInv, Control, Knows, NoStaleDecision
<1> QED
  BY <1>1, Invariance, PTL

\* However bids interleave, fail and are cut off, the proxy belongs to whoever
\* authorised most and the price has reached what the others did.
THEOREM HolderOutbidsAll == Spec => []HolderPricedOutRivals
<1>1. IInv => HolderPricedOutRivals
  BY DEF IInv, Agreement
<1> QED
  BY <1>1, Invariance, PTL

\* The public price is the opening price or at most one increment above what a
\* rival of the holder authorised.
THEOREM PriceIsSecond == Spec => []SecondPrice
<1>1. IInv => SecondPrice
  BY DEF IInv, Agreement
<1> QED
  BY <1>1, Invariance, PTL

\* No row of the ledger is above what its bidder authorised.
THEOREM RowsAreAuthorised == Spec => []NeverAboveOwnMax
<1>1. IInv => NeverAboveOwnMax
  BY DEF IInv, Agreement
<1> QED
  BY <1>1, Invariance, PTL

\* A sold auction takes no bid, even one that was under way.
THEOREM FrozenOnceSold == Spec => ClosedLedgerFrozen
<1>1. IInv /\ [Next]_vars => [listing.isSold => bids' = bids /\ proxy' = proxy]_vars
  BY OnlyCommits DEF Quiet
<1> QED
  BY <1>1, Invariance, PTL DEF Spec, ClosedLedgerFrozen

\* A ledger with a row or two appended starts with the old ledger.
LEMMA AppendKeepsPrefix ==
  ASSUME NEW L \in Seq(Rows), NEW r \in Rows, NEW s \in Rows
  PROVE  /\ SubSeq(Append(L, r), 1, Len(L)) = L
         /\ SubSeq(Append(Append(L, r), s), 1, Len(L)) = L
OBVIOUS

\* What a fight costs: the price goes up by the increment at least.
LEMMA FightRaisesPrice ==
  ASSUME CommitType, Agreement, proxy # NoProxy, NEW r \in Rows, NEW s \in Rows,
         r.amount >= TopBid(bids).amount, s.amount >= r.amount,
         s.amount >= TopBid(bids).amount + Inc,
         bids' = Append(Append(bids, r), s)
  PROVE  /\ SubSeq(bids', 1, Len(bids)) = bids
         /\ TopBid(bids').amount = s.amount
         /\ bids' # <<>>
<1>1. bids \in Seq(Rows) /\ HasTop(bids)
  BY AgreementFacts DEF CommitType
<1>2. bids' = Append(Append(bids, r), s)
  OBVIOUS
<1>3. TopBid(bids').amount = s.amount /\ HasTop(bids')
  BY <1>1, <1>2, TwoRows
<1>4. bids' # <<>>
  BY <1>3 DEF HasTop
<1> QED
  BY <1>1, <1>2, <1>3, <1>4, AppendKeepsPrefix

\* A fight won by the challenger raises the price by at least the increment.
LEMMA OutbidPrice ==
  ASSUME CommitType, Agreement, NEW u \in Bidders, NEW m \in Amounts, NEW fight \in Nat,
         CommitsOutbid(u, m, fight)
  PROVE  /\ SubSeq(bids', 1, Len(bids)) = bids /\ bids' # <<>>
         /\ TopBid(bids').amount = fight
         /\ fight >= TopBid(bids).amount + Inc
<1> DEFINE r == Row(proxy.bidder, proxy.max)
           s == Row(u, fight)
<1>1. /\ proxy # NoProxy /\ m >= TopBid(bids).amount + Inc /\ m > proxy.max
      /\ fight = Lesser(proxy.max + Inc, m)
      /\ bids' = Append(Append(bids, r), s)
  BY DEF CommitsOutbid, CommitsFight
<1>2. r \in Rows /\ s \in Rows /\ r.amount = proxy.max /\ s.amount = fight
  BY <1>1, AgreementFacts DEF Row, Rows
<1>3. /\ fight >= proxy.max /\ fight >= TopBid(bids).amount + Inc
      /\ proxy.max >= TopBid(bids).amount
  BY <1>1, AgreementFacts DEF Lesser
<1> HIDE DEF r, s
<1> QED
  BY <1>1, <1>2, <1>3, FightRaisesPrice

\* So does one won by the holder.
LEMMA DefendPrice ==
  ASSUME CommitType, Agreement, NEW u \in Bidders, NEW m \in Amounts, NEW fight \in Nat,
         CommitsDefend(u, m, fight)
  PROVE  /\ SubSeq(bids', 1, Len(bids)) = bids /\ bids' # <<>>
         /\ TopBid(bids').amount = fight
         /\ fight >= TopBid(bids).amount + Inc
<1> DEFINE r == Row(u, m)
           s == Row(proxy.bidder, fight)
<1>1. /\ proxy # NoProxy /\ m >= TopBid(bids).amount + Inc /\ m <= proxy.max
      /\ fight = Lesser(m + Inc, proxy.max)
      /\ bids' = Append(Append(bids, r), s)
  BY DEF CommitsDefend, CommitsFight
<1>2. r \in Rows /\ s \in Rows /\ r.amount = m /\ s.amount = fight
  BY <1>1, AgreementFacts DEF Row, Rows
<1>3. fight >= m /\ fight >= TopBid(bids).amount + Inc /\ m >= TopBid(bids).amount
  <2>1. m \in Nat /\ proxy.max \in Nat /\ TopBid(bids).amount \in Nat
    BY <1>1, AgreementFacts
  <2> QED
    BY <1>1, <2>1 DEF Lesser
<1> HIDE DEF r, s
<1> QED
  BY <1>1, <1>2, <1>3, FightRaisesPrice

\* Rows of the ledger stay where they are.
LEMMA LedgerGrows ==
  ASSUME IInv, [Next]_vars
  PROVE  \A i \in DOMAIN bids : i \in DOMAIN bids' /\ bids'[i] = bids[i]
<1>0. CommitType /\ Agreement
  BY DEF IInv, TypeOK, CommitType, Rows
<1>1. CASE Quiet
  BY <1>1 DEF Quiet
<1>2. CASE ~Quiet
  <2>1. PICK u \in Bidders, m \in Amounts :
          \/ \E p \in Prices : CommitsFirst(u, m, p)
          \/ CommitsRaise(u, m)
          \/ \E fight \in Nat : CommitsOutbid(u, m, fight) \/ CommitsDefend(u, m, fight)
    BY <1>2, OnlyCommits DEF Commits
  <2>2. ASSUME NEW r, NEW s, bids' = Append(Append(bids, r), s)
        PROVE  \A i \in DOMAIN bids : i \in DOMAIN bids' /\ bids'[i] = bids[i]
    <3>1. bids \in Seq(Rows) /\ Len(bids) \in Nat
      BY <1>0 DEF CommitType
    <3> QED
      BY <2>2, <3>1
  <2>3. CASE \E p \in Prices : CommitsFirst(u, m, p)
    BY <2>3 DEF CommitsFirst
  <2>4. CASE CommitsRaise(u, m)
    BY <2>4 DEF CommitsRaise
  <2>5. CASE \E fight \in Nat : CommitsOutbid(u, m, fight)
    BY <2>2, <2>5 DEF CommitsOutbid
  <2>6. CASE \E fight \in Nat : CommitsDefend(u, m, fight)
    BY <2>2, <2>6 DEF CommitsDefend
  <2> QED
    BY <2>1, <2>3, <2>4, <2>5, <2>6
<1> QED
  BY <1>1, <1>2

\* The ledger is append-only, and every fight moves the price by an increment.
THEOREM FightsRaiseThePrice == Spec => IncrementRespected
<1>1. ASSUME IInv, [Next]_vars, bids' # bids
      PROVE  /\ SubSeq(bids', 1, Len(bids)) = bids
             /\ bids # <<>> => TopBid(bids').amount >= TopBid(bids).amount + Inc
  <2>0. CommitType /\ Agreement
    BY <1>1 DEF IInv, TypeOK, CommitType, Rows
  <2>1. PICK u \in Bidders, m \in Amounts :
          \/ \E p \in Prices : CommitsFirst(u, m, p)
          \/ CommitsRaise(u, m)
          \/ \E fight \in Nat : CommitsOutbid(u, m, fight) \/ CommitsDefend(u, m, fight)
    BY <1>1, OnlyCommits DEF Quiet, Commits
  <2>2. ASSUME NEW p \in Prices, CommitsFirst(u, m, p)
        PROVE  SubSeq(bids', 1, Len(bids)) = bids /\ bids = <<>>
    <3>1. Row(u, p) \in Rows /\ bids \in Seq(Rows)
      BY <2>0 DEF Row, Rows, CommitType
    <3> QED
      BY <2>2, <3>1, AppendKeepsPrefix DEF CommitsFirst
  <2> QED
    BY <1>1, <2>0, <2>1, <2>2, OutbidPrice, DefendPrice DEF CommitsRaise
<1>2. IInv /\ [Next]_vars =>
        [bids' # bids =>
           /\ SubSeq(bids', 1, Len(bids)) = bids
           /\ bids # <<>> => TopBid(bids').amount >= TopBid(bids).amount + Inc]_vars
  BY <1>1
<1> QED
  BY <1>2, Invariance, PTL DEF Spec, IncrementRespected

-----------------------------------------------------------------------------
(* The refinement.                                                         *)

\* Every step of the requests is a step of the abstract auction, or none of it.
LEMMA StepRefines ==
  ASSUME IInv, [Next]_vars
  PROVE  [Auction!AuctionNext]_(Auction!auctionVars)
<1>0. CommitType /\ Agreement
  BY DEF IInv, TypeOK, CommitType, Rows
<1>1. CASE Quiet
  BY <1>1 DEF Quiet, Auction!auctionVars, PublicPrice
<1>2. CASE ~Quiet
  <2>1. PICK u \in Bidders, m \in Amounts :
          \/ \E p \in Prices : CommitsFirst(u, m, p)
          \/ CommitsRaise(u, m)
          \/ \E fight \in Nat : CommitsOutbid(u, m, fight) \/ CommitsDefend(u, m, fight)
    BY <1>2, OnlyCommits DEF Commits
  <2>2. u \in Users
    BY DEF Bidders
  <2>3. ASSUME NEW p \in Prices, CommitsFirst(u, m, p)
        PROVE  Auction!Open(u, m, p)
    <3>1. Row(u, p) \in Rows /\ bids \in Seq(Rows) /\ Row(u, p).amount = p
      BY <1>0 DEF Row, Rows, CommitType
    <3>2. HasTop(bids') /\ TopBid(bids').amount = p
      BY <2>3, <3>1, TopAfterAppend DEF CommitsFirst
    <3>3. PublicPrice(bids, 0)' = p
      BY <3>2 DEF PublicPrice, HasTop
    <3>4. proxy.bidder = NoUser
      BY <2>3 DEF CommitsFirst, NoProxy
    <3> QED
      BY <2>3, <3>3, <3>4 DEF CommitsFirst, Auction!Open
  <2>4. ASSUME CommitsRaise(u, m)
        PROVE  Auction!Raise(u, m)
    <3>1. proxy # NoProxy /\ asked[proxy.bidder] = proxy.max
      BY <1>0, <2>4, AgreementFacts DEF CommitsRaise
    <3> QED
      BY <2>4, <3>1 DEF CommitsRaise, Auction!Raise, PublicPrice
  <2>5. ASSUME CommitsFight(u, m)
        PROVE  /\ Auction!Challenge(u, m)
               /\ asked[proxy.bidder] = proxy.max
    <3>1. /\ proxy.bidder \in Users \ {u} /\ bids # <<>>
          /\ asked[proxy.bidder] = proxy.max
      BY <1>0, <2>5, AgreementFacts DEF CommitsFight
    <3>2. PublicPrice(bids, 0) = TopBid(bids).amount
      BY <3>1 DEF PublicPrice
    <3> QED
      BY <2>5, <3>1, <3>2 DEF CommitsFight, Auction!Challenge
  <2>6. ASSUME NEW fight \in Nat, CommitsOutbid(u, m, fight)
        PROVE  Auction!Outbid(u, m)
    <3>1. PublicPrice(bids, 0)' = fight
      BY <1>0, <2>6, OutbidPrice DEF PublicPrice
    <3> QED
      BY <2>5, <2>6, <3>1 DEF CommitsOutbid, Auction!Outbid, Auction!Lesser, Lesser
  <2>7. ASSUME NEW fight \in Nat, CommitsDefend(u, m, fight)
        PROVE  Auction!Defend(u, m)
    <3>1. PublicPrice(bids, 0)' = fight
      BY <1>0, <2>7, DefendPrice DEF PublicPrice
    <3> QED
      BY <2>5, <2>7, <3>1 DEF CommitsDefend, Auction!Defend, Auction!Lesser, Lesser
  <2> QED
    BY <2>1, <2>2, <2>3, <2>4, <2>6, <2>7 DEF Auction!AuctionNext
<1> QED
  BY <1>1, <1>2

\* The bid endpoint, under every interleaving of its requests, is the ascending
\* proxy auction of ProxyAuction.
THEOREM Refinement == Spec => ImplementsProxyAuction
<1>1. Init => Auction!AuctionInit
  BY DEF Init, Auction!AuctionInit, NoProxy, PublicPrice
<1>2. IInv /\ [Next]_vars => [Auction!AuctionNext]_(Auction!auctionVars)
  BY StepRefines
<1> QED
  BY <1>1, <1>2, Invariance, PTL DEF Spec, ImplementsProxyAuction, Auction!AuctionSpec
=============================================================================
