---------------------------- MODULE ProxyAuction ----------------------------
(***************************************************************************)
(* What one Tradexa auction promises its bidders, with no database, no     *)
(* lock and no request in sight.                                           *)
(*                                                                         *)
(* A user authorises the marketplace to bid on her behalf up to a maximum. *)
(* The marketplace shows a public price, and keeps the bidder with the     *)
(* greatest authorisation in the lead at the smallest price that beats the *)
(* others by the increment: an ascending auction with proxies, in which a  *)
(* tie goes to the bidder who was there first.                             *)
(*                                                                         *)
(* ProxyBidding implements this module: best is what each user has had     *)
(* accepted, holder is the owner of the proxy row, price is the greatest   *)
(* amount of the bid ledger.                                               *)
(***************************************************************************)
EXTENDS Naturals

CONSTANTS Users,     \* who may bid
          NoUser,    \* nobody leads yet
          Amounts,   \* the maxima a user may authorise
          Prices,    \* the opening prices a seller may ask
          Inc        \* the bid increment

VARIABLES best,      \* best[u]: the greatest maximum accepted from u, 0 for none
          holder,    \* the user in the lead
          price      \* the public price, 0 before the first bid

auctionVars == <<best, holder, price>>

Lesser(a, b) == IF a <= b THEN a ELSE b

AuctionInit ==
  /\ best = [u \in Users |-> 0]
  /\ holder = NoUser
  /\ price = 0

\* The first bid leads at the opening price, whatever its maximum.
Open(u, m, p) ==
  /\ holder = NoUser
  /\ p <= m
  /\ best' = [best EXCEPT ![u] = m]
  /\ holder' = u
  /\ price' = p

\* The leader raises her own maximum: nobody else can tell.
Raise(u, m) ==
  /\ holder = u
  /\ m > best[u]
  /\ best' = [best EXCEPT ![u] = m]
  /\ UNCHANGED <<holder, price>>

Challenge(u, m) ==
  /\ holder \in Users \ {u}
  /\ m >= price + Inc
  /\ best' = [best EXCEPT ![u] = m]

\* A challenger above the leader's maximum takes the lead.
Outbid(u, m) ==
  /\ Challenge(u, m)
  /\ m > best[holder]
  /\ holder' = u
  /\ price' = Lesser(best[holder] + Inc, m)

\* Otherwise the leader's proxy answers and keeps the lead.
Defend(u, m) ==
  /\ Challenge(u, m)
  /\ m <= best[holder]
  /\ price' = Lesser(m + Inc, best[holder])
  /\ UNCHANGED holder

AuctionNext ==
  \E u \in Users, m \in Amounts :
    \/ \E p \in Prices : Open(u, m, p)
    \/ Raise(u, m)
    \/ Outbid(u, m)
    \/ Defend(u, m)

AuctionSpec == AuctionInit /\ [][AuctionNext]_auctionVars
=============================================================================
