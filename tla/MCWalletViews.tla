--------------------------- MODULE MCWalletViews ---------------------------
(***************************************************************************)
(* WalletViews with two cards of plans on offer, one of a plan withdrawn   *)
(* from the channel, two payment accounts and two users.                   *)
(***************************************************************************)
EXTENDS WalletViews

CONSTANTS c1, c2, c3, me, other, p1, p2, p3

V(state, issued, target) == [state |-> state, issued |-> issued, target |-> target]

MCPlanOf == c1 :> p1 @@ c2 :> p2 @@ c3 :> p3
MCChannelsOf == me :> {"bank"} @@ other :> {"bank", "retailer"}
MCVoucherLists ==
    {<<>>,
     <<V("redeemed", 1, 1), V("issued", 2, 2), V("expired", 3, 3)>>,
     <<V("inprogress", 0, 1), V("cancelled", 2, 2), V("inprogress", 3, 3)>>}
Balance(readable) == [stored |-> TRUE, readable |-> readable, tier |-> 1]
MCBalances == {Balance(b) : b \in BOOLEAN}
Image(type, of, tier) == [type |-> type, of |-> of, tier |-> tier]
MCImages ==
    {Image("tier", p1, 1), Image("hero", p1, 0), Image("icon", c1, 0),
     Image("tier", p2, 1), Image("icon", p2, 0)}

(***************************************************************************)
(* The wallets read: any links between the first card, which is active,    *)
(* and the accounts; or any first card in a wallet without such links.     *)
(* The second card may be missing, a join or active; the third is active   *)
(* and its plan is withdrawn.                                              *)
(***************************************************************************)
Stored == [vouchers |-> <<>>, balance |-> Balance(TRUE)]
Entry(s, a) == [status |-> s, authorised |-> a]

MCInit ==
    \E e1 \in Entries \cup {NoLink}, e2 \in {NoLink, Entry(JOIN_ERROR, TRUE), Entry(ACTIVE, FALSE)},
       h \in Held, o \in [Accounts -> SUBSET Users], p \in [Accounts -> PllValues] :
        /\ \/ e1 = Entry(ACTIVE, TRUE) /\ h = Stored
           \/ o = [a \in Accounts |-> {}] /\ p = [a \in Accounts |-> "none"]
        /\ link = (c1 :> e1 @@ c2 :> e2 @@ c3 :> Entry(ACTIVE, TRUE))
        /\ held = (c1 :> h @@ c2 :> Stored @@ c3 :> Stored)
        /\ owners = o
        /\ pll = [x \in Cards \X Accounts |-> IF x[1] = c1 THEN p[x[2]] ELSE "none"]
        /\ Init

MCSpec == MCInit /\ [][Next]_vars
=============================================================================
