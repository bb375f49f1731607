--------------------------- MODULE MCLoyaltyCards ---------------------------
(***************************************************************************)
(* Databases to start LoyaltyCards from, and symmetry sets for TLC.        *)
(***************************************************************************)
EXTENDS LoyaltyCards, TLC

CONSTANTS u1, u2, k1, k2, m1

Card(k, m, dated) == [state |-> "live", key |-> k, mid |-> m, dated |-> dated]
Entry(c, u, s) == [state |-> "live", card |-> c, user |-> u, status |-> s]

(***************************************************************************)
(* The tables that hold exactly the rows of these two sequences.           *)
(***************************************************************************)
Tables(cs, es) ==
    [cards |-> [c \in CardIds |-> IF c \in DOMAIN cs THEN cs[c] ELSE UnusedCard],
     entries |-> [e \in EntryIds |-> IF e \in DOMAIN es THEN es[e] ELSE UnusedEntry]]

Empty == {Tables(<<>>, <<>>)}

(***************************************************************************)
(* One user with a joined card, in any status a join can be left in.       *)
(***************************************************************************)
OneJoin == {Tables(<<Card(None, None, FALSE)>>, <<Entry(1, u1, s)>>) :
               s \in {JOIN_IN_PROGRESS, ENROL_FAILED}}

(***************************************************************************)
(* The same beside a card that the other user has, and may authorise or    *)
(* the first user switch to.                                               *)
(***************************************************************************)
JoinAndCard == {Tables(<<Card(None, None, FALSE), Card(k1, None, TRUE)>>,
                       <<Entry(1, u1, s), Entry(2, u2, WALLET_ONLY)>>) :
                    s \in {JOIN_IN_PROGRESS, ENROL_FAILED}}

(***************************************************************************)
(* A card in both users' wallets, and one only the first user has.         *)
(***************************************************************************)
TwoCards ==
    {Tables(<<Card(k1, m1, TRUE), Card(k2, None, FALSE)>>,
            <<Entry(1, u1, s), Entry(1, u2, ACTIVE), Entry(2, u1, WALLET_ONLY)>>) :
        s \in {WALLET_ONLY, UNKNOWN_ERROR}}

AnySymmetry == Permutations(Users) \cup Permutations(Keys) \cup Permutations(Mids)
                   \cup Permutations(Workers)
WorkerSymmetry == Permutations(Workers)
=============================================================================
