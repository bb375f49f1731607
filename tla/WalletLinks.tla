----------------------------- MODULE WalletLinks -----------------------------
(***************************************************************************)
(* What the loyalty card journeys promise about the links between users    *)
(* and cards, whatever requests, failures and messages bring it about:     *)
(*   - a link is given once, to one user and one card, for good;           *)
(*   - a user has one open link to a card at most;                         *)
(*   - Hermes is owed word of a link from the moment it is committed, and  *)
(*     either gets it or the request that owed it is seen to fail; a later *)
(*     request may then owe it again;                                      *)
(*   - a closed link stays closed.                                         *)
(* LoyaltyCards is shown to implement this.                                *)
(***************************************************************************)
CONSTANTS Links, Users, Cards, None

VARIABLE link

Link ==
    [state : {"unused", "open", "closed"},
     user  : Users \cup {None},
     card  : Cards \cup {0},
     word  : {"none", "owed", "told", "lost"}]

(***************************************************************************)
(* Links that were there before are known to Hermes.                       *)
(***************************************************************************)
Init ==
    /\ link \in [Links -> Link]
    /\ \A l \in Links : IF link[l].state = "unused" THEN link[l].word = "none"
                                                    ELSE link[l].word = "told"

OpenLink(u, c) ==
    \E l \in Links : link[l].state = "open" /\ link[l].user = u /\ link[l].card = c

Open(l, u, c) ==
    /\ link[l].state = "unused"
    /\ ~OpenLink(u, c)
    /\ link' = [link EXCEPT ![l] = [state |-> "open", user |-> u, card |-> c,
                                    word |-> "owed"]]

Close(l) ==
    /\ link[l].state = "open"
    /\ link' = [link EXCEPT ![l].state = "closed"]

Tell(l) ==
    /\ link[l].word = "owed"
    /\ link' = [link EXCEPT ![l].word = "told"]

Lose(l) ==
    /\ link[l].word = "owed"
    /\ link' = [link EXCEPT ![l].word = "lost"]

OweAgain(l) ==
    /\ link[l].word = "lost"
    /\ link' = [link EXCEPT ![l].word = "owed"]

Step(l) ==
    \/ Close(l) \/ Tell(l) \/ Lose(l) \/ OweAgain(l)
    \/ \E u \in Users, c \in Cards : Open(l, u, c)

Next == \E l \in Links : Step(l)

Settle(l) == Tell(l) \/ Lose(l)

Spec == Init /\ [][Next]_link

(***************************************************************************)
(* No link is owed word of for ever.                                       *)
(***************************************************************************)
Fairness == \A l \in Links : WF_link(Settle(l))
=============================================================================
