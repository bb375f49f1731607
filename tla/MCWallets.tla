---------------------------- MODULE MCWallets ----------------------------
(***************************************************************************)
(* Databases to start Wallets from, and the requests made to them.         *)
(***************************************************************************)
EXTENDS Wallets

CONSTANTS x1, x2, e1, e2, e3, k1, k2, m1, m2, f1, f2

Req(op, x, e, k, m, f) ==
    [op |-> op, ext |-> x, email |-> e, key |-> k, mid |-> m, print |-> f]

Token(x, e) == Req("token", x, e, None, None, None)
Create(x, e, k, m, f) == Req("create_trusted", x, e, k, m, f)
Pay(x, f) == Req("add_payment", x, None, None, None, f)
Patch(x, f) == Req("update_payment", x, None, None, None, f)
Unpay(x, f) == Req("delete_payment", x, None, None, None, f)
Email(x, e) == Req("email_update", x, e, None, None, None)

(***************************************************************************)
(* A user, a card added without trust (so without a date), and a payment   *)
(* account, in the user's wallet.                                          *)
(***************************************************************************)
SomeUser == {[table |-> "user", id |-> 1, ext |-> x1, email |-> e1],
             [table |-> "consent", id |-> 2, user |-> 1]}

SomeCard == {[table |-> "card", id |-> 3, key |-> k1, mid |-> None, dated |-> FALSE],
             [table |-> "link", id |-> 4, card |-> 3, user |-> 1, active |-> FALSE]}

SomePayment == {[table |-> "payment", id |-> 5, print |-> f1, live |-> TRUE, pll |-> FALSE],
                [table |-> "owner", id |-> 6, payment |-> 5, user |-> 1]}

UserOnly == {SomeUser}
Varied == {SomeUser,
           SomeUser \cup SomeCard \cup SomePayment}
FullWallet == {SomeUser \cup SomeCard \cup SomePayment}

Newcomers == {Token(x2, e2), Create(x2, e2, k1, m1, f1), Pay(x1, f1), Unpay(x1, f1)}
Changes == {Token(x1, e1), Token(x2, e2), Token(x2, e1), Email(x1, e2), Email(x2, e3),
            Email(x2, e1), Patch(x2, f1), Create(x2, e2, k1, m1, f1), Create(x1, e1, k2, m1, f1)}
Refused == {Create(x2, e2, k1, m1, f1), Create(x2, e2, k2, m2, f1), Token(x2, e2)}
=============================================================================
