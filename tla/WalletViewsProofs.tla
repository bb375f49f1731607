------------------------- MODULE WalletViewsProofs -------------------------
(***************************************************************************)
(* Proofs, for any wallet, images, statuses and bounds, of the invariants  *)
(* of WalletViews.                                                         *)
(***************************************************************************)
EXTENDS WalletViews, FunctionTheorems, FiniteSetTheorems, WellFoundedInduction, TLAPS

(***************************************************************************)
(* What the statements of a request would return now, and which of them    *)
(* the request is past.                                                    *)
(***************************************************************************)
PllsNow ==
    {[card |-> x[1], account |-> x[2], state |-> pll[x]] :
        x \in {y \in Asked \X Accounts : pll[y] \in PllStates}}
AccountsNow == {a \in Accounts : Viewer \in owners[a]}
ListedNow == {c \in Asked : Listed(c)}
RowsNow == [c \in ListedNow |-> [entry |-> link[c], held |-> held[c]]]

PastPlls == req.op \in WithCards /\ req.pc # "query_all_pll"
PastAccounts ==
    \/ req.op \in WholeOps /\ req.pc \in {"query_scheme_accounts", "get_target_value", "query_all_images"}
    \/ req.op = "card" /\ req.pc \in {"get_target_value", "query_all_images"}
PastCards ==
    /\ req.op \in WithCards
    /\ \/ req.pc \in {"get_target_value", "query_all_images"}
       \/ req.op = "card" /\ req.pc = "query_payment_accounts"

(***************************************************************************)
(* A request runs the statements of its endpoint and no other.             *)
(***************************************************************************)
StatementsOf(op) ==
    CASE op \in WholeOps -> {"query_all_pll", "query_payment_accounts", "query_scheme_accounts",
                             "get_target_value", "query_all_images"}
      [] op = "card" -> {"query_all_pll", "query_scheme_accounts", "query_payment_accounts",
                         "get_target_value", "query_all_images"}
      [] op \in {"transactions", "vouchers"} -> {"query_scheme_account"}
      [] op = "balance" -> {"query_scheme_account", "get_target_value"}
      [] op = "channels" -> {"query_cards", "query_channels"}

Requests == [pc : Pcs, op : Ops, card : Cards \cup {NoCard}, todo : SUBSET Cards]

RequestOK ==
    req # NoRequest =>
        /\ req \in Requests
        /\ req.pc \in StatementsOf(req.op)
        /\ req.op \in CardOps => req.card \in Cards
        /\ answer = NoAnswer

(***************************************************************************)
(* What a request has got is of the right kind: the rows of cards it found *)
(* listed, the targets of those of them it need not look up any more.      *)
(***************************************************************************)
Row == [entry : Entries, held : Held]
GotOK ==
    /\ DOMAIN got = {"plls", "accounts", "rows", "targets", "links"}
    /\ got.plls \subseteq [card : Cards, account : Accounts, state : PllStates]
    /\ got.accounts \subseteq Accounts
    /\ DOMAIN got.rows \subseteq Cards
    /\ \A c \in DOMAIN got.rows : got.rows[c] \in Row
    /\ DOMAIN got.targets \subseteq DOMAIN got.rows
    /\ req = NoRequest => got = Nothing

TodoOK ==
    req # NoRequest =>
        /\ req.todo \subseteq DOMAIN got.rows
        /\ req.pc = "get_target_value" => req.todo # {}
        /\ req.pc \notin {"get_target_value", "query_all_images"} => DOMAIN got.targets = {}
        /\ req.op \in WithCards =>
              DOMAIN got.targets \cup req.todo = {c \in DOMAIN got.rows : NeedsTarget(got.rows[c].entry)}
        /\ req.pc = "query_all_images" => req.todo = {}
        /\ req.op \in WithCards /\ ~PastCards => req.todo = {}

(***************************************************************************)
(* While the wallet has not changed, what a request got is what it would   *)
(* get now.                                                                *)
(***************************************************************************)
NothingStale ==
    req # NoRequest /\ quiet =>
        /\ PastPlls => got.plls = PllsNow
        /\ PastAccounts => got.accounts = AccountsNow
        /\ PastCards => got.rows = RowsNow
        /\ \A c \in DOMAIN got.targets : got.targets[c] = TargetOf(held[c].vouchers)

IInv == TypeOK /\ RequestOK /\ GotOK /\ TodoOK /\ NothingStale

(***************************************************************************)
(* What the invariants ask of a step: it answers nothing yet, it answers   *)
(* with an error, which for a whole wallet is 404 only if the wallet was   *)
(* changed, or it answers for less than a card.                            *)
(***************************************************************************)
Silent == answer' = answer /\ answer = NoAnswer
Failed ==
    /\ answer'.outcome # "ok"
    /\ answer'.what \in WholeOps /\ quiet' => answer'.outcome = "error"
VouchersAnswered ==
    /\ req.card \in Cards /\ UNCHANGED wallet
    /\ answer'.what = "vouchers" /\ answer'.of = req.card
    /\ answer'.vouchers = IF Shows(link[req.card]) THEN Processed(held[req.card].vouchers) ELSE <<>>
FullNow == req.op # "overview"
FoundNow == Found(DOMAIN got.rows, FullNow)
JoinsNow == {c \in DOMAIN got.rows : IsJoin(got.rows[c].entry)}
ItemNow(c) == CardItem(c, FullNow, FoundNow)
ViewAnswered ==
    /\ req.pc = "query_all_images" /\ req.op \in WithCards
    /\ UNCHANGED <<wallet, changes>>
    /\ answer'.what = req.op /\ answer'.outcome = "ok"
    /\ answer'.joins = {JoinItem(c, FoundNow) : c \in JoinsNow}
    /\ answer'.cards = {ItemNow(c) : c \in DOMAIN got.rows \ JoinsNow}
AnswersForLess == answer'.what \notin WithCards \cup {"vouchers"}

-----------------------------------------------------------------------------
(***************************************************************************)
(* The invariant holds at first.                                           *)
(***************************************************************************)
LEMMA InitIInv == Init => IInv
  <1> SUFFICES ASSUME Init PROVE IInv
    OBVIOUS
  <1>1. req = NoRequest /\ got = Nothing /\ answer = NoAnswer /\ changes = 0
    BY DEF Init
  <1>2. TypeOK
    BY <1>1, BoundsAssumption DEF Init, TypeOK, NoRequest, Nothing, NoAnswer
  <1>3. GotOK
    BY <1>1 DEF GotOK, Nothing
  <1> QED BY <1>1, <1>2, <1>3 DEF IInv, RequestOK, TodoOK, NothingStale

(***************************************************************************)
(* A change of the wallet takes nothing from the request, but from then on *)
(* the request may have stale rows.                                        *)
(***************************************************************************)
LEMMA ChangeStep ==
  ASSUME IInv, Change,
         link' \in [Cards -> Entries \cup {NoLink}], held' \in [Cards -> Held],
         owners' \in [Accounts -> SUBSET Users], pll' \in [Cards \X Accounts -> PllValues]
  PROVE  IInv' /\ Silent
  <1>1. /\ req' = req /\ got' = got /\ answer' = answer /\ changes' = changes + 1
        /\ changes < MaxChanges /\ req # NoRequest /\ Consistent(link, owners, pll)'
    BY DEF Change, NoRequest
  <1>2. changes \in Nat /\ changes' \in 0 .. MaxChanges /\ changes' # 0
    BY <1>1, BoundsAssumption DEF IInv, TypeOK
  <1>3. answer = NoAnswer
    BY <1>1 DEF IInv, RequestOK
  <1>4. TypeOK'
    BY <1>1, <1>2 DEF IInv, TypeOK
  <1>5. RequestOK' /\ GotOK' /\ TodoOK'
    BY <1>1 DEF IInv, RequestOK, GotOK, TodoOK, PastCards
  <1>6. NothingStale'
    BY <1>2 DEF NothingStale, quiet
  <1> QED BY <1>1, <1>3, <1>4, <1>5, <1>6 DEF IInv, Silent

(***************************************************************************)
(* An answer ends the request; it says what was asked, and the rest of it  *)
(* is what the endpoint made.                                              *)
(***************************************************************************)
LEMMA AnswerStep ==
  ASSUME IInv, req # NoRequest, NEW a, Answer(a), UNCHANGED <<wallet, changes>>
  PROVE  /\ IInv' /\ answer'.what = req.op /\ answer'.of = req.card
         /\ \A f \in DOMAIN a \ {"what", "of"} : answer'[f] = a[f]
  <1>1. req' = NoRequest /\ got' = Nothing
    BY DEF Answer
  <1>2. answer' = [f \in {"what", "of"} \cup DOMAIN a |->
                     CASE f = "what" -> req.op [] f = "of" -> req.card [] OTHER -> a[f]]
    BY DEF Answer
  <1>3. answer'.what = req.op
    BY <1>2
  <1>4. answer'.of = req.card
    BY <1>2
  <1>5. \A f \in DOMAIN a \ {"what", "of"} : answer'[f] = a[f]
    BY <1>2
  <1>6. req.op \in Ops
    BY DEF IInv, RequestOK, Requests
  <1>7. TypeOK'
    <2>1. link' = link /\ held' = held /\ owners' = owners /\ pll' = pll /\ changes' = changes
      BY DEF wallet
    <2>2. Consistent(link, owners, pll)'
      BY <2>1 DEF IInv, TypeOK
    <2>3. got'.plls = {} /\ got'.accounts = {} /\ got'.rows = <<>> /\ got'.targets = <<>>
      BY <1>1 DEF Nothing
    <2>4. req'.pc = "idle"
      BY <1>1 DEF NoRequest
    <2> QED BY <1>1, <1>3, <1>6, <2>1, <2>2, <2>3, <2>4 DEF IInv, TypeOK
  <1>8. GotOK'
    BY <1>1 DEF GotOK, Nothing
  <1>9. RequestOK' /\ TodoOK' /\ NothingStale'
    BY <1>1 DEF RequestOK, TodoOK, NothingStale
  <1> QED BY <1>3, <1>4, <1>5, <1>7, <1>8, <1>9 DEF IInv

LEMMA AnswerOutcome ==
  ASSUME IInv, req # NoRequest, NEW o, Answer([outcome |-> o]), UNCHANGED <<wallet, changes>>
  PROVE  IInv' /\ answer'.what = req.op /\ answer'.outcome = o
  <1> DEFINE a == [outcome |-> o]
  <1>1. DOMAIN a = {"outcome"} /\ a.outcome = o
    OBVIOUS
  <1>2. IInv' /\ answer'.what = req.op /\ (\A f \in DOMAIN a \ {"what", "of"} : answer'[f] = a[f])
    <2> HIDE DEF a
    <2>1. Answer(a)
      BY DEF a
    <2> QED BY <2>1, AnswerStep
  <1> HIDE DEF a
  <1>3. answer'.outcome = a.outcome
    BY <1>1, <1>2
  <1> QED BY <1>1, <1>2, <1>3

(***************************************************************************)
(* A request of any kind begins with the first statement of its endpoint.  *)
(***************************************************************************)
LEMMA ReceiveStep ==
  ASSUME IInv, Receive
  PROVE  IInv' /\ Silent
  <1>1. req.pc = "idle" /\ answer = NoAnswer /\ UNCHANGED <<wallet, got, answer, changes>>
    BY DEF Receive
  <1>2. PICK op \in Ops, c \in Cards \cup {NoCard} :
          /\ (op \in CardOps) = (c # NoCard)
          /\ req' = [pc |-> FirstStatement(op), op |-> op, card |-> c, todo |-> {}]
    BY DEF Receive, Ops
  <1>3. req = NoRequest /\ got = Nothing
    BY <1>1 DEF IInv, RequestOK, Requests, GotOK, Pcs
  <1>4. req' = [pc |-> req'.pc, op |-> op, card |-> c, todo |-> {}] /\ req'.pc = FirstStatement(op)
    BY <1>2
  <1>5. /\ req'.pc \in {"query_all_pll", "query_scheme_account", "query_cards"}
        /\ req'.pc \in StatementsOf(op)
        /\ op \in WithCards => req'.pc = "query_all_pll"
    BY <1>4 DEF FirstStatement, StatementsOf, Ops, WholeOps, CardOps, WithCards
  <1>6. req' \in Requests /\ req'.op = op /\ req'.card = c /\ req'.todo = {}
    BY <1>4, <1>5 DEF Requests, Pcs
  <1>7. RequestOK'
    BY <1>1, <1>2, <1>5, <1>6 DEF RequestOK
  <1>8. TypeOK'
    BY <1>1, <1>5, <1>6 DEF IInv, TypeOK, wallet, Requests, Consistent
  <1>9. GotOK'
    BY <1>1, <1>3, <1>6 DEF IInv, GotOK, Nothing
  <1>10. TodoOK'
    BY <1>1, <1>3, <1>5, <1>6 DEF TodoOK, Nothing
  <1>11. NothingStale'
    BY <1>1, <1>3, <1>5, <1>6 DEF NothingStale, Nothing, PastPlls, PastAccounts, PastCards, WithCards, WholeOps
  <1> QED BY <1>1, <1>7, <1>8, <1>9, <1>10, <1>11 DEF IInv, Silent

(***************************************************************************)
(* A request that goes on only changes where it stands and what is to do.  *)
(***************************************************************************)
LEMMA GotoFields ==
  ASSUME IInv, req # NoRequest, NEW pc \in Pcs, NEW todo \in SUBSET Cards, Goto(pc, todo),
         pc \in StatementsOf(req.op), answer' = answer
  PROVE  /\ req' \in Requests /\ req'.pc = pc /\ req'.op = req.op /\ req'.card = req.card
         /\ req'.todo = todo /\ RequestOK' /\ req' # NoRequest
  <1>1. req \in Requests
    BY DEF IInv, RequestOK
  <1>2. req' = [req EXCEPT !.pc = pc, !.todo = todo]
    BY DEF Goto
  <1>3. /\ req' \in Requests /\ req'.pc = pc /\ req'.op = req.op /\ req'.card = req.card
        /\ req'.todo = todo
    BY <1>1, <1>2 DEF Requests
  <1>4. req' # NoRequest
    BY <1>3 DEF NoRequest, Pcs
  <1> QED BY <1>3, <1>4 DEF IInv, RequestOK

LEMMA GotoTypeOK ==
  ASSUME IInv, UNCHANGED <<wallet, answer, changes>>, req' \in Requests, GotOK', TodoOK',
         req' # NoRequest
  PROVE  TypeOK'
  <1>1. /\ link' = link /\ held' = held /\ owners' = owners /\ pll' = pll /\ changes' = changes
        /\ answer' = answer
    BY DEF wallet
  <1>2. Consistent(link, owners, pll)'
    BY <1>1 DEF IInv, TypeOK
  <1> QED BY <1>1, <1>2 DEF IInv, TypeOK, GotOK, TodoOK, Requests

(***************************************************************************)
(* The links of the cards asked for.                                       *)
(***************************************************************************)
LEMMA QueryAllPllStep ==
  ASSUME IInv, QueryAllPll
  PROVE  IInv' /\ Silent
  <1> DEFINE next == IF req.op = "card" THEN "query_scheme_accounts" ELSE "query_payment_accounts"
  <1>1. /\ req.pc = "query_all_pll" /\ Goto(next, {}) /\ UNCHANGED <<wallet, answer, changes>>
        /\ got' = [got EXCEPT !.plls = PllsNow]
    BY DEF QueryAllPll, PllsNow
  <1>2. req # NoRequest /\ answer = NoAnswer /\ req.pc \in StatementsOf(req.op) /\ req.op \in Ops
    BY <1>1 DEF IInv, RequestOK, NoRequest, Requests
  <1>3. req.op \in WithCards
    BY <1>1, <1>2 DEF StatementsOf, WithCards, WholeOps, Ops, CardOps
  <1>4. next \in Pcs /\ next \in StatementsOf(req.op)
    BY <1>3 DEF Pcs, StatementsOf, WithCards, WholeOps
  <1>5. /\ req' \in Requests /\ req'.pc = next /\ req'.op = req.op /\ req'.card = req.card
        /\ req'.todo = {} /\ RequestOK' /\ req' # NoRequest
    <2> HIDE DEF next
    <2> QED BY <1>1, <1>2, <1>4, GotoFields
  <1>6. /\ DOMAIN got' = DOMAIN got /\ got'.plls = PllsNow /\ got'.accounts = got.accounts
        /\ got'.rows = got.rows /\ got'.targets = got.targets
    BY <1>1 DEF IInv, GotOK
  <1>7. req.op = "card" => req.card \in Cards
    BY <1>2 DEF IInv, RequestOK, CardOps
  <1>8. PllsNow \subseteq [card : Cards, account : Accounts, state : PllStates]
    BY <1>7 DEF PllsNow, Asked
  <1>9. GotOK'
    BY <1>5, <1>6, <1>8 DEF IInv, GotOK
  <1>10. DOMAIN got.targets = {} /\ req.todo \subseteq DOMAIN got.rows
    BY <1>1, <1>2 DEF IInv, TodoOK
  <1>11. {c \in DOMAIN got.rows : NeedsTarget(got.rows[c].entry)} = {}
    BY <1>1, <1>2, <1>3, <1>10 DEF IInv, TodoOK, PastCards
  <1>12. next \notin {"query_all_images", "get_target_value", "query_all_pll"}
    OBVIOUS
  <1>13. TodoOK'
    BY <1>5, <1>6, <1>10, <1>11, <1>12 DEF TodoOK
  <1>14. TypeOK'
    BY <1>1, <1>5, <1>9, <1>13, GotoTypeOK
  <1>15. (PllsNow = PllsNow') /\ ~PastAccounts' /\ ~PastCards'
    <2>1. req'.op = req.op /\ req'.card = req.card /\ pll' = pll
      BY <1>1, <1>5 DEF wallet
    <2>2. PllsNow = PllsNow'
      BY <2>1 DEF PllsNow, Asked
    <2> QED BY <1>1, <1>5, <2>2 DEF PastAccounts, PastCards, WholeOps
  <1>16. NothingStale'
    BY <1>5, <1>6, <1>10, <1>15 DEF NothingStale
  <1> QED BY <1>1, <1>2, <1>5, <1>9, <1>13, <1>14, <1>16 DEF IInv, Silent

(***************************************************************************)
(* The payment accounts of the viewer.                                     *)
(***************************************************************************)
LEMMA QueryPaymentAccountsStep ==
  ASSUME IInv, QueryPaymentAccounts
  PROVE  IInv' /\ Silent
  <1> DEFINE next == CASE req.op \in WholeOps -> "query_scheme_accounts"
                       [] req.op = "card" /\ req.todo # {} -> "get_target_value"
                       [] OTHER -> "query_all_images"
  <1>1. /\ req.pc = "query_payment_accounts" /\ Goto(next, req.todo)
        /\ UNCHANGED <<wallet, answer, changes>>
        /\ got' = [got EXCEPT !.accounts = AccountsNow]
    BY DEF QueryPaymentAccounts, AccountsNow
  <1>2. req # NoRequest /\ answer = NoAnswer /\ req.pc \in StatementsOf(req.op) /\ req \in Requests
    BY <1>1 DEF IInv, RequestOK, NoRequest
  <1>3. req.op \in WithCards /\ req.op \in Ops /\ req.todo \in SUBSET Cards
    BY <1>1, <1>2 DEF StatementsOf, WithCards, WholeOps, Ops, CardOps, Requests
  <1>4. next \in Pcs /\ next \in StatementsOf(req.op)
    BY <1>3 DEF Pcs, StatementsOf, WithCards, WholeOps
  <1>5. /\ req' \in Requests /\ req'.pc = next /\ req'.op = req.op /\ req'.card = req.card
        /\ req'.todo = req.todo /\ RequestOK' /\ req' # NoRequest
    <2> HIDE DEF next
    <2> QED BY <1>1, <1>2, <1>3, <1>4, GotoFields
  <1>6. /\ DOMAIN got' = DOMAIN got /\ got'.plls = got.plls /\ got'.accounts = AccountsNow
        /\ got'.rows = got.rows /\ got'.targets = got.targets
    BY <1>1 DEF IInv, GotOK
  <1>7. GotOK'
    BY <1>5, <1>6 DEF IInv, GotOK, AccountsNow
  <1>8. DOMAIN got.targets = {} /\ req.todo \subseteq DOMAIN got.rows
    BY <1>1, <1>2 DEF IInv, TodoOK
  <1>9. {c \in DOMAIN got.rows : NeedsTarget(got.rows[c].entry)} = req.todo
    BY <1>2, <1>3, <1>8 DEF IInv, TodoOK
  <1>10. /\ next = "query_all_images" => req.todo = {}
         /\ next = "get_target_value" => req.todo # {}
         /\ req.op \in WholeOps => req.todo = {}
    BY <1>1, <1>2, <1>3 DEF IInv, TodoOK, PastCards, WithCards, WholeOps
  <1>11. req.op = "card" => PastCards
    BY <1>1, <1>3 DEF PastCards
  <1>12. TodoOK'
    <2>1. req'.op \in WithCards /\ ~PastCards' => req'.todo = {}
      BY <1>5, <1>10, <1>3 DEF PastCards, WithCards
    <2> HIDE DEF next
    <2> QED BY <1>5, <1>6, <1>8, <1>9, <1>10, <2>1 DEF TodoOK
  <1>13. TypeOK'
    BY <1>1, <1>5, <1>7, <1>12, GotoTypeOK
  <1>14. /\ PllsNow' = PllsNow /\ AccountsNow' = AccountsNow /\ RowsNow' = RowsNow
         /\ quiet' = quiet
    <2>1. /\ req'.op = req.op /\ req'.card = req.card /\ pll' = pll /\ owners' = owners
          /\ link' = link /\ held' = held /\ changes' = changes
      BY <1>1, <1>5 DEF wallet
    <2> QED BY <2>1 DEF PllsNow, AccountsNow, RowsNow, ListedNow, Listed, Asked, quiet
  <1>15. PastPlls /\ (PastCards' => PastCards)
    BY <1>1, <1>3, <1>5, <1>11 DEF PastPlls, PastCards, WithCards, WholeOps
  <1>16. NothingStale'
    BY <1>2, <1>5, <1>6, <1>8, <1>14, <1>15 DEF IInv, NothingStale
  <1> QED BY <1>1, <1>2, <1>5, <1>7, <1>12, <1>13, <1>16 DEF IInv, Silent

(***************************************************************************)
(* The cards listed; a card asked for by id may not be among them.         *)
(***************************************************************************)
LEMMA QuerySchemeAccountsStep ==
  ASSUME IInv, QuerySchemeAccounts
  PROVE  IInv' /\ (Silent \/ Failed)
  <1> DEFINE todo == {c \in ListedNow : NeedsTarget(link[c])}
             next == CASE req.op = "card" -> "query_payment_accounts"
                       [] req.op \in WholeOps /\ todo # {} -> "get_target_value"
                       [] OTHER -> "query_all_images"
  <1>1. /\ req.pc = "query_scheme_accounts" /\ UNCHANGED <<wallet, changes>>
        /\ IF req.op = "card" /\ ListedNow = {} THEN NotFound
           ELSE /\ got' = [got EXCEPT !.rows = RowsNow]
                /\ Goto(next, todo)
                /\ UNCHANGED answer
    BY DEF QuerySchemeAccounts, ListedNow, RowsNow
  <1>2. req # NoRequest /\ answer = NoAnswer /\ req.pc \in StatementsOf(req.op) /\ req \in Requests
    BY <1>1 DEF IInv, RequestOK, NoRequest
  <1>3. req.op \in WithCards /\ req.op \in Ops
    BY <1>1, <1>2 DEF StatementsOf, WithCards, WholeOps, Ops, CardOps, Requests
  <1>4. CASE req.op = "card" /\ ListedNow = {}
    <2>1. Answer([outcome |-> "not found"])
      BY <1>1, <1>4 DEF NotFound
    <2>2. IInv' /\ answer'.what = "card" /\ answer'.outcome = "not found"
      BY <1>1, <1>2, <1>4, <2>1, AnswerOutcome
    <2>3. Failed
      BY <2>2 DEF Failed, WholeOps
    <2> QED BY <2>2, <2>3
  <1>5. CASE ~(req.op = "card" /\ ListedNow = {})
    <2>1. got' = [got EXCEPT !.rows = RowsNow] /\ Goto(next, todo) /\ answer' = answer
      BY <1>1, <1>5
    <2>2. ListedNow \subseteq Cards
      BY <1>2 DEF ListedNow, Asked, IInv, RequestOK, CardOps
    <2>3. todo \in SUBSET Cards /\ next \in Pcs /\ next \in StatementsOf(req.op)
      BY <1>3, <2>2 DEF Pcs, StatementsOf, WithCards, WholeOps
    <2>4. /\ req' \in Requests /\ req'.pc = next /\ req'.op = req.op /\ req'.card = req.card
          /\ req'.todo = todo /\ RequestOK' /\ req' # NoRequest
      <3> HIDE DEF next, todo
      <3> QED BY <1>2, <2>1, <2>3, GotoFields
    <2>5. /\ DOMAIN got' = DOMAIN got /\ got'.plls = got.plls /\ got'.accounts = got.accounts
          /\ got'.rows = RowsNow /\ got'.targets = got.targets
      BY <2>1 DEF IInv, GotOK
    <2>6. /\ DOMAIN RowsNow = ListedNow
          /\ \A c \in ListedNow : RowsNow[c] = [entry |-> link[c], held |-> held[c]]
      BY DEF RowsNow
    <2>7. DOMAIN got.targets = {}
      BY <1>1, <1>2 DEF IInv, TodoOK
    <2>8. \A c \in ListedNow : RowsNow[c] \in Row
      <3>1. \A c \in ListedNow : link[c] \in Entries /\ held[c] \in Held
        BY <2>2 DEF IInv, TypeOK, ListedNow, Listed
      <3> QED BY <2>6, <3>1 DEF Row
    <2>9. GotOK'
      BY <2>2, <2>4, <2>5, <2>6, <2>7, <2>8 DEF IInv, GotOK
    <2>10. {c \in ListedNow : NeedsTarget(RowsNow[c].entry)} = todo
      BY <2>6
    <2>11. /\ next = "query_all_images" => todo = {}
           /\ next = "get_target_value" => todo # {}
           /\ next # "query_scheme_accounts" /\ next # "query_all_pll"
      BY <1>3 DEF WithCards
    <2>12. PastCards'
      BY <1>3, <2>4 DEF PastCards, WithCards, WholeOps
    <2>13. TodoOK'
      <3> HIDE DEF next, todo
      <3>1. todo \subseteq ListedNow
        BY DEF todo
      <3> QED BY <2>4, <2>5, <2>6, <2>7, <2>10, <2>11, <2>12, <3>1 DEF TodoOK
    <2>14. TypeOK'
      BY <1>1, <2>1, <2>4, <2>9, <2>13, GotoTypeOK
    <2>15. /\ PllsNow' = PllsNow /\ AccountsNow' = AccountsNow /\ RowsNow' = RowsNow
           /\ quiet' = quiet
      <3>1. /\ req'.op = req.op /\ req'.card = req.card /\ pll' = pll /\ owners' = owners
            /\ link' = link /\ held' = held /\ changes' = changes
        BY <1>1, <2>4 DEF wallet
      <3> QED BY <3>1 DEF PllsNow, AccountsNow, RowsNow, ListedNow, Listed, Asked, quiet
    <2>16. PastPlls /\ (PastAccounts' => PastAccounts)
      BY <1>1, <1>3, <2>4 DEF PastPlls, PastAccounts, WithCards, WholeOps
    <2>17. NothingStale'
      BY <1>2, <2>4, <2>5, <2>7, <2>15, <2>16 DEF IInv, NothingStale
    <2> QED BY <1>2, <2>1, <2>4, <2>9, <2>13, <2>14, <2>17 DEF IInv, Silent
  <1> QED BY <1>4, <1>5

(***************************************************************************)
(* The target of one card.  The card was just listed and is no join, so    *)
(* that it is not found only if the wallet changed.                        *)
(***************************************************************************)
LEMMA GetTargetValueStep ==
  ASSUME IInv, NEW c \in Cards, GetTargetValue(c)
  PROVE  IInv' /\ (Silent \/ Failed \/ AnswersForLess)
  <1> DEFINE target == TargetOf(held[c].vouchers)
             next == IF req.todo = {c} THEN "query_all_images" ELSE req.pc
             targets == [d \in DOMAIN got.targets \cup {c} |-> IF d = c THEN target ELSE got.targets[d]]
  <1>1. /\ req.pc = "get_target_value" /\ c \in req.todo /\ UNCHANGED <<wallet, changes>>
        /\ CASE ~Readable(c) -> NotFound
             [] Readable(c) /\ req.op = "balance" ->
                    Answer([outcome |-> "ok", balance |-> got.rows[c].held.balance, target |-> target])
             [] OTHER ->
                    /\ got' = [got EXCEPT !.targets = targets]
                    /\ Goto(next, req.todo \ {c})
                    /\ UNCHANGED answer
    BY DEF GetTargetValue
  <1>2. req # NoRequest /\ answer = NoAnswer /\ req.pc \in StatementsOf(req.op) /\ req \in Requests
    BY <1>1 DEF IInv, RequestOK, NoRequest
  <1>3. req.op \in WithCards \cup {"balance"} /\ req.op \in Ops /\ req.todo \in SUBSET Cards
    BY <1>1, <1>2 DEF StatementsOf, WithCards, WholeOps, Ops, CardOps, Requests
  <1>4. CASE ~Readable(c)
    <2>1. Answer([outcome |-> "not found"])
      BY <1>1, <1>4 DEF NotFound
    <2>2. IInv' /\ answer'.what = req.op /\ answer'.outcome = "not found"
      BY <1>1, <1>2, <2>1, AnswerOutcome
    <2>3. ASSUME req.op \in WholeOps, quiet PROVE FALSE
      <3>1. PastCards /\ req.op \in WithCards
        BY <1>1, <2>3 DEF PastCards, WithCards
      <3>2. got.rows = RowsNow
        BY <1>2, <2>3, <3>1 DEF IInv, NothingStale
      <3>3. c \in DOMAIN got.rows /\ NeedsTarget(got.rows[c].entry)
        BY <1>1, <1>2, <3>1 DEF IInv, TodoOK
      <3>4. c \in ListedNow /\ NeedsTarget(link[c])
        BY <3>2, <3>3 DEF RowsNow
      <3> QED BY <1>4, <3>4 DEF ListedNow, Listed, NeedsTarget, Readable
    <2> QED BY <1>1, <2>2, <2>3 DEF Failed, quiet
  <1>5. CASE Readable(c) /\ req.op = "balance"
    <2> DEFINE a == [outcome |-> "ok", balance |-> got.rows[c].held.balance, target |-> target]
    <2>1. Answer(a)
      BY <1>1, <1>5
    <2> HIDE DEF a
    <2>2. IInv' /\ answer'.what = "balance"
      BY <1>1, <1>2, <1>5, <2>1, AnswerStep
    <2> QED BY <2>2 DEF AnswersForLess, WithCards, WholeOps
  <1>6. CASE Readable(c) /\ req.op # "balance"
    <2>1. /\ got' = [got EXCEPT !.targets = targets] /\ Goto(next, req.todo \ {c})
          /\ answer' = answer
      BY <1>1, <1>6
    <2>2. req.op \in WithCards /\ PastCards
      BY <1>1, <1>3, <1>6 DEF PastCards
    <2>3. req.todo \ {c} \in SUBSET Cards /\ next \in Pcs /\ next \in StatementsOf(req.op)
      BY <1>1, <1>3, <2>2 DEF Pcs, StatementsOf, WithCards, WholeOps
    <2>4. /\ req' \in Requests /\ req'.pc = next /\ req'.op = req.op /\ req'.card = req.card
          /\ req'.todo = req.todo \ {c} /\ RequestOK' /\ req' # NoRequest
      <3> HIDE DEF next
      <3> QED BY <1>2, <2>1, <2>3, GotoFields
    <2>5. /\ DOMAIN got' = DOMAIN got /\ got'.plls = got.plls /\ got'.accounts = got.accounts
          /\ got'.rows = got.rows /\ got'.targets = targets
      <3> HIDE DEF targets
      <3> QED BY <2>1 DEF IInv, GotOK
    <2>6. /\ DOMAIN targets = DOMAIN got.targets \cup {c}
          /\ \A d \in DOMAIN targets : d # c => targets[d] = got.targets[d]
          /\ targets[c] = target
      OBVIOUS
    <2>7. req.todo \subseteq DOMAIN got.rows
      BY <1>2 DEF IInv, TodoOK
    <2>8. DOMAIN got.targets \cup req.todo = {d \in DOMAIN got.rows : NeedsTarget(got.rows[d].entry)}
      BY <1>2, <2>2 DEF IInv, TodoOK
    <2>9. GotOK'
      <3> HIDE DEF targets
      <3> QED BY <1>1, <2>4, <2>5, <2>6, <2>7 DEF IInv, GotOK
    <2>10. /\ next = "query_all_images" => req.todo \ {c} = {}
           /\ next = "get_target_value" => req.todo \ {c} # {}
           /\ next \in {"query_all_images", "get_target_value"}
      BY <1>1
    <2>11. PastCards'
      BY <2>2, <2>4, <2>10 DEF PastCards
    <2>12. DOMAIN targets \cup (req.todo \ {c}) = DOMAIN got.targets \cup req.todo
      BY <1>1, <2>6
    <2>13. TodoOK'
      <3> HIDE DEF next, targets
      <3> QED BY <2>4, <2>5, <2>7, <2>8, <2>10, <2>11, <2>12 DEF TodoOK
    <2>14. TypeOK'
      BY <1>1, <2>1, <2>4, <2>9, <2>13, GotoTypeOK
    <2>15. /\ PllsNow' = PllsNow /\ AccountsNow' = AccountsNow /\ RowsNow' = RowsNow
           /\ quiet' = quiet /\ held' = held
      <3>1. /\ req'.op = req.op /\ req'.card = req.card /\ pll' = pll /\ owners' = owners
            /\ link' = link /\ held' = held /\ changes' = changes
        BY <1>1, <2>4 DEF wallet
      <3> QED BY <3>1 DEF PllsNow, AccountsNow, RowsNow, ListedNow, Listed, Asked, quiet
    <2>16. PastPlls /\ (PastAccounts' => PastAccounts)
      BY <1>1, <2>2, <2>4 DEF PastPlls, PastAccounts, WithCards, WholeOps
    <2>17. NothingStale'
      <3>1. (\A d \in DOMAIN got.targets : got.targets[d] = TargetOf(held[d].vouchers))
              => \A d \in DOMAIN targets : targets[d] = TargetOf(held[d].vouchers)
        BY <2>6
      <3> HIDE DEF targets
      <3> QED BY <1>2, <2>2, <2>4, <2>5, <2>15, <2>16, <3>1 DEF IInv, NothingStale
    <2> QED BY <1>2, <2>1, <2>4, <2>9, <2>13, <2>14, <2>17 DEF IInv, Silent
  <1> QED BY <1>4, <1>5, <1>6

(***************************************************************************)
(* The row of the one card whose transactions, balance or vouchers are     *)
(* asked for.                                                              *)
(***************************************************************************)
LEMMA QuerySchemeAccountStep ==
  ASSUME IInv, QuerySchemeAccount
  PROVE  IInv' /\ (Silent \/ Failed \/ AnswersForLess \/ VouchersAnswered)
  <1> DEFINE c == req.card
             shown == Shows(link[c])
             rows == [d \in {c} |-> [entry |-> link[d], held |-> held[d]]]
             vouchers == IF shown THEN Processed(held[c].vouchers) ELSE <<>>
  <1>1. /\ req.pc = "query_scheme_account" /\ UNCHANGED <<wallet, changes>>
        /\ CASE ~Readable(c) -> NotFound
             [] Readable(c) /\ req.op = "transactions" ->
                    Answer([outcome |-> "ok", transactions |-> shown])
             [] Readable(c) /\ req.op = "vouchers" ->
                    Answer([outcome |-> "ok", vouchers |-> vouchers])
             [] Readable(c) /\ req.op = "balance" /\ ~shown ->
                    Answer([outcome |-> "ok", balance |-> NoBalance, target |-> NoTarget])
             [] OTHER ->
                    /\ got' = [got EXCEPT !.rows = rows]
                    /\ Goto("get_target_value", {c})
                    /\ UNCHANGED answer
    BY DEF QuerySchemeAccount
  <1>2. req # NoRequest /\ answer = NoAnswer /\ req.pc \in StatementsOf(req.op) /\ req \in Requests
    BY <1>1 DEF IInv, RequestOK, NoRequest
  <1>3. req.op \in {"transactions", "vouchers", "balance"}
    BY <1>1, <1>2 DEF StatementsOf, WholeOps, Ops, CardOps, Requests
  <1>4. c \in Cards
    BY <1>2, <1>3 DEF IInv, RequestOK, CardOps
  <1>5. CASE ~Readable(c)
    <2>1. Answer([outcome |-> "not found"])
      BY <1>1, <1>5 DEF NotFound
    <2>2. IInv' /\ answer'.what = req.op /\ answer'.outcome = "not found"
      BY <1>1, <1>2, <2>1, AnswerOutcome
    <2> QED BY <1>3, <2>2 DEF Failed, WholeOps
  <1>6. CASE Readable(c) /\ req.op = "transactions"
    <2> DEFINE a == [outcome |-> "ok", transactions |-> shown]
    <2>1. Answer(a)
      BY <1>1, <1>6
    <2> HIDE DEF a
    <2>2. IInv' /\ answer'.what = req.op
      BY <1>1, <1>2, <2>1, AnswerStep
    <2> QED BY <1>6, <2>2 DEF AnswersForLess, WithCards, WholeOps
  <1>7. CASE Readable(c) /\ req.op = "vouchers"
    <2> DEFINE a == [outcome |-> "ok", vouchers |-> vouchers]
    <2> HIDE DEF vouchers
    <2>1. Answer(a)
      BY <1>1, <1>7
    <2>2. DOMAIN a = {"outcome", "vouchers"} /\ a.vouchers = vouchers
      OBVIOUS
    <2> HIDE DEF a
    <2>3. /\ IInv' /\ answer'.what = req.op /\ answer'.of = req.card
          /\ \A f \in DOMAIN a \ {"what", "of"} : answer'[f] = a[f]
      BY <1>1, <1>2, <2>1, AnswerStep
    <2>4. answer'.vouchers = a.vouchers
      BY <2>2, <2>3
    <2>5. VouchersAnswered
      BY <1>1, <1>4, <1>7, <2>2, <2>3, <2>4 DEF VouchersAnswered, vouchers
    <2> QED BY <2>3, <2>5
  <1>8. CASE Readable(c) /\ req.op = "balance" /\ ~shown
    <2> DEFINE a == [outcome |-> "ok", balance |-> NoBalance, target |-> NoTarget]
    <2>1. Answer(a)
      BY <1>1, <1>8
    <2> HIDE DEF a
    <2>2. IInv' /\ answer'.what = req.op
      BY <1>1, <1>2, <2>1, AnswerStep
    <2> QED BY <1>8, <2>2 DEF AnswersForLess, WithCards, WholeOps
  <1>9. CASE Readable(c) /\ req.op = "balance" /\ shown
    <2>1. /\ got' = [got EXCEPT !.rows = rows] /\ Goto("get_target_value", {c})
          /\ answer' = answer
      BY <1>1, <1>9
    <2>2. "get_target_value" \in Pcs /\ "get_target_value" \in StatementsOf(req.op)
      BY <1>9 DEF Pcs, StatementsOf, WholeOps
    <2>3. /\ req' \in Requests /\ req'.pc = "get_target_value" /\ req'.op = req.op
          /\ req'.card = req.card /\ req'.todo = {c} /\ RequestOK' /\ req' # NoRequest
      BY <1>2, <1>4, <2>1, <2>2, GotoFields
    <2>4. /\ DOMAIN got' = DOMAIN got /\ got'.plls = got.plls /\ got'.accounts = got.accounts
          /\ got'.rows = rows /\ got'.targets = got.targets
      <3> HIDE DEF rows
      <3> QED BY <2>1 DEF IInv, GotOK
    <2>5. DOMAIN rows = {c} /\ rows[c] = [entry |-> link[c], held |-> held[c]]
      OBVIOUS
    <2>6. link[c] \in Entries /\ held[c] \in Held
      BY <1>4, <1>9 DEF IInv, TypeOK, Readable
    <2>7. DOMAIN got.targets = {}
      BY <1>1, <1>2 DEF IInv, TodoOK
    <2>8. GotOK'
      <3>1. rows[c] \in Row
        BY <2>5, <2>6 DEF Row
      <3> HIDE DEF rows
      <3> QED BY <1>4, <2>3, <2>4, <2>5, <2>7, <3>1 DEF IInv, GotOK
    <2>9. req.op \notin WithCards
      BY <1>9 DEF WithCards, WholeOps
    <2>10. TodoOK'
      <3> HIDE DEF rows
      <3> QED BY <2>3, <2>4, <2>5, <2>7, <2>9 DEF TodoOK
    <2>11. TypeOK'
      BY <1>1, <2>1, <2>3, <2>8, <2>10, GotoTypeOK
    <2>12. NothingStale'
      BY <2>3, <2>4, <2>7, <2>9 DEF NothingStale, PastPlls, PastAccounts, PastCards, WithCards
    <2> QED BY <1>2, <2>1, <2>3, <2>8, <2>10, <2>11, <2>12 DEF IInv, Silent
  <1> QED BY <1>3, <1>5, <1>6, <1>7, <1>8, <1>9

(***************************************************************************)
(* The channel links.                                                      *)
(***************************************************************************)
LEMMA QueryCardsStep ==
  ASSUME IInv, QueryCards
  PROVE  IInv' /\ Silent
  <1> DEFINE links == {x \in Cards \X Accounts : link[x[1]] # NoLink /\ Offered(x[1]) /\ pll[x] # "none"}
  <1>1. /\ req.pc = "query_cards" /\ UNCHANGED <<wallet, answer, changes>>
        /\ got' = [got EXCEPT !.links = links] /\ Goto("query_channels", {})
    BY DEF QueryCards
  <1>2. req # NoRequest /\ answer = NoAnswer /\ req.pc \in StatementsOf(req.op) /\ req \in Requests
    BY <1>1 DEF IInv, RequestOK, NoRequest
  <1>3. req.op = "channels"
    BY <1>1, <1>2 DEF StatementsOf, WholeOps, Ops, CardOps, Requests
  <1>4. "query_channels" \in Pcs /\ "query_channels" \in StatementsOf(req.op)
    BY <1>3 DEF Pcs, StatementsOf, WholeOps
  <1>5. /\ req' \in Requests /\ req'.pc = "query_channels" /\ req'.op = req.op
        /\ req'.card = req.card /\ req'.todo = {} /\ RequestOK' /\ req' # NoRequest
    BY <1>1, <1>2, <1>4, GotoFields
  <1>6. /\ DOMAIN got' = DOMAIN got /\ got'.plls = got.plls /\ got'.accounts = got.accounts
        /\ got'.rows = got.rows /\ got'.targets = got.targets
    <2> HIDE DEF links
    <2> QED BY <1>1 DEF IInv, GotOK
  <1>7. DOMAIN got.targets = {}
    BY <1>1, <1>2 DEF IInv, TodoOK
  <1>8. GotOK'
    BY <1>5, <1>6 DEF IInv, GotOK
  <1>9. req.op \notin WithCards
    BY <1>3 DEF WithCards, WholeOps
  <1>10. TodoOK'
    BY <1>5, <1>6, <1>7, <1>9 DEF TodoOK
  <1>11. TypeOK'
    BY <1>1, <1>5, <1>8, <1>10, GotoTypeOK
  <1>12. NothingStale'
    BY <1>5, <1>6, <1>7, <1>9 DEF NothingStale, PastPlls, PastAccounts, PastCards, WithCards
  <1> QED BY <1>1, <1>2, <1>5, <1>8, <1>10, <1>11, <1>12 DEF IInv, Silent

LEMMA QueryChannelsStep ==
  ASSUME IInv, QueryChannels
  PROVE  IInv' /\ AnswersForLess
  <1> DEFINE a == [outcome |-> "ok", channels |-> ChannelsPaying(got.links)]
  <1>1. req.pc = "query_channels" /\ UNCHANGED <<wallet, changes>> /\ Answer(a)
    BY DEF QueryChannels
  <1>2. req # NoRequest /\ req.pc \in StatementsOf(req.op) /\ req \in Requests
    BY <1>1 DEF IInv, RequestOK, NoRequest
  <1>3. req.op = "channels"
    BY <1>1, <1>2 DEF StatementsOf, WholeOps, Ops, CardOps, Requests
  <1> HIDE DEF a
  <1>4. IInv' /\ answer'.what = req.op
    BY <1>1, <1>2, AnswerStep
  <1> QED BY <1>3, <1>4 DEF AnswersForLess, WithCards, WholeOps

(***************************************************************************)
(* The images are the last statement of a wallet or a card.                *)
(***************************************************************************)
LEMMA QueryAllImagesStep ==
  ASSUME IInv, QueryAllImages
  PROVE  IInv' /\ (Failed \/ ViewAnswered)
  <1> DEFINE joins == {JoinItem(c, FoundNow) : c \in JoinsNow}
             cards == {ItemNow(c) : c \in DOMAIN got.rows \ JoinsNow}
             accounts == {AccountItem(a, FullNow) : a \in got.accounts}
             a == [outcome |-> "ok", joins |-> joins, cards |-> cards, accounts |-> accounts]
  <1>1. /\ req.pc = "query_all_images" /\ UNCHANGED <<wallet, changes>>
        /\ Answer(a) \/ EventLost
    BY DEF QueryAllImages, FoundNow, FullNow, JoinsNow, ItemNow
  <1>2. req # NoRequest /\ req.pc \in StatementsOf(req.op) /\ req \in Requests
    BY <1>1 DEF IInv, RequestOK, NoRequest
  <1>3. req.op \in WithCards
    BY <1>1, <1>2 DEF StatementsOf, WithCards, WholeOps, Ops, CardOps, Requests
  <1>4. CASE Answer(a)
    <2> HIDE DEF joins, cards, accounts
    <2>1. DOMAIN a = {"outcome", "joins", "cards", "accounts"} /\ a.joins = joins /\ a.cards = cards
          /\ a.outcome = "ok"
      OBVIOUS
    <2> HIDE DEF a
    <2>2. /\ IInv' /\ answer'.what = req.op
          /\ \A f \in DOMAIN a \ {"what", "of"} : answer'[f] = a[f]
      BY <1>1, <1>2, <1>4, AnswerStep
    <2>3. answer'.joins = a.joins /\ answer'.cards = a.cards /\ answer'.outcome = a.outcome
      BY <2>1, <2>2
    <2>4. ViewAnswered
      BY <1>1, <1>3, <2>1, <2>2, <2>3 DEF ViewAnswered, joins, cards
    <2> QED BY <2>2, <2>4
  <1>5. CASE EventLost
    <2>1. IInv' /\ answer'.outcome = "error"
      BY <1>1, <1>2, <1>5, AnswerOutcome DEF EventLost
    <2> QED BY <2>1 DEF Failed
  <1> QED BY <1>1, <1>4, <1>5

(***************************************************************************)
(* Every step preserves the invariant, and answers in one of these ways.   *)
(***************************************************************************)
LEMMA NextStep ==
  ASSUME IInv, Next
  PROVE  IInv' /\ (Silent \/ Failed \/ AnswersForLess \/ VouchersAnswered \/ ViewAnswered)
  <1>1. CASE EntryChanges
    <2>1. PICK c \in Cards, e \in Entries \cup {NoLink} :
            /\ link' = [link EXCEPT ![c] = e]
            /\ pll' = [x \in Cards \X Accounts |->
                         IF e = NoLink /\ x[1] = c /\ pll[x] \in PllStates THEN "base" ELSE pll[x]]
            /\ UNCHANGED <<held, owners>> /\ Change
      BY <1>1 DEF EntryChanges
    <2>2. link' \in [Cards -> Entries \cup {NoLink}]
      BY <2>1 DEF IInv, TypeOK
    <2>3. pll' \in [Cards \X Accounts -> PllValues]
      BY <2>1 DEF IInv, TypeOK, PllValues
    <2> QED BY <2>1, <2>2, <2>3, ChangeStep DEF IInv, TypeOK
  <1>2. CASE HeldChanges
    <2>1. PICK c \in Cards, h \in Held :
            held' = [held EXCEPT ![c] = h] /\ UNCHANGED <<link, owners, pll>> /\ Change
      BY <1>2 DEF HeldChanges
    <2>2. held' \in [Cards -> Held]
      BY <2>1 DEF IInv, TypeOK
    <2> QED BY <2>1, <2>2, ChangeStep DEF IInv, TypeOK
  <1>3. CASE OwnerChanges
    <2>1. PICK a \in Accounts, o \in SUBSET Users :
            /\ owners' = [owners EXCEPT ![a] = o]
            /\ pll' = [x \in Cards \X Accounts |->
                         IF x[2] = a /\ Viewer \notin o /\ pll[x] \in PllStates THEN "base" ELSE pll[x]]
            /\ UNCHANGED <<link, held>> /\ Change
      <3>1. PICK a \in Accounts, u \in Users :
              LET o == IF u \in owners[a] THEN owners[a] \ {u} ELSE owners[a] \cup {u}
              IN  /\ owners' = [owners EXCEPT ![a] = o]
                  /\ pll' = [x \in Cards \X Accounts |->
                               IF x[2] = a /\ Viewer \notin o /\ pll[x] \in PllStates
                               THEN "base" ELSE pll[x]]
                  /\ UNCHANGED <<link, held>> /\ Change
        BY <1>3 DEF OwnerChanges
      <3> DEFINE o == IF u \in owners[a] THEN owners[a] \ {u} ELSE owners[a] \cup {u}
      <3>2. o \in SUBSET Users
        BY DEF IInv, TypeOK
      <3>3. /\ owners' = [owners EXCEPT ![a] = o]
            /\ pll' = [x \in Cards \X Accounts |->
                         IF x[2] = a /\ Viewer \notin o /\ pll[x] \in PllStates THEN "base" ELSE pll[x]]
            /\ UNCHANGED <<link, held>> /\ Change
        BY <3>1
      <3> HIDE DEF o
      <3> QED BY <3>2, <3>3
    <2>2. owners' \in [Accounts -> SUBSET Users]
      BY <2>1 DEF IInv, TypeOK
    <2>3. pll' \in [Cards \X Accounts -> PllValues]
      BY <2>1 DEF IInv, TypeOK, PllValues
    <2> QED BY <2>1, <2>2, <2>3, ChangeStep DEF IInv, TypeOK
  <1>4. CASE PllChanges
    <2>1. PICK x \in Cards \X Accounts, s \in PllValues :
            pll' = [pll EXCEPT ![x] = s] /\ UNCHANGED <<link, held, owners>> /\ Change
      BY <1>4 DEF PllChanges
    <2>2. pll' \in [Cards \X Accounts -> PllValues]
      BY <2>1 DEF IInv, TypeOK
    <2> QED BY <2>1, <2>2, ChangeStep DEF IInv, TypeOK
  <1>5. CASE Receive
    BY <1>5, ReceiveStep
  <1>6. CASE QueryAllPll
    BY <1>6, QueryAllPllStep
  <1>7. CASE QueryPaymentAccounts
    BY <1>7, QueryPaymentAccountsStep
  <1>8. CASE QuerySchemeAccounts
    BY <1>8, QuerySchemeAccountsStep
  <1>9. CASE \E c \in Cards : GetTargetValue(c)
    BY <1>9, GetTargetValueStep
  <1>10. CASE QueryAllImages
    BY <1>10, QueryAllImagesStep
  <1>11. CASE QuerySchemeAccount
    BY <1>11, QuerySchemeAccountStep
  <1>12. CASE QueryCards
    BY <1>12, QueryCardsStep
  <1>13. CASE QueryChannels
    BY <1>13, QueryChannelsStep
  <1> QED BY <1>1, <1>2, <1>3, <1>4, <1>5, <1>6, <1>7, <1>8, <1>9, <1>10, <1>11, <1>12, <1>13 DEF Next

LEMMA StutterStep ==
  ASSUME IInv, UNCHANGED vars
  PROVE  IInv'
  <1> USE DEF vars, wallet
  <1>1. TypeOK'
    BY DEF IInv, TypeOK, Consistent
  <1>2. RequestOK'
    BY DEF IInv, RequestOK
  <1>3. GotOK'
    BY DEF IInv, GotOK
  <1>4. TodoOK'
    BY DEF IInv, TodoOK, PastCards
  <1>5. NothingStale'
    BY DEF IInv, NothingStale, quiet, PastPlls, PastAccounts, PastCards, PllsNow, AccountsNow,
           RowsNow, ListedNow, Listed, Asked
  <1> QED BY <1>1, <1>2, <1>3, <1>4, <1>5 DEF IInv

LEMMA Invariant == Spec => []IInv
  <1>1. IInv /\ [Next]_vars => IInv'
    BY NextStep, StutterStep
  <1> QED BY InitIInv, <1>1, PTL DEF Spec

(***************************************************************************)
(* The state of the wallet, of the request and of what it got is always of *)
(* the right kind: in particular the viewer has a share only in links      *)
(* between a card and an account of the viewer's.                          *)
(***************************************************************************)
THEOREM TypeCorrect == Spec => []TypeOK
  <1>1. IInv => TypeOK
    BY DEF IInv
  <1> QED BY Invariant, <1>1, PTL

(***************************************************************************)
(* A whole wallet or its overview is answered with 404 only if the wallet  *)
(* was changed while it was read: the lookup of a target that ends such a  *)
(* request is for a card the same request has listed.                      *)
(***************************************************************************)
THEOREM RefusedOnlyAfterChange == Spec => []RefusedOnlyIfChanged
  <1>1. Init => RefusedOnlyIfChanged
    BY DEF Init, NoAnswer, RefusedOnlyIfChanged, WholeOps
  <1>2. IInv /\ RefusedOnlyIfChanged /\ [Next]_vars => RefusedOnlyIfChanged'
    <2> SUFFICES ASSUME IInv, RefusedOnlyIfChanged, [Next]_vars PROVE RefusedOnlyIfChanged'
      OBVIOUS
    <2>1. CASE UNCHANGED vars
      BY <2>1 DEF vars, RefusedOnlyIfChanged, quiet
    <2>2. CASE Silent
      BY <2>2 DEF Silent, NoAnswer, RefusedOnlyIfChanged, WholeOps
    <2>3. CASE Failed
      BY <2>3 DEF Failed, RefusedOnlyIfChanged
    <2>4. CASE AnswersForLess
      BY <2>4 DEF AnswersForLess, RefusedOnlyIfChanged, WithCards
    <2>5. CASE VouchersAnswered
      BY <2>5 DEF VouchersAnswered, RefusedOnlyIfChanged, WholeOps
    <2>6. CASE ViewAnswered
      BY <2>6 DEF ViewAnswered, RefusedOnlyIfChanged
    <2> QED BY <2>1, <2>2, <2>3, <2>4, <2>5, <2>6, NextStep
  <1> QED BY Invariant, <1>1, <1>2, PTL DEF Spec

-----------------------------------------------------------------------------
(***************************************************************************)
(* What an answer says of its cards.  While the wallet has not changed,    *)
(* the rows are of the cards listed now, with what is stored now.          *)
(***************************************************************************)
LEMMA RowsAreCurrent ==
  ASSUME IInv, req.pc = "query_all_images", req.op \in WithCards, quiet
  PROVE  /\ got.plls = PllsNow /\ got.accounts = AccountsNow /\ DOMAIN got.rows = ListedNow
         /\ \A c \in DOMAIN got.rows : got.rows[c].entry = link[c] /\ got.rows[c].held = held[c]
         /\ \A c \in DOMAIN got.rows :
               NeedsTarget(link[c]) => got.targets[c] = TargetOf(held[c].vouchers)
         /\ DOMAIN got.rows \subseteq Cards /\ DOMAIN got.rows \subseteq Asked
  <1>1. req # NoRequest
    BY DEF NoRequest
  <1>2. PastPlls /\ PastAccounts /\ PastCards
    BY DEF PastPlls, PastAccounts, PastCards, WithCards
  <1>3. got.plls = PllsNow /\ got.accounts = AccountsNow /\ got.rows = RowsNow
    BY <1>1, <1>2 DEF IInv, NothingStale
  <1>4. DOMAIN got.rows = ListedNow
    BY <1>3 DEF RowsNow
  <1>5. \A c \in DOMAIN got.rows : got.rows[c].entry = link[c] /\ got.rows[c].held = held[c]
    BY <1>3 DEF RowsNow
  <1>6. DOMAIN got.targets = {c \in DOMAIN got.rows : NeedsTarget(got.rows[c].entry)}
    BY <1>1 DEF IInv, TodoOK
  <1>7. \A c \in DOMAIN got.targets : got.targets[c] = TargetOf(held[c].vouchers)
    BY <1>1 DEF IInv, NothingStale
  <1>8. DOMAIN got.rows \subseteq Cards
    BY DEF IInv, TypeOK
  <1> QED BY <1>3, <1>4, <1>5, <1>6, <1>7, <1>8 DEF ListedNow

LEMMA ItemFields ==
  ASSUME NEW c
  PROVE  LET e == got.rows[c].entry
             h == got.rows[c].held
             shown == State(e) = "authorised"
             plls == {p \in got.plls : p.card = c}
             i == ItemNow(c)
         IN  /\ i.id = c
             /\ i.balance = IF shown THEN h.balance ELSE NoBalance
             /\ i.target = IF shown THEN got.targets[c] ELSE NoTarget
             /\ i.transactions = (FullNow /\ shown)
             /\ i.vouchers = IF FullNow /\ shown THEN Processed(h.vouchers) ELSE <<>>
             /\ i.reward = RewardAvailable(e, h.vouchers)
             /\ i.fully = FullyLinked(plls, got.accounts)
             /\ i.linked = Cardinality(Active(plls))
             /\ i.total = Cardinality(got.accounts)
             /\ i.images = ImageList(FoundNow, c, IF shown THEN Tier(h.balance) ELSE NoTier)
  BY DEF ItemNow, CardItem

LEMMA JoinFields == ASSUME NEW c, NEW found PROVE JoinItem(c, found).id = c
  BY DEF JoinItem

(***************************************************************************)
(* A status that is dependant shows as the entry's flag says, in the       *)
(* wallet and in the endpoints for a part of a card.                       *)
(***************************************************************************)
LEMMA ShowsAuthorised ==
  ASSUME NEW e \in Entries
  PROVE  Shows(e) <=> State(e) = "authorised"
  <1>1. Api2State(ACTIVE) = "authorised"
    BY DEF Api2State, PENDING, ACTIVE, WALLET_ONLY, PRE_REGISTERED_CARD, CARD_NOT_REGISTERED,
           JOIN_IN_PROGRESS, JOIN_ASYNC_IN_PROGRESS, REGISTRATION_ASYNC_IN_PROGRESS,
           ACCOUNT_ALREADY_EXISTS, UNKNOWN_ERROR, JOIN_ERROR, JOIN, ENROL_FAILED,
           REGISTRATION_FAILED, JOIN_WEAK_PASSWORD, ADD_AUTH_PENDING, AUTH_PENDING
  <1>2. Api2State(PENDING) = "pending"
    BY DEF Api2State, PENDING, ACTIVE, WALLET_ONLY, PRE_REGISTERED_CARD, CARD_NOT_REGISTERED,
           JOIN_IN_PROGRESS, JOIN_ASYNC_IN_PROGRESS, REGISTRATION_ASYNC_IN_PROGRESS,
           ACCOUNT_ALREADY_EXISTS, UNKNOWN_ERROR, JOIN_ERROR, JOIN, ENROL_FAILED,
           REGISTRATION_FAILED, JOIN_WEAK_PASSWORD, ADD_AUTH_PENDING, AUTH_PENDING
  <1>3. CASE Api2State(e.status) = "dependant"
    <2>1. CASE e.authorised
      BY <1>1, <1>3, <2>1 DEF Shows, State
    <2>2. CASE ~e.authorised
      BY <1>2, <1>3, <2>2 DEF Shows, State
    <2> QED BY <2>1, <2>2
  <1>4. CASE Api2State(e.status) # "dependant"
    BY <1>4 DEF Shows, State
  <1> QED BY <1>3, <1>4

LEMMA SameStep ==
  ASSUME IInv, ViewAnswered
  PROVE  SameInEveryView'
  <1> DEFINE joins == {i.id : i \in answer'.joins}
             cards == {i.id : i \in answer'.cards}
  <1> SUFFICES ASSUME answer'.what = "wallet", quiet'
               PROVE  /\ joins \cup cards = {c \in Cards : link'[c] # NoLink /\ Offered(c)}
                      /\ joins \cap cards = {}
                      /\ \A c \in joins \cup cards : c \in cards <=> Readable(c)'
                      /\ \A i \in answer'.cards : i.transactions = Shows(link'[i.id])
    BY DEF SameInEveryView, Answered
  <1>1. /\ req.pc = "query_all_images" /\ req.op = "wallet" /\ req.op \in WithCards
        /\ link' = link /\ quiet
    BY DEF ViewAnswered, wallet, quiet
  <1>2. joins = JoinsNow /\ cards = DOMAIN got.rows \ JoinsNow
    <2>1. \A c : JoinItem(c, FoundNow).id = c /\ ItemNow(c).id = c
      BY JoinFields, ItemFields
    <2> QED BY <2>1 DEF ViewAnswered
  <1>3. /\ DOMAIN got.rows = ListedNow /\ DOMAIN got.rows \subseteq Cards
        /\ \A c \in DOMAIN got.rows : got.rows[c].entry = link[c]
    BY <1>1, RowsAreCurrent
  <1>4. ListedNow = {c \in Cards : link[c] # NoLink /\ Offered(c)}
    BY <1>1 DEF ListedNow, Listed, Asked
  <1>5. \A c \in DOMAIN got.rows : c \notin JoinsNow <=> Readable(c)
    BY <1>3, <1>4 DEF JoinsNow, Readable
  <1>6. \A c \in DOMAIN got.rows : Readable(c)' = Readable(c)
    BY <1>1 DEF Readable
  <1>7. JoinsNow \subseteq DOMAIN got.rows
    BY DEF JoinsNow
  <1>8. ASSUME NEW i \in answer'.cards
        PROVE  i.transactions = Shows(link'[i.id])
    <2>1. PICK c \in DOMAIN got.rows \ JoinsNow : i = ItemNow(c)
      BY DEF ViewAnswered
    <2>2. i.id = c /\ i.transactions = (FullNow /\ State(link[c]) = "authorised")
      <3>1. i.id = c /\ i.transactions = (FullNow /\ State(got.rows[c].entry) = "authorised")
        BY <2>1, ItemFields
      <3> QED BY <1>3, <3>1
    <2>3. link[c] \in Entries
      BY <1>3, <1>4, <2>1 DEF IInv, TypeOK
    <2>4. FullNow
      BY <1>1 DEF FullNow
    <2>5. Shows(link[c]) <=> State(link[c]) = "authorised"
      BY <2>3, ShowsAuthorised
    <2>6. i.transactions = (State(link[c]) = "authorised")
      BY <2>2, <2>4
    <2> QED BY <1>1, <2>2, <2>5, <2>6 DEF Shows
  <1>9. joins \cup cards = {c \in Cards : link'[c] # NoLink /\ Offered(c)}
    BY <1>1, <1>2, <1>3, <1>4, <1>7
  <1>10. joins \cap cards = {}
    BY <1>2
  <1>11. \A c \in joins \cup cards : c \in cards <=> Readable(c)'
    BY <1>2, <1>5, <1>6, <1>7
  <1> QED BY <1>8, <1>9, <1>10, <1>11

(***************************************************************************)
(* A card is linked to every account exactly when the two counts agree:    *)
(* its active links are as many as the accounts that have one, which are   *)
(* among the viewer's.                                                     *)
(***************************************************************************)
LEMMA CountedLinks ==
  ASSUME IInv, NEW c \in Cards, c \in Asked, AccountsNow \subseteq Accounts
  PROVE  LET plls == {p \in PllsNow : p.card = c}
         IN  /\ Cardinality(Active(plls)) \in Nat /\ Cardinality(AccountsNow) \in Nat
             /\ Cardinality(Active(plls)) <= Cardinality(AccountsNow)
             /\ FullyLinked(plls, AccountsNow) <=>
                   AccountsNow # {} /\ \A a \in AccountsNow : pll[c, a] = "active"
  <1> DEFINE plls == {p \in PllsNow : p.card = c}
             A == {a \in Accounts : pll[c, a] = "active"}
             Link(a) == [card |-> c, account |-> a, state |-> "active"]
             f == [a \in A |-> Link(a)]
  <1>1. IsFiniteSet(AccountsNow) /\ A \in SUBSET AccountsNow
    <2>1. IsFiniteSet(AccountsNow)
      BY AccountsAssumption, FS_Subset
    <2>2. A \in SUBSET AccountsNow
      BY DEF IInv, TypeOK, Consistent, PllStates, AccountsNow
    <2> QED BY <2>1, <2>2
  <1>2. IsFiniteSet(A) /\ Cardinality(A) <= Cardinality(AccountsNow)
        /\ (Cardinality(AccountsNow) = Cardinality(A) => AccountsNow = A)
    <2> HIDE DEF A
    <2> QED BY <1>1, FS_Subset
  <1>3. Active(plls) = {Link(a) : a \in A}
    <2>1. ASSUME NEW p \in Active(plls) PROVE \E a \in A : p = Link(a)
      <3>1. PICK x \in Asked \X Accounts : p = [card |-> x[1], account |-> x[2], state |-> pll[x]]
        BY DEF Active, PllsNow
      <3>2. p.card = x[1] /\ p.state = pll[x] /\ x = <<x[1], x[2]>> /\ x[2] \in Accounts
        BY <3>1
      <3>3. p.card = c /\ p.state = "active"
        BY DEF Active
      <3>4. x[2] \in A /\ p = Link(x[2])
        BY <3>1, <3>2, <3>3
      <3> QED BY <3>4
    <2>2. ASSUME NEW a \in A PROVE Link(a) \in Active(plls)
      <3>1. <<c, a>> \in {y \in Asked \X Accounts : pll[y] \in PllStates}
        BY DEF PllStates
      <3> DEFINE x == <<c, a>>
      <3>2. [card |-> x[1], account |-> x[2], state |-> pll[x]] \in PllsNow
        <4> HIDE DEF x
        <4> QED BY <3>1 DEF PllsNow, x
      <3>3. Link(a) \in PllsNow
        BY <3>2
      <3> QED BY <3>3 DEF Active
    <2> QED BY <2>1, <2>2
  <1>4. f \in Bijection(A, Active(plls))
    <2>1. f \in [A -> Active(plls)]
      BY <1>3
    <2>2. \A a, b \in A : f[a] = f[b] => a = b
      OBVIOUS
    <2>3. \A l \in Active(plls) : \E a \in A : f[a] = l
      BY <1>3
    <2> HIDE DEF f, A, plls
    <2> QED BY <2>1, <2>2, <2>3, Fun_IsBij
  <1>5. Cardinality(Active(plls)) = Cardinality(A)
    <2> HIDE DEF A, plls, f
    <2>1. ExistsBijection(A, Active(plls))
      BY <1>4 DEF ExistsBijection
    <2> QED BY <1>2, <2>1, FS_Bijection
  <1>6. Cardinality(A) \in Nat /\ Cardinality(AccountsNow) \in Nat
    <2> HIDE DEF A
    <2> QED BY <1>1, <1>2, FS_CardinalityType
  <1>7. A = AccountsNow <=> \A a \in AccountsNow : pll[c, a] = "active"
    BY <1>1 DEF AccountsNow
  <1> HIDE DEF A, plls
  <1>8. FullyLinked(plls, AccountsNow) <=>
            AccountsNow # {} /\ \A a \in AccountsNow : pll[c, a] = "active"
    BY <1>2, <1>5, <1>7 DEF FullyLinked
  <1> QED BY <1>2, <1>5, <1>6, <1>8 DEF plls

LEMMA FullyLinkedStep ==
  ASSUME IInv, ViewAnswered
  PROVE  FullyLinkedIfQuiet'
  <1> DEFINE mine == {a \in Accounts : Viewer \in owners'[a]}
  <1> SUFFICES ASSUME answer'.what \in WithCards, quiet', NEW i \in answer'.cards
               PROVE  /\ i.fully <=> mine # {} /\ \A a \in mine : pll'[i.id, a] = "active"
                      /\ i.linked <= i.total /\ i.total = Cardinality(mine)
    BY DEF FullyLinkedIfQuiet, Answered
  <1>1. /\ req.pc = "query_all_images" /\ req.op \in WithCards
        /\ pll' = pll /\ owners' = owners /\ quiet
    BY DEF ViewAnswered, wallet, quiet
  <1>2. PICK c \in DOMAIN got.rows : i = ItemNow(c)
    BY DEF ViewAnswered
  <1>3. /\ got.plls = PllsNow /\ got.accounts = AccountsNow /\ c \in Cards /\ c \in Asked
    BY <1>1, <1>2, RowsAreCurrent
  <1> DEFINE plls == {p \in PllsNow : p.card = c}
  <1>4. /\ i.id = c /\ i.fully = FullyLinked(plls, AccountsNow)
        /\ i.linked = Cardinality(Active(plls)) /\ i.total = Cardinality(AccountsNow)
    BY <1>2, <1>3, ItemFields
  <1>5. mine = AccountsNow
    BY <1>1 DEF AccountsNow
  <1>6. AccountsNow \subseteq Accounts
    BY DEF AccountsNow
  <1>7. /\ Cardinality(Active(plls)) <= Cardinality(AccountsNow)
        /\ FullyLinked(plls, AccountsNow) <=>
               AccountsNow # {} /\ \A a \in AccountsNow : pll[c, a] = "active"
    BY <1>3, <1>6, CountedLinks
  <1> HIDE DEF plls, mine
  <1> QED BY <1>1, <1>4, <1>5, <1>7 DEF FullyLinked

-----------------------------------------------------------------------------
(***************************************************************************)
(* Images.  Those of a listed card and its plan are among the images found *)
(* for the answer, as far as they are hero or tier images.                 *)
(***************************************************************************)
LEMMA FoundImages ==
  ASSUME NEW c \in DOMAIN got.rows, link[c] # NoLink,
         NEW m \in Images, m.of \in {c, PlanOf[c]}, m.type \in {"hero", "tier"}
  PROVE  m \in FoundNow
  BY DEF FoundNow, Found

LEMMA TierImagesFound ==
  ASSUME NEW c \in DOMAIN got.rows, link[c] # NoLink
  PROVE  OwnOrPlan(FoundNow, c, "tier") = OwnOrPlan(Images, c, "tier")
  <1> DEFINE of(S, x) == {i \in S : i.of = x /\ i.type = "tier"}
  <1>1. FoundNow \subseteq Images
    BY DEF FoundNow, Found
  <1>2. of(FoundNow, c) = of(Images, c)
    BY <1>1, FoundImages
  <1>3. of(FoundNow, PlanOf[c]) = of(Images, PlanOf[c])
    BY <1>1, FoundImages
  <1> QED BY <1>2, <1>3 DEF OwnOrPlan

(***************************************************************************)
(* With a hero image about, a card without one of its own and with images  *)
(* of its tier has one of these as its hero image.                         *)
(***************************************************************************)
LEMMA TierHero ==
  ASSUME NEW found, NEW c, NEW tier,
         NEW T, T = {m \in OwnOrPlan(found, c, "tier") : m.tier = tier}, T # {},
         {m \in found : m.of = c /\ m.type = "hero"} = {},
         \E m \in found : m.type = "hero"
  PROVE  \E m \in T : AsHero(m) \in ImageList(found, c, tier)
  <1> DEFINE own == {i \in found : i.of = c /\ i.type = "hero"}
             tiers == {i \in OwnOrPlan(found, c, "tier") : i.tier = tier /\ own = {}}
             m == CHOOSE i \in T : TRUE
             types == {i.type : i \in found}
  <1>1. tiers = T /\ m \in T
    OBVIOUS
  <1>2. HeroImage(found, c, tier) = {AsHero(m)}
    BY <1>1 DEF HeroImage
  <1>3. m \in found /\ m.type = "tier"
    BY <1>1 DEF OwnOrPlan
  <1>4. "tier" \in types /\ "hero" \in types
    BY <1>3
  <1>5. HeroImage(found, c, tier) \subseteq ImageList(found, c, tier)
    BY <1>4 DEF ImageList
  <1> QED BY <1>1, <1>2, <1>5

LEMMA TierImageStep ==
  ASSUME IInv, ViewAnswered
  PROVE  TierImageShownWithHero'
  <1> SUFFICES ASSUME answer'.what \in WithCards, quiet', SomeHero', NEW i \in answer'.cards,
                      OwnHero(i.id) = {}, TierImages(i) # {}
               PROVE  \E m \in TierImages(i) : AsHero(m) \in i.images
    BY DEF TierImageShownWithHero, Answered
  <1>1. req.pc = "query_all_images" /\ req.op \in WithCards /\ quiet
    BY DEF ViewAnswered, quiet
  <1>2. PICK c \in DOMAIN got.rows : i = ItemNow(c)
    BY DEF ViewAnswered
  <1>3. \A d \in DOMAIN got.rows : link[d] # NoLink
    BY <1>1, RowsAreCurrent DEF ListedNow, Listed
  <1>4. \E m \in FoundNow : m.type = "hero"
    <2>1. PICK j \in answer'.cards \cup answer'.joins, m \in Images :
            m.type = "hero" /\ m.of \in {j.id, PlanOf[j.id]}
      BY DEF SomeHero
    <2>2. j.id \in DOMAIN got.rows
      <3>1. CASE j \in answer'.cards
        <4>1. PICK d \in DOMAIN got.rows : j = ItemNow(d)
          BY <3>1 DEF ViewAnswered
        <4>2. j.id = d
          BY <4>1, ItemFields
        <4> QED BY <4>2
      <3>2. CASE j \in answer'.joins
        BY <3>2, JoinFields DEF ViewAnswered, JoinsNow
      <3> QED BY <3>1, <3>2
    <2> QED BY <1>3, <2>1, <2>2, FoundImages
  <1> DEFINE b == got.rows[c].held.balance
             shown == State(got.rows[c].entry) = "authorised"
             T == {m \in OwnOrPlan(FoundNow, c, "tier") : m.tier = Tier(b)}
  <1>5. /\ i.id = c /\ i.balance = (IF shown THEN b ELSE NoBalance)
        /\ i.images = ImageList(FoundNow, c, IF shown THEN Tier(b) ELSE NoTier)
    BY <1>2, ItemFields
  <1>6. i.balance.stored
    BY DEF TierImages
  <1>7. shown /\ i.balance = b /\ i.images = ImageList(FoundNow, c, Tier(b))
    BY <1>5, <1>6 DEF NoBalance
  <1>8. TierImages(i) = T
    BY <1>3, <1>5, <1>6, <1>7, TierImagesFound DEF TierImages
  <1>9. {m \in FoundNow : m.of = c /\ m.type = "hero"} = {}
    BY <1>5 DEF OwnHero, FoundNow, Found
  <1>10. \E m \in T : AsHero(m) \in ImageList(FoundNow, c, Tier(b))
    <2> HIDE DEF b
    <2> QED BY <1>4, <1>8, <1>9, TierHero
  <1> QED BY <1>7, <1>8, <1>10

-----------------------------------------------------------------------------
(***************************************************************************)
(* Sorting.  The rank of an element, one more than the number of those     *)
(* before it, is a bijection onto an initial segment of the numbers.       *)
(***************************************************************************)
LEMMA BijectionFacts ==
  ASSUME NEW S, NEW T, NEW f \in Bijection(S, T)
  PROVE  /\ f \in [S -> T]
         /\ \A x, y \in S : f[x] = f[y] => x = y
         /\ \A z \in T : \E x \in S : f[x] = z
  BY DEF Bijection, Injection, Surjection, IsInjective

LEMMA SmallerPart ==
  ASSUME NEW S, IsFiniteSet(S), NEW T, T \subseteq S, NEW x \in S, x \notin T
  PROVE  /\ Cardinality(T) \in Nat /\ Cardinality(S) \in Nat
         /\ Cardinality(T) + 1 <= Cardinality(S)
  <1>1. IsFiniteSet(T) /\ T \cup {x} \in SUBSET S
    BY FS_Subset
  <1>2. IsFiniteSet(T \cup {x}) /\ Cardinality(T \cup {x}) = Cardinality(T) + 1
    BY <1>1, FS_AddElement
  <1>3. Cardinality(T \cup {x}) <= Cardinality(S)
    BY <1>1, FS_Subset
  <1> QED BY <1>1, <1>2, <1>3, FS_CardinalityType

LEMMA RankBijection ==
  ASSUME NEW S, IsFiniteSet(S), NEW R,
         \A x \in S : <<x, x>> \notin R,
         \A x, y, z \in S : <<x, y>> \in R /\ <<y, z>> \in R => <<x, z>> \in R,
         \A x, y \in S : x # y => <<x, y>> \in R \/ <<y, x>> \in R,
         NEW r, r = [x \in S |-> Cardinality({y \in S : <<y, x>> \in R}) + 1]
  PROVE  /\ r \in Bijection(S, 1 .. Cardinality(S))
         /\ \A x, y \in S : <<x, y>> \in R => r[x] < r[y]
  <1> DEFINE B(x) == {y \in S : <<y, x>> \in R}
             n == Cardinality(S)
  <1>1. \A x \in S : r[x] = Cardinality(B(x)) + 1
    OBVIOUS
  <1>2. \A x \in S : Cardinality(B(x)) \in Nat /\ n \in Nat /\ Cardinality(B(x)) + 1 <= n
    <2> TAKE x \in S
    <2>1. B(x) \subseteq S /\ x \notin B(x)
      OBVIOUS
    <2> HIDE DEF B
    <2> QED BY <2>1, SmallerPart
  <1>3. \A x, y \in S : <<x, y>> \in R => Cardinality(B(x)) + 1 <= Cardinality(B(y))
    <2> TAKE x, y \in S
    <2> HAVE <<x, y>> \in R
    <2>1. B(x) \subseteq B(y) /\ x \in B(y) /\ x \notin B(x)
      OBVIOUS
    <2>2. IsFiniteSet(B(y))
      <3>1. B(y) \in SUBSET S
        OBVIOUS
      <3> HIDE DEF B
      <3> QED BY <3>1, FS_Subset
    <2> HIDE DEF B
    <2> QED BY <2>1, <2>2, SmallerPart
  <1> HIDE DEF B
  <1>4. n \in Nat
    BY FS_CardinalityType
  <1>5. r \in [S -> 1 .. n]
    <2>1. \A x \in S : r[x] \in 1 .. n
      BY <1>1, <1>2
    <2>2. DOMAIN r = S /\ r = [x \in S |-> r[x]]
      OBVIOUS
    <2> HIDE DEF n
    <2> QED BY <2>1, <2>2
  <1>6. \A x, y \in S : <<x, y>> \in R => r[x] < r[y]
    BY <1>1, <1>2, <1>3
  <1>7. \A x, y \in S : r[x] = r[y] => x = y
    <2> TAKE x, y \in S
    <2>1. r[x] \in Int /\ r[y] \in Int
      BY <1>1, <1>2
    <2>2. CASE x # y
      <3>1. <<x, y>> \in R \/ <<y, x>> \in R
        BY <2>2
      <3>2. r[x] < r[y] \/ r[y] < r[x]
        BY <1>6, <3>1
      <3> QED BY <2>1, <3>2
    <2> QED BY <2>2
  <1>8. r \in Injection(S, 1 .. n)
    BY <1>5, <1>7, Fun_IsInj
  <1>9. IsFiniteSet(1 .. n) /\ Cardinality(1 .. n) = n
    BY <1>4, FS_Interval
  <1>10. r \in Surjection(S, 1 .. n)
    BY <1>8, <1>9, FS_Injection
  <1> QED BY <1>6, <1>8, <1>10, Fun_IsBij

LEMMA SortExists ==
  ASSUME NEW S, IsFiniteSet(S), NEW R,
         \A x \in S : <<x, x>> \notin R,
         \A x, y, z \in S : <<x, y>> \in R /\ <<y, z>> \in R => <<x, z>> \in R,
         \A x, y \in S : x # y => <<x, y>> \in R \/ <<y, x>> \in R
  PROVE  \E s \in [1 .. Cardinality(S) -> S] :
            \A i, j \in 1 .. Cardinality(S) : i < j => <<s[i], s[j]>> \in R
  <1> DEFINE r == [x \in S |-> Cardinality({y \in S : <<y, x>> \in R}) + 1]
             N == 1 .. Cardinality(S)
             s == Inverse(r, S, N)
  <1>1. r \in Bijection(S, N) /\ \A x, y \in S : <<x, y>> \in R => r[x] < r[y]
    BY RankBijection
  <1> HIDE DEF r, N
  <1>2. s \in Bijection(N, S) /\ \A x \in S : s[r[x]] = x
    BY <1>1, Fun_BijInverse
  <1>3. s \in [N -> S] /\ \A i, j \in N : s[i] = s[j] => i = j
    BY <1>2, BijectionFacts
  <1>4. \A i \in N : \E x \in S : r[x] = i
    BY <1>1, BijectionFacts
  <1> HIDE DEF s
  <1>5. \A i \in N : r[s[i]] = i
    BY <1>2, <1>4
  <1>6. \A i, j \in N : i < j => <<s[i], s[j]>> \in R
    <2> TAKE i, j \in N
    <2> HAVE i < j
    <2>1. i \in Int /\ j \in Int
      BY FS_CardinalityType DEF N
    <2>2. s[i] \in S /\ s[j] \in S /\ s[i] # s[j]
      BY <1>3, <2>1
    <2>3. <<s[j], s[i]>> \notin R
      BY <1>1, <1>5, <2>1, <2>2
    <2> QED BY <2>2, <2>3
  <1> QED BY <1>3, <1>6 DEF N

LEMMA SortedIsOnto ==
  ASSUME NEW S, IsFiniteSet(S), NEW s \in [1 .. Cardinality(S) -> S],
         \A i, j \in 1 .. Cardinality(S) : i < j => s[i] # s[j]
  PROVE  s \in Bijection(1 .. Cardinality(S), S)
  <1> DEFINE n == Cardinality(S)
  <1>1. n \in Nat
    BY FS_CardinalityType
  <1>2. IsFiniteSet(1 .. n) /\ Cardinality(1 .. n) = n
    BY <1>1, FS_Interval
  <1>3. \A i, j \in 1 .. n : s[i] = s[j] => i = j
    <2> TAKE i, j \in 1 .. n
    <2>1. i \in Int /\ j \in Int
      BY <1>1
    <2> QED BY <2>1
  <1> HIDE DEF n
  <1>4. s \in [1 .. n -> S]
    BY DEF n
  <1>5. s \in Injection(1 .. n, S)
    BY <1>3, <1>4, Fun_IsInj
  <1>6. s \in Surjection(1 .. n, S)
    BY <1>2, <1>5, FS_Injection DEF n
  <1> QED BY <1>5, <1>6, Fun_IsBij DEF n

(***************************************************************************)
(* The two orders the vouchers are put in.                                 *)
(***************************************************************************)
LEMMA InOrderOfNumbers ==
  ASSUME NEW S, S \subseteq Nat, IsFiniteSet(S)
  PROVE  /\ InOrder(S, <) \in Bijection(1 .. Cardinality(S), S)
         /\ \A i, j \in 1 .. Cardinality(S) : i < j => InOrder(S, <)[i] < InOrder(S, <)[j]
  <1> DEFINE n == Cardinality(S)
             R == {p \in S \X S : p[1] < p[2]}
             s == InOrder(S, <)
  <1>1. \E t \in [1 .. n -> S] : \A i, j \in 1 .. n : i < j => <<t[i], t[j]>> \in R
    <2>1. \A x, y \in S : <<x, y>> \in R <=> x < y
      OBVIOUS
    <2> HIDE DEF R
    <2>2. \A x \in S : <<x, x>> \notin R
      BY <2>1
    <2>3. \A x, y, z \in S : <<x, y>> \in R /\ <<y, z>> \in R => <<x, z>> \in R
      BY <2>1
    <2>4. \A x, y \in S : x # y => <<x, y>> \in R \/ <<y, x>> \in R
      BY <2>1
    <2> QED BY <2>2, <2>3, <2>4, SortExists
  <1>2. \E t \in [1 .. n -> S] : \A i, j \in DOMAIN t : i < j => t[i] < t[j]
    BY <1>1
  <1>3. s \in [1 .. n -> S] /\ \A i, j \in DOMAIN s : i < j => s[i] < s[j]
    BY <1>2 DEF InOrder
  <1> HIDE DEF s
  <1>4. \A i, j \in 1 .. n : i < j => s[i] < s[j]
    BY <1>3
  <1>5. \A i, j \in 1 .. n : i < j => s[i] # s[j]
    <2>1. \A i \in 1 .. n : s[i] \in Nat
      BY <1>3
    <2> QED BY <1>4, <2>1
  <1>6. s \in Bijection(1 .. n, S)
    BY <1>3, <1>5, SortedIsOnto
  <1> QED BY <1>4, <1>6 DEF s

IssueTime(v) == IF v.issued = 0 THEN Now ELSE v.issued

LEMMA InOrderOfIssue ==
  ASSUME NEW vs \in Seq(Voucher)
  PROVE  LET Newer(i, j) == \/ IssueTime(vs[i]) > IssueTime(vs[j])
                            \/ IssueTime(vs[i]) = IssueTime(vs[j]) /\ i < j
             s == InOrder(DOMAIN vs, Newer)
             n == Len(vs)
         IN  /\ s \in Bijection(1 .. n, 1 .. n)
             /\ \A i, j \in 1 .. n : i < j => IssueTime(vs[s[i]]) >= IssueTime(vs[s[j]])
  <1> DEFINE T(i) == IssueTime(vs[i])
             Newer(i, j) == T(i) > T(j) \/ (T(i) = T(j) /\ i < j)
             n == Len(vs)
             D == 1 .. n
             R == {p \in D \X D : Newer(p[1], p[2])}
             s == InOrder(DOMAIN vs, Newer)
  <1>1. DOMAIN vs = D /\ n \in Nat
    OBVIOUS
  <1>2. \A i \in D : T(i) \in Nat
    <2>1. \A i \in D : vs[i] \in Voucher
      OBVIOUS
    <2> QED BY <2>1, VoucherAssumption DEF Voucher, IssueTime
  <1>3. IsFiniteSet(D) /\ Cardinality(D) = n
    BY <1>1, FS_Interval
  <1>4. \A i, j \in D : <<i, j>> \in R <=> Newer(i, j)
    OBVIOUS
  <1> HIDE DEF T, R
  <1>5. \A i \in D : <<i, i>> \notin R
    BY <1>1, <1>2, <1>4
  <1>6. \A i, j, k \in D : <<i, j>> \in R /\ <<j, k>> \in R => <<i, k>> \in R
    BY <1>1, <1>2, <1>4
  <1>7. \A i, j \in D : i # j => <<i, j>> \in R \/ <<j, i>> \in R
    BY <1>1, <1>2, <1>4
  <1>8. \E t \in [1 .. n -> D] : \A i, j \in 1 .. n : i < j => <<t[i], t[j]>> \in R
    <2> HIDE DEF D, n
    <2> QED BY <1>3, <1>5, <1>6, <1>7, SortExists
  <1>9. PICK t \in [1 .. n -> D] : \A i, j \in DOMAIN t : i < j => Newer(t[i], t[j])
    <2>1. PICK t \in [1 .. n -> D] : \A i, j \in 1 .. n : i < j => <<t[i], t[j]>> \in R
      BY <1>8
    <2>2. \A i, j \in DOMAIN t : i < j => Newer(t[i], t[j])
      BY <1>4, <2>1
    <2> QED BY <2>2
  <1>10. s \in [1 .. n -> D] /\ \A i, j \in DOMAIN s : i < j => Newer(s[i], s[j])
    <2> HIDE DEF D, n
    <2> DEFINE V == DOMAIN vs
    <2>1. t \in [1 .. Cardinality(V) -> V]
      BY <1>1, <1>3
    <2>2. /\ s \in [1 .. Cardinality(V) -> V]
          /\ \A i, j \in DOMAIN s : i < j => Newer(s[i], s[j])
      <3> HIDE DEF V
      <3> DEFINE u == InOrder(V, Newer)
      <3> HIDE DEF Newer
      <3>1. \E f \in [1 .. Cardinality(V) -> V] : \A i, j \in DOMAIN f : i < j => Newer(f[i], f[j])
        BY <1>9, <2>1
      <3>2. u \in [1 .. Cardinality(V) -> V] /\ \A i, j \in DOMAIN u : i < j => Newer(u[i], u[j])
        BY <3>1, Zenon DEF InOrder
      <3> QED BY <3>2 DEF V
    <2> QED BY <1>1, <1>3, <2>2
  <1>11. \A i, j \in 1 .. n : i < j => s[i] # s[j] /\ T(s[i]) >= T(s[j])
    <2> HIDE DEF s
    <2>1. \A i \in 1 .. n : s[i] \in D
      BY <1>10
    <2> TAKE i, j \in 1 .. n
    <2> HAVE i < j
    <2>2. Newer(s[i], s[j])
      BY <1>10
    <2>3. T(s[i]) \in Nat /\ T(s[j]) \in Nat /\ s[i] \in Int
      BY <1>2, <2>1
    <2> QED BY <2>2, <2>3
  <1>12. s \in Bijection(1 .. n, D)
    <2> HIDE DEF s, D, n
    <2> QED BY <1>3, <1>10, <1>11, SortedIsOnto
  <1> QED BY <1>11, <1>12 DEF T

IsNewestFirst(vs) == \A i, j \in DOMAIN vs : i < j => IssueTime(vs[i]) >= IssueTime(vs[j])

LEMMA NewestFirstSorts ==
  ASSUME NEW vs \in Seq(Voucher)
  PROVE  /\ NewestFirst(vs) \in Seq(Voucher) /\ ToSet(NewestFirst(vs)) = ToSet(vs)
         /\ IsNewestFirst(NewestFirst(vs)) /\ Len(NewestFirst(vs)) = Len(vs)
  <1> DEFINE Newer(i, j) == \/ IssueTime(vs[i]) > IssueTime(vs[j])
                            \/ IssueTime(vs[i]) = IssueTime(vs[j]) /\ i < j
             s == InOrder(DOMAIN vs, Newer)
             n == Len(vs)
             w == [i \in DOMAIN vs |-> vs[s[i]]]
  <1>1. NewestFirst(vs) = w
    BY Zenon DEF NewestFirst, IssueTime
  <1>2. /\ s \in Bijection(1 .. n, 1 .. n)
        /\ \A i, j \in 1 .. n : i < j => IssueTime(vs[s[i]]) >= IssueTime(vs[s[j]])
    BY InOrderOfIssue
  <1> HIDE DEF s
  <1>3. /\ s \in [1 .. n -> 1 .. n] /\ \A j \in 1 .. n : \E i \in 1 .. n : s[i] = j
    <2> HIDE DEF n, w, Newer
    <2> QED BY <1>2, BijectionFacts
  <1>4. DOMAIN vs = 1 .. n /\ n \in Nat /\ vs \in [1 .. n -> Voucher]
    OBVIOUS
  <1>5. w \in [1 .. n -> Voucher]
    BY <1>3, <1>4
  <1>6. w \in Seq(Voucher) /\ Len(w) = n /\ DOMAIN w = 1 .. n
    BY <1>4, <1>5
  <1>7. \A i \in 1 .. n : w[i] = vs[s[i]]
    BY <1>4
  <1> HIDE DEF w
  <1>8. ToSet(w) = ToSet(vs)
    BY <1>3, <1>4, <1>6, <1>7 DEF ToSet
  <1>9. IsNewestFirst(w)
    BY <1>2, <1>6, <1>7 DEF IsNewestFirst
  <1> QED BY <1>1, <1>6, <1>8, <1>9

(***************************************************************************)
(* Of the vouchers that are over the filter keeps the first MAX_INACTIVE.  *)
(***************************************************************************)
OverIn(w) == {i \in DOMAIN w : w[i].state \notin Lasting}
KeptIn(w) ==
    {i \in DOMAIN w :
        w[i].state \notin Lasting => Cardinality({j \in 1 .. i : w[j].state \notin Lasting}) <= MAX_INACTIVE}

LEMMA KeptOfOver ==
  ASSUME NEW w \in Seq(Voucher), NEW i \in DOMAIN w, i \notin KeptIn(w)
  PROVE  /\ i \in OverIn(w) /\ Cardinality(KeptIn(w) \cap OverIn(w)) = MAX_INACTIVE
         /\ IsFiniteSet(KeptIn(w) \cap OverIn(w))
         /\ \A j \in KeptIn(w) \cap OverIn(w) : j < i
  <1> DEFINE O == OverIn(w)
             K == KeptIn(w) \cap OverIn(w)
             R == {p \in O \X O : p[1] < p[2]}
             r == [x \in O |-> Cardinality({y \in O : <<y, x>> \in R}) + 1]
             N == 1 .. Cardinality(O)
  <1>1. DOMAIN w = 1 .. Len(w) /\ Len(w) \in Nat
    OBVIOUS
  <1>2. IsFiniteSet(O) /\ O \subseteq Nat /\ i \in O
    <2>1. O \in SUBSET (1 .. Len(w)) /\ i \in O
      BY <1>1 DEF OverIn, KeptIn
    <2> HIDE DEF O
    <2>2. IsFiniteSet(1 .. Len(w))
      BY <1>1, FS_Interval
    <2>3. IsFiniteSet(O)
      BY <2>1, <2>2, FS_Subset
    <2> QED BY <1>1, <2>1, <2>3
  <1>3. r \in Bijection(O, N) /\ \A x, y \in O : x < y => r[x] < r[y]
    <2> HIDE DEF O
    <2>1. \A x, y \in O : <<x, y>> \in R <=> x < y
      OBVIOUS
    <2> HIDE DEF R
    <2>2. \A x \in O : <<x, x>> \notin R
      BY <1>2, <2>1
    <2>3. \A x, y, z \in O : <<x, y>> \in R /\ <<y, z>> \in R => <<x, z>> \in R
      BY <1>2, <2>1
    <2>4. \A x, y \in O : x # y => <<x, y>> \in R \/ <<y, x>> \in R
      BY <1>2, <2>1
    <2>5. r \in Bijection(O, N) /\ \A x, y \in O : <<x, y>> \in R => r[x] < r[y]
      BY <1>2, <2>2, <2>3, <2>4, RankBijection
    <2> HIDE DEF r, N
    <2> QED BY <2>1, <2>5
  <1>4. r \in [O -> N] /\ \A n \in N : \E x \in O : r[x] = n
    <2> HIDE DEF r, O, N
    <2> QED BY <1>3, BijectionFacts
  <1>5. \A x \in O : r[x] = Cardinality({j \in 1 .. x : w[j].state \notin Lasting})
    <2> TAKE x \in O
    <2> DEFINE B == {y \in O : <<y, x>> \in R}
    <2>1. x \notin B /\ {j \in 1 .. x : w[j].state \notin Lasting} = B \cup {x}
      BY <1>1 DEF OverIn
    <2>2. B \in SUBSET O /\ r[x] = Cardinality(B) + 1
      OBVIOUS
    <2> HIDE DEF B, O, r
    <2>3. IsFiniteSet(B)
      BY <1>2, <2>2, FS_Subset
    <2>4. Cardinality(B \cup {x}) = Cardinality(B) + 1
      BY <2>1, <2>3, FS_AddElement
    <2> QED BY <2>1, <2>2, <2>4
  <1>6. K = {x \in O : r[x] <= MAX_INACTIVE} /\ r[i] > MAX_INACTIVE
    <2> HIDE DEF r
    <2>1. \A x \in O : x \in KeptIn(w) <=> r[x] <= MAX_INACTIVE
      BY <1>5 DEF OverIn, KeptIn
    <2>2. r[i] \in Nat
      BY <1>2, <1>4
    <2> QED BY <1>2, <2>1, <2>2, BoundsAssumption
  <1>7. MAX_INACTIVE < Cardinality(O) /\ Cardinality(O) \in Nat
    <2> HIDE DEF r, O
    <2>1. r[i] \in N /\ Cardinality(O) \in Nat
      BY <1>2, <1>4, FS_CardinalityType
    <2> QED BY <1>6, <2>1, BoundsAssumption
  <1>8. \A j \in K : j < i
    <2> TAKE j \in K
    <2> HIDE DEF r
    <2>1. j \in O /\ r[j] \in Nat /\ r[i] \in Nat /\ r[j] < r[i]
      BY <1>2, <1>4, <1>6, BoundsAssumption
    <2>2. ~(i < j) /\ i # j
      BY <1>2, <1>3, <2>1
    <2> QED BY <1>2, <2>1, <2>2
  <1>9. IsFiniteSet(K) /\ Cardinality(K) = MAX_INACTIVE
    <2> DEFINE M == 1 .. MAX_INACTIVE
               t == [n \in M |-> Inverse(r, O, N)[n]]
    <2> HIDE DEF r, O
    <2>1. /\ Inverse(r, O, N) \in Bijection(N, O)
          /\ \A x \in O : Inverse(r, O, N)[r[x]] = x
      BY <1>3, Fun_BijInverse
    <2>2. r \in [O -> N] /\ \A n \in N : \E x \in O : r[x] = n
      BY <1>4
    <2>3. M \subseteq N
      BY <1>7, BoundsAssumption
    <2>4. \A n \in M : t[n] \in K /\ r[t[n]] = n
      <3> TAKE n \in M
      <3>1. PICK x \in O : r[x] = n
        BY <2>2, <2>3
      <3>2. t[n] = x
        BY <2>1, <3>1
      <3> QED BY <1>6, <3>1, <3>2, BoundsAssumption
    <2>5. \A x \in K : \E n \in M : t[n] = x
      <3> TAKE x \in K
      <3>1. x \in O /\ r[x] \in M
        BY <1>6, <1>7, <2>2, BoundsAssumption
      <3>2. t[r[x]] = x
        BY <2>1, <3>1
      <3> QED BY <3>1, <3>2
    <2> HIDE DEF t, K
    <2>6. t \in [M -> K] /\ \A m, n \in M : t[m] = t[n] => m = n
      BY <2>4 DEF t
    <2>7. ExistsBijection(M, K)
      BY <2>5, <2>6, Fun_IsBij DEF ExistsBijection
    <2>8. IsFiniteSet(M) /\ Cardinality(M) = MAX_INACTIVE
      BY BoundsAssumption, FS_Interval
    <2> QED BY <2>7, <2>8, FS_Bijection
  <1> QED BY <1>2, <1>8, <1>9

LEMMA FilteredKeeps ==
  ASSUME NEW w \in Seq(Voucher), IsNewestFirst(w), NEW f, f = Filtered(w)
  PROVE  /\ ToSet(f) \subseteq ToSet(w) /\ IsNewestFirst(f)
         /\ f \in Seq(Voucher)
         /\ \A v \in ToSet(w) \ ToSet(f) :
               /\ v.state \notin Lasting /\ Cardinality(OverIn(f)) = MAX_INACTIVE
               /\ \A n \in OverIn(f) : IssueTime(f[n]) >= IssueTime(v)
  <1> DEFINE K == KeptIn(w)
             m == Cardinality(K)
             M == 1 .. m
             k == InOrder(K, <)
  <1>1. f = [n \in M |-> w[k[n]]]
    BY Zenon DEF Filtered, KeptIn, Lasting
  <1>2. DOMAIN w = 1 .. Len(w) /\ Len(w) \in Nat /\ K \subseteq DOMAIN w /\ K \subseteq Nat
    BY DEF KeptIn
  <1>3. IsFiniteSet(K) /\ m \in Nat
    <2> HIDE DEF K
    <2>1. IsFiniteSet(1 .. Len(w)) /\ K \in SUBSET (1 .. Len(w))
      BY <1>2, FS_Interval
    <2> QED BY <2>1, FS_Subset, FS_CardinalityType
  <1>4. k \in Bijection(M, K) /\ \A i, j \in M : i < j => k[i] < k[j]
    <2> HIDE DEF K
    <2> QED BY <1>2, <1>3, InOrderOfNumbers
  <1> HIDE DEF k
  <1>5. /\ k \in [M -> K] /\ (\A x \in K : \E n \in M : k[n] = x)
        /\ \A i, j \in M : k[i] = k[j] => i = j
    <2> HIDE DEF K, M
    <2> QED BY <1>4, BijectionFacts
  <1>6. DOMAIN f = M /\ \A n \in M : f[n] = w[k[n]] /\ k[n] \in DOMAIN w /\ k[n] \in K
    BY <1>1, <1>2, <1>5
  <1> HIDE DEF K
  <1>7. f \in Seq(Voucher)
    <2>1. \A n \in M : w[k[n]] \in Voucher
      BY <1>2, <1>6
    <2>2. f \in [M -> Voucher]
      BY <1>1, <2>1
    <2> QED BY <1>3, <2>2
  <1>8. ToSet(f) \subseteq ToSet(w)
    BY <1>6 DEF ToSet
  <1>9. IsNewestFirst(f)
    BY <1>4, <1>6 DEF IsNewestFirst
  <1>10. ASSUME NEW v \in ToSet(w) \ ToSet(f)
         PROVE  /\ v.state \notin Lasting /\ Cardinality(OverIn(f)) = MAX_INACTIVE
                /\ \A n \in OverIn(f) : IssueTime(f[n]) >= IssueTime(v)
    <2>1. PICK i \in DOMAIN w : v = w[i]
      BY DEF ToSet
    <2>2. i \notin K
      BY <1>5, <1>6, <2>1 DEF ToSet
    <2> DEFINE C == KeptIn(w) \cap OverIn(w)
    <2>3. /\ i \in OverIn(w) /\ Cardinality(C) = MAX_INACTIVE /\ IsFiniteSet(C)
          /\ \A j \in C : j < i
      BY <2>2, KeptOfOver DEF K
    <2>4. \A n \in M : n \in OverIn(f) <=> k[n] \in C
      BY <1>6 DEF OverIn, K
    <2>5. OverIn(f) \subseteq M
      BY <1>6 DEF OverIn
    <2>6. v.state \notin Lasting
      BY <2>1, <2>3 DEF OverIn
    <2>7. ASSUME NEW n \in OverIn(f) PROVE IssueTime(f[n]) >= IssueTime(v)
      <3>1. n \in M /\ k[n] \in C /\ k[n] < i /\ k[n] \in DOMAIN w /\ f[n] = w[k[n]]
        BY <1>6, <2>3, <2>4, <2>5
      <3> QED BY <2>1, <3>1 DEF IsNewestFirst
    <2>8. Cardinality(OverIn(f)) = MAX_INACTIVE
      <3> DEFINE O == OverIn(f)
                 g == [n \in O |-> k[n]]
      <3>1. C \subseteq K
        BY DEF K
      <3>2. g \in [O -> C] /\ \A x, y \in O : g[x] = g[y] => x = y
        BY <1>5, <2>4, <2>5
      <3>3. \A x \in C : \E n \in O : g[n] = x
        BY <1>5, <2>4, <3>1
      <3> HIDE DEF C, O, g
      <3>4. g \in Bijection(O, C)
        BY <3>2, <3>3, Fun_IsBij
      <3>5. ExistsBijection(C, O)
        BY <3>4, Fun_BijInverse DEF ExistsBijection
      <3> QED BY <2>3, <3>5, FS_Bijection DEF O
    <2> QED BY <2>6, <2>7, <2>8
  <1> QED BY <1>7, <1>8, <1>9, <1>10

(***************************************************************************)
(* What is listed of the vouchers stored with a card.                      *)
(***************************************************************************)
LEMMA ProcessedKeeps ==
  ASSUME NEW vs \in Seq(Voucher), NEW f, f = Processed(vs)
  PROVE  /\ ToSet(f) \subseteq ToSet(vs) /\ IsNewestFirst(f) /\ f \in Seq(Voucher)
         /\ \A v \in ToSet(vs) \ ToSet(f) :
               /\ v.state \notin Lasting /\ Cardinality(OverIn(f)) = MAX_INACTIVE
               /\ \A n \in OverIn(f) : IssueTime(f[n]) >= IssueTime(v)
  <1> DEFINE w == NewestFirst(vs)
  <1>1. w \in Seq(Voucher) /\ ToSet(w) = ToSet(vs) /\ IsNewestFirst(w)
    BY NewestFirstSorts
  <1>2. CASE Len(vs) > MAX_INACTIVE
    <2>1. f = Filtered(w)
      BY <1>2 DEF Processed
    <2> HIDE DEF w
    <2> QED BY <1>1, <2>1, FilteredKeeps
  <1>3. CASE ~(Len(vs) > MAX_INACTIVE)
    <2>1. f = w
      BY <1>3 DEF Processed
    <2> HIDE DEF w
    <2> QED BY <1>1, <2>1
  <1> QED BY <1>2, <1>3
-----------------------------------------------------------------------------
(***************************************************************************)
(* What is stored with a row's card are vouchers, and a card listed in     *)
(* full shows the vouchers and the reward of its row.                      *)
(***************************************************************************)
LEMMA RowVouchers ==
  ASSUME IInv, NEW c \in DOMAIN got.rows
  PROVE  got.rows[c].held.vouchers \in Seq(Voucher)
  <1>1. got.rows[c].held \in Held
    BY DEF IInv, GotOK, Row
  <1> QED BY <1>1, VoucherAssumption DEF Held

LEMMA RewardStep ==
  ASSUME IInv, ViewAnswered
  PROVE  RewardIsShown'
  <1> SUFFICES ASSUME answer'.what \in InFull, NEW i \in answer'.cards, i.reward
               PROVE  \E n \in DOMAIN i.vouchers : i.vouchers[n].state = "issued"
    BY DEF RewardIsShown, Answered
  <1>1. FullNow
    BY DEF ViewAnswered, FullNow, InFull
  <1>2. PICK c \in DOMAIN got.rows : i = ItemNow(c)
    BY DEF ViewAnswered
  <1> DEFINE e == got.rows[c].entry
             vs == got.rows[c].held.vouchers
             f == Processed(vs)
  <1>3. /\ i.vouchers = IF State(e) = "authorised" THEN f ELSE <<>>
        /\ i.reward = RewardAvailable(e, vs)
    BY <1>1, <1>2, ItemFields
  <1>4. vs \in Seq(Voucher)
    BY RowVouchers
  <1> HIDE DEF e, vs, f
  <1>5. State(e) = "authorised" /\ \E n \in DOMAIN vs : vs[n].state = "issued"
    BY <1>3 DEF RewardAvailable
  <1>6. PICK v \in ToSet(vs) : v.state = "issued"
    BY <1>5 DEF ToSet
  <1>7. v \in ToSet(f)
    BY <1>4, <1>6, ProcessedKeeps DEF f, Lasting
  <1>8. \E n \in DOMAIN f : f[n].state = "issued"
    BY <1>6, <1>7 DEF ToSet
  <1> QED BY <1>3, <1>5, <1>8

(***************************************************************************)
(* A set of positions that is not empty has a first one: the search in the *)
(* code finds it, and so does the property's definition.                   *)
(***************************************************************************)
LEMMA FirstExists ==
  ASSUME NEW S \in SUBSET Nat, S # {}
  PROVE  \E i \in S : \A j \in S : i <= j
  <1> DEFINE R == OpToRel(<, Nat)
  <1>1. IsWellFoundedOn(R, Nat)
    BY NatLessThanWellFounded
  <1>2. PICK i \in S : \A j \in S : <<j, i>> \notin R
    <2> HIDE DEF R
    <2> QED BY <1>1, WFMin
  <1>3. \A j \in S : ~(j < i)
    BY <1>2 DEF OpToRel
  <1> QED BY <1>3

LEMMA TargetIsFirst ==
  ASSUME NEW vs \in Seq(Voucher), NEW f, f = Processed(vs)
  PROVE  TargetOf(vs) = FirstInProgress(f)
  <1> DEFINE S == {i \in DOMAIN f : f[i].state = "inprogress"}
             k == CHOOSE i \in S : \A j \in S : i <= j
             n == IF S # {} THEN k ELSE 0
  <1>1. f \in Seq(Voucher)
    BY ProcessedKeeps
  <1>2. DOMAIN f = 1 .. Len(f) /\ Len(f) \in Nat
    BY <1>1
  <1>3. TargetOf(vs) = IF n = 0 THEN NoTarget ELSE f[n].target
    BY <1>2 DEF TargetOf, SelectInSeq, Min
  <1>4. FirstInProgress(f) = IF S = {} THEN NoTarget ELSE f[k].target
    BY DEF FirstInProgress
  <1>5. S # {} => k \in S
    <2> HIDE DEF S
    <2>1. S \subseteq Nat
      BY <1>2 DEF S
    <2> QED BY <2>1, FirstExists
  <1>6. S # {} => k # 0
    <2>1. S # {} => k \in DOMAIN f
      BY <1>5
    <2> HIDE DEF S, k
    <2> QED BY <1>2, <2>1
  <1> HIDE DEF S, k
  <1> QED BY <1>3, <1>4, <1>6

LEMMA NothingInProgress == FirstInProgress(<<>>) = NoTarget
  BY DEF FirstInProgress

LEMMA TargetStep ==
  ASSUME IInv, ViewAnswered
  PROVE  TargetOfAShownVoucher'
  <1> SUFFICES ASSUME answer'.what \in InFull, quiet', NEW i \in answer'.cards
               PROVE  i.target = FirstInProgress(i.vouchers)
    BY DEF TargetOfAShownVoucher, Answered, FirstInProgress, NoTarget
  <1>1. req.pc = "query_all_images" /\ req.op \in WithCards /\ quiet /\ FullNow
    BY DEF ViewAnswered, quiet, FullNow, InFull
  <1>2. PICK c \in DOMAIN got.rows \ JoinsNow : i = ItemNow(c)
    BY DEF ViewAnswered
  <1> DEFINE e == got.rows[c].entry
             vs == got.rows[c].held.vouchers
             f == Processed(vs)
  <1>3. /\ i.vouchers = IF State(e) = "authorised" THEN f ELSE <<>>
        /\ i.target = IF State(e) = "authorised" THEN got.targets[c] ELSE NoTarget
    BY <1>1, <1>2, ItemFields
  <1>4. vs \in Seq(Voucher)
    BY RowVouchers
  <1>5. State(e) = "authorised" => got.targets[c] = TargetOf(vs)
    <2>1. e = link[c] /\ got.rows[c].held = held[c]
          /\ (NeedsTarget(link[c]) => got.targets[c] = TargetOf(held[c].vouchers))
      BY <1>1, <1>2, RowsAreCurrent
    <2>2. ~IsJoin(e)
      BY <1>2 DEF JoinsNow
    <2> QED BY <2>1, <2>2 DEF NeedsTarget
  <1> HIDE DEF e, vs
  <1>6. TargetOf(vs) = FirstInProgress(f)
    BY <1>4, TargetIsFirst
  <1> HIDE DEF f
  <1> QED BY <1>3, <1>5, <1>6, NothingInProgress

(***************************************************************************)
(* The endpoint for the vouchers of one card.                              *)
(***************************************************************************)
LEMMA VouchersStep ==
  ASSUME IInv, VouchersAnswered
  PROVE  OnlyOldVouchersDropped'
  <1> DEFINE c == req.card
             stored == held[c].vouchers
             vs == answer'.vouchers
  <1>1. /\ c \in Cards /\ link' = link /\ held' = held /\ answer'.of = c
    BY DEF VouchersAnswered, wallet
  <1>2. stored \in Seq(Voucher)
    BY <1>1, VoucherAssumption DEF IInv, TypeOK, Held
  <1> SUFFICES ASSUME Shows(link[c])
               PROVE  /\ ToSet(vs) \subseteq ToSet(stored) /\ IsNewestFirst(vs)
                      /\ \A v \in ToSet(stored) \ ToSet(vs) :
                            /\ v.state \notin Lasting /\ Cardinality(OverIn(vs)) = MAX_INACTIVE
                            /\ \A n \in OverIn(vs) : IssueTime(vs[n]) >= IssueTime(v)
    BY <1>1 DEF OnlyOldVouchersDropped, IsNewestFirst, OverIn, IssueTime, Shows, Lasting
  <1>3. vs = Processed(stored)
    BY DEF VouchersAnswered
  <1> HIDE DEF stored, vs
  <1> QED BY <1>2, <1>3, ProcessedKeeps

-----------------------------------------------------------------------------
(***************************************************************************)
(* Between two answers nothing changes these properties: they are decided  *)
(* by the step that answers.                                               *)
(***************************************************************************)
(***************************************************************************)
(* A card says that it is linked to every payment account exactly when it  *)
(* has an active link with each account of the viewer, and the counts      *)
(* beside are true, if the wallet did not change while it was read.        *)
(***************************************************************************)
THEOREM LinkedToEveryAccount == Spec => []FullyLinkedIfQuiet
  <1>1. Init => FullyLinkedIfQuiet
    <2>1. Init => ~Answered(WithCards)
      BY DEF Init, NoAnswer, Answered, WithCards, WholeOps
    <2> QED BY <2>1 DEF FullyLinkedIfQuiet
  <1>2. IInv /\ FullyLinkedIfQuiet /\ [Next]_vars => FullyLinkedIfQuiet'
    <2> SUFFICES ASSUME IInv, FullyLinkedIfQuiet, [Next]_vars PROVE FullyLinkedIfQuiet'
      OBVIOUS
    <2>1. CASE UNCHANGED vars
      BY <2>1 DEF vars, wallet, FullyLinkedIfQuiet, Answered, quiet
    <2>2. CASE Silent
      BY <2>2 DEF Silent, NoAnswer, FullyLinkedIfQuiet, Answered, WithCards, WholeOps
    <2>3. CASE Failed
      BY <2>3 DEF Failed, FullyLinkedIfQuiet, Answered
    <2>4. CASE AnswersForLess
      BY <2>4 DEF AnswersForLess, FullyLinkedIfQuiet, Answered, WithCards, WholeOps
    <2>5. CASE VouchersAnswered
      BY <2>5 DEF VouchersAnswered, FullyLinkedIfQuiet, Answered, WithCards, WholeOps
    <2>6. CASE ViewAnswered
      BY <2>6, FullyLinkedStep
    <2> QED BY <2>1, <2>2, <2>3, <2>4, <2>5, <2>6, NextStep
  <1> QED BY Invariant, <1>1, <1>2, PTL DEF Spec

(***************************************************************************)
(* The wallet lists each card of the viewer once, among the loyalty cards  *)
(* exactly when it can be asked for by id, and shows its transactions      *)
(* exactly when the endpoint for them would, if nothing changed meanwhile. *)
(***************************************************************************)
THEOREM ViewsAgree == Spec => []SameInEveryView
  <1>1. Init => SameInEveryView
    BY DEF Init, NoAnswer, SameInEveryView, Answered, WithCards, WholeOps
  <1>2. IInv /\ SameInEveryView /\ [Next]_vars => SameInEveryView'
    <2> SUFFICES ASSUME IInv, SameInEveryView, [Next]_vars PROVE SameInEveryView'
      OBVIOUS
    <2>1. CASE UNCHANGED vars
      BY <2>1 DEF vars, wallet, SameInEveryView, Answered, quiet, Readable
    <2>2. CASE Silent
      BY <2>2 DEF Silent, NoAnswer, SameInEveryView, Answered, WithCards, WholeOps
    <2>3. CASE Failed
      BY <2>3 DEF Failed, SameInEveryView, Answered
    <2>4. CASE AnswersForLess
      BY <2>4 DEF AnswersForLess, SameInEveryView, Answered, WithCards, WholeOps
    <2>5. CASE VouchersAnswered
      BY <2>5 DEF VouchersAnswered, SameInEveryView, Answered, WithCards, WholeOps
    <2>6. CASE ViewAnswered
      BY <2>6, SameStep
    <2> QED BY <2>1, <2>2, <2>3, <2>4, <2>5, <2>6, NextStep
  <1> QED BY Invariant, <1>1, <1>2, PTL DEF Spec

(***************************************************************************)
(* A card of a tier without a hero image of its own shows an image of its  *)
(* tier as its hero image, if some card of the answer has a hero image.    *)
(***************************************************************************)
THEOREM TierShownAsHero == Spec => []TierImageShownWithHero
  <1>1. Init => TierImageShownWithHero
    BY DEF Init, NoAnswer, TierImageShownWithHero, Answered, WithCards, WholeOps
  <1>2. IInv /\ TierImageShownWithHero /\ [Next]_vars => TierImageShownWithHero'
    <2> SUFFICES ASSUME IInv, TierImageShownWithHero, [Next]_vars PROVE TierImageShownWithHero'
      OBVIOUS
    <2>1. CASE UNCHANGED vars
      BY <2>1 DEF vars, wallet, TierImageShownWithHero, Answered, quiet, SomeHero
    <2>2. CASE Silent
      BY <2>2 DEF Silent, NoAnswer, TierImageShownWithHero, Answered, WithCards, WholeOps
    <2>3. CASE Failed
      BY <2>3 DEF Failed, TierImageShownWithHero, Answered
    <2>4. CASE AnswersForLess
      BY <2>4 DEF AnswersForLess, TierImageShownWithHero, Answered, WithCards, WholeOps
    <2>5. CASE VouchersAnswered
      BY <2>5 DEF VouchersAnswered, TierImageShownWithHero, Answered, WithCards, WholeOps
    <2>6. CASE ViewAnswered
      BY <2>6, TierImageStep
    <2> QED BY <2>1, <2>2, <2>3, <2>4, <2>5, <2>6, NextStep
  <1> QED BY Invariant, <1>1, <1>2, PTL DEF Spec

(***************************************************************************)
(* A card that says a reward is available lists an issued voucher: leaving *)
(* out vouchers that are over never leaves out that one.                   *)
(***************************************************************************)
THEOREM RewardsListed == Spec => []RewardIsShown
  <1>1. Init => RewardIsShown
    BY DEF Init, NoAnswer, RewardIsShown, Answered, InFull, WithCards, WholeOps
  <1>2. IInv /\ RewardIsShown /\ [Next]_vars => RewardIsShown'
    <2> SUFFICES ASSUME IInv, RewardIsShown, [Next]_vars PROVE RewardIsShown'
      OBVIOUS
    <2>1. CASE UNCHANGED vars
      BY <2>1 DEF vars, wallet, RewardIsShown, Answered
    <2>2. CASE Silent
      BY <2>2 DEF Silent, NoAnswer, RewardIsShown, Answered, InFull, WithCards, WholeOps
    <2>3. CASE Failed
      BY <2>3 DEF Failed, RewardIsShown, Answered
    <2>4. CASE AnswersForLess
      BY <2>4 DEF AnswersForLess, RewardIsShown, Answered, InFull, WithCards, WholeOps
    <2>5. CASE VouchersAnswered
      BY <2>5 DEF VouchersAnswered, RewardIsShown, Answered, InFull, WithCards, WholeOps
    <2>6. CASE ViewAnswered
      BY <2>6, RewardStep
    <2> QED BY <2>1, <2>2, <2>3, <2>4, <2>5, <2>6, NextStep
  <1> QED BY Invariant, <1>1, <1>2, PTL DEF Spec

(***************************************************************************)
(* The target beside a balance is that of the first voucher in progress    *)
(* listed in the same answer, if nothing changed between the statements.   *)
(***************************************************************************)
THEOREM TargetsListed == Spec => []TargetOfAShownVoucher
  <1>1. Init => TargetOfAShownVoucher
    BY DEF Init, NoAnswer, TargetOfAShownVoucher, Answered, InFull, WithCards, WholeOps
  <1>2. IInv /\ TargetOfAShownVoucher /\ [Next]_vars => TargetOfAShownVoucher'
    <2> SUFFICES ASSUME IInv, TargetOfAShownVoucher, [Next]_vars PROVE TargetOfAShownVoucher'
      OBVIOUS
    <2>1. CASE UNCHANGED vars
      BY <2>1 DEF vars, wallet, TargetOfAShownVoucher, Answered, quiet
    <2>2. CASE Silent
      BY <2>2 DEF Silent, NoAnswer, TargetOfAShownVoucher, Answered, InFull, WithCards, WholeOps
    <2>3. CASE Failed
      BY <2>3 DEF Failed, TargetOfAShownVoucher, Answered
    <2>4. CASE AnswersForLess
      BY <2>4 DEF AnswersForLess, TargetOfAShownVoucher, Answered, InFull, WithCards, WholeOps
    <2>5. CASE VouchersAnswered
      BY <2>5 DEF VouchersAnswered, TargetOfAShownVoucher, Answered, InFull, WithCards, WholeOps
    <2>6. CASE ViewAnswered
      BY <2>6, TargetStep
    <2> QED BY <2>1, <2>2, <2>3, <2>4, <2>5, <2>6, NextStep
  <1> QED BY Invariant, <1>1, <1>2, PTL DEF Spec

(***************************************************************************)
(* The endpoint for vouchers lists stored ones, the newest first, and      *)
(* leaves out one only if it is over and MAX_INACTIVE others that are over *)
(* and no older are listed, however many are stored.                       *)
(***************************************************************************)
THEOREM OnlyOldDropped == Spec => []OnlyOldVouchersDropped
  <1>1. Init => OnlyOldVouchersDropped
    BY DEF Init, NoAnswer, OnlyOldVouchersDropped, Answered, WithCards, WholeOps
  <1>2. IInv /\ OnlyOldVouchersDropped /\ [Next]_vars => OnlyOldVouchersDropped'
    <2> SUFFICES ASSUME IInv, OnlyOldVouchersDropped, [Next]_vars PROVE OnlyOldVouchersDropped'
      OBVIOUS
    <2>1. CASE UNCHANGED vars
      BY <2>1 DEF vars, wallet, OnlyOldVouchersDropped, Answered, quiet
    <2>2. CASE Silent
      BY <2>2 DEF Silent, NoAnswer, OnlyOldVouchersDropped, Answered, WithCards, WholeOps
    <2>3. CASE Failed
      BY <2>3 DEF Failed, OnlyOldVouchersDropped, Answered
    <2>4. CASE AnswersForLess
      BY <2>4 DEF AnswersForLess, OnlyOldVouchersDropped, Answered, WithCards, WholeOps
    <2>5. CASE VouchersAnswered
      BY <2>5, VouchersStep
    <2>6. CASE ViewAnswered
      BY <2>6 DEF ViewAnswered, OnlyOldVouchersDropped, Answered, WithCards, WholeOps
    <2> QED BY <2>1, <2>2, <2>3, <2>4, <2>5, <2>6, NextStep
  <1> QED BY Invariant, <1>1, <1>2, PTL DEF Spec

=============================================================================
