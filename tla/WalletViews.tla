---------------------------- MODULE WalletViews ----------------------------
(***************************************************************************)
(* What a user reads of the wallet (handlers/wallet.py, helpers/images.py  *)
(* and the GET handlers of resources/wallet.py): the whole wallet, its     *)
(* overview, one card, the transactions, balance and vouchers of one card, *)
(* and the channels that pay with a linked payment card.                   *)
(*                                                                         *)
(* The session runs at READ COMMITTED, so every statement of a request     *)
(* sees what is committed at that moment: Hermes, Midas and the user's     *)
(* other requests change the wallet between two statements.  The actions   *)
(* of a request are its statements; the answer is put together from what   *)
(* they returned.                                                          *)
(*                                                                         *)
(* A payload is what the answer depends on.  A plan has one document that  *)
(* is displayed with its vouchers.                                         *)
(***************************************************************************)
EXTENDS LoyaltyCardStatus, FiniteSets, SequencesExt

CONSTANTS
    Cards,         \* the loyalty cards of the database
    Accounts,      \* the payment accounts
    Users,         \* their owners
    Viewer,        \* the user who reads
    ChannelsOf,    \* the channels of a user's client
    PlanOf,        \* the loyalty plan of a card
    Inactive,      \* the plans that are not offered in the viewer's channel
    Images,        \* the published images of cards and plans
    LinkStatuses,  \* the status codes the entries can carry
    VoucherLists,  \* the lists of vouchers Midas may store
    Balances,      \* the balances it may store
    MAX_INACTIVE,  \* how many vouchers that are over are listed
    Now,           \* a time after that of every voucher
    MaxChanges     \* bound: changes of the wallet while it is read

ASSUME ViewerAssumption == Viewer \in Users
ASSUME StatusAssumption == LinkStatuses \subseteq Statuses
ASSUME BoundsAssumption == MAX_INACTIVE \in Nat /\ MaxChanges \in Nat
ASSUME AccountsAssumption == IsFiniteSet(Accounts)

\* The date of issue is 0 for a voucher without one.
Voucher == [state : STRING, issued : Nat, target : Nat]

ASSUME VoucherAssumption == VoucherLists \subseteq Seq(Voucher) /\ Now \in Nat

VARIABLES
    link,     \* the viewer's entry for each card
    held,     \* what is stored with each card
    owners,   \* the users each payment account is linked to
    pll,      \* the links between cards and payment accounts
    req,      \* the request being answered
    got,      \* what its statements have returned so far
    answer,   \* the answer
    changes   \* how many changes the wallet saw meanwhile

wallet == <<link, held, owners, pll>>
vars == <<wallet, req, got, answer, changes>>

Plans == {PlanOf[c] : c \in Cards}
NoLink == [status |-> -1, authorised |-> FALSE]
Entries == [status : LinkStatuses, authorised : BOOLEAN]
Held == [vouchers : VoucherLists, balance : Balances]

(***************************************************************************)
(* A loyalty card and a payment account may be linked by any user ("base"),*)
(* and the viewer's own share in that link has a state.                    *)
(***************************************************************************)
PllStates == {"pending", "active", "inactive"}
PllValues == {"none", "base"} \cup PllStates

NoRequest == [pc |-> "idle"]
Nothing == [plls |-> {}, accounts |-> {}, rows |-> <<>>, targets |-> <<>>, links |-> {}]
NoAnswer == [what |-> "none"]

(***************************************************************************)
(* The viewer has a share only in links between a card and an account that *)
(* are both in the wallet: Hermes takes it away with either.               *)
(***************************************************************************)
Consistent(l, o, p) ==
    \A c \in Cards, a \in Accounts :
        p[c, a] \in PllStates => l[c] # NoLink /\ Viewer \in o[a]

Init ==
    /\ link \in [Cards -> Entries \cup {NoLink}]
    /\ held \in [Cards -> Held]
    /\ owners \in [Accounts -> SUBSET Users]
    /\ pll \in [Cards \X Accounts -> PllValues]
    /\ Consistent(link, owners, pll)
    /\ req = NoRequest
    /\ got = Nothing
    /\ answer = NoAnswer
    /\ changes = 0

(***************************************************************************)
(* Midas and Hermes, and the user's other requests, change the wallet      *)
(* while it is read.                                                       *)
(***************************************************************************)
Change ==
    /\ req.pc # "idle"
    /\ changes < MaxChanges
    /\ changes' = changes + 1
    /\ Consistent(link, owners, pll)'
    /\ UNCHANGED <<req, got, answer>>

EntryChanges ==
    \E c \in Cards, e \in Entries \cup {NoLink} :
        /\ e # link[c]
        /\ link' = [link EXCEPT ![c] = e]
        /\ pll' = [x \in Cards \X Accounts |->
                     IF e = NoLink /\ x[1] = c /\ pll[x] \in PllStates THEN "base" ELSE pll[x]]
        /\ UNCHANGED <<held, owners>>
        /\ Change

HeldChanges ==
    \E c \in Cards, h \in Held :
        /\ h # held[c]
        /\ held' = [held EXCEPT ![c] = h]
        /\ UNCHANGED <<link, owners, pll>>
        /\ Change

OwnerChanges ==
    \E a \in Accounts, u \in Users :
        LET o == IF u \in owners[a] THEN owners[a] \ {u} ELSE owners[a] \cup {u}
        IN  /\ owners' = [owners EXCEPT ![a] = o]
            /\ pll' = [x \in Cards \X Accounts |->
                         IF x[2] = a /\ Viewer \notin o /\ pll[x] \in PllStates
                         THEN "base" ELSE pll[x]]
            /\ UNCHANGED <<link, held>>
            /\ Change

PllChanges ==
    \E x \in Cards \X Accounts, s \in PllValues :
        /\ s # pll[x]
        /\ pll' = [pll EXCEPT ![x] = s]
        /\ UNCHANGED <<link, held, owners>>
        /\ Change

(***************************************************************************)
(* The entries of each kind.  A dependant code counts as active or as      *)
(* pending, by the authorised flag of the entry.                           *)
(***************************************************************************)
IsJoin(e) == e.status \in JOIN_STATES

State(e) ==
    IF Api2State(e.status) = "dependant"
    THEN Api2State(IF e.authorised THEN ACTIVE ELSE PENDING)
    ELSE Api2State(e.status)

\* Mutant: without the second pattern.
ShowsActive(e) == Api2State(e.status) = "authorised"

\* The test of the endpoints that answer for one part of a card.
Shows(e) ==
    \/ Api2State(e.status) = "authorised"
    \/ Api2State(e.status) = "dependant" /\ e.authorised

Offered(c) == PlanOf[c] \notin Inactive

(***************************************************************************)
(* Vouchers: the newest first, those without a date as if issued now; of   *)
(* those that are over only so many are kept once the list is long.        *)
(***************************************************************************)
InOrder(S, Before(_, _)) ==
    CHOOSE s \in [1 .. Cardinality(S) -> S] :
        \A i, j \in DOMAIN s : i < j => Before(s[i], s[j])

\* Mutant: with issued vouchers among those that are over.
FilteredIssued(vs) ==
    LET Over(i) == vs[i].state \notin {"inprogress", "pending"}
        Before(i) == Cardinality({j \in 1 .. i : Over(j)})
        kept == {i \in DOMAIN vs : Over(i) => Before(i) <= MAX_INACTIVE}
    IN  [n \in 1 .. Cardinality(kept) |-> vs[InOrder(kept, <)[n]]]

\* Mutant: with one voucher fewer.
FilteredFewer(vs) ==
    LET Over(i) == vs[i].state \notin {"issued", "inprogress", "pending"}
        Before(i) == Cardinality({j \in 1 .. i : Over(j)})
        kept == {i \in DOMAIN vs : Over(i) => Before(i) < MAX_INACTIVE}
    IN  [n \in 1 .. Cardinality(kept) |-> vs[InOrder(kept, <)[n]]]

Filtered(vs) ==
    LET Over(i) == vs[i].state \notin {"issued", "inprogress", "pending"}
        Before(i) == Cardinality({j \in 1 .. i : Over(j)})
        kept == {i \in DOMAIN vs : Over(i) => Before(i) <= MAX_INACTIVE}
    IN  [n \in 1 .. Cardinality(kept) |-> vs[InOrder(kept, <)[n]]]

NewestFirst(vs) ==
    LET Time(i) == IF vs[i].issued = 0 THEN Now ELSE vs[i].issued
        Newer(i, j) == Time(i) > Time(j) \/ (Time(i) = Time(j) /\ i < j)
        order == InOrder(DOMAIN vs, Newer)
    IN  [n \in DOMAIN vs |-> vs[order[n]]]

Processed(vs) ==
    IF Len(vs) > MAX_INACTIVE THEN Filtered(NewestFirst(vs)) ELSE NewestFirst(vs)

NoTarget == 0

\* Mutant: without the break.
TargetOfLast(vs) ==
    LET InProgress(v) == v.state = "inprogress"
        i == SelectLastInSeq(Processed(vs), InProgress)
    IN  IF i = 0 THEN NoTarget ELSE Processed(vs)[i].target

\* The target of the first voucher in progress.
TargetOf(vs) ==
    LET InProgress(v) == v.state = "inprogress"
        i == SelectInSeq(Processed(vs), InProgress)
    IN  IF i = 0 THEN NoTarget ELSE Processed(vs)[i].target

RewardAvailable(e, vs) ==
    /\ State(e) = "authorised"
    /\ \E i \in DOMAIN vs : vs[i].state = "issued"

(***************************************************************************)
(* The balance: a value that is no number, or a currency without a name,   *)
(* ends the formatting before the reward tier is copied.                   *)
(***************************************************************************)
NoTier == 0
NoBalance == [stored |-> FALSE, readable |-> FALSE, tier |-> NoTier]

Tier(b) == IF b.stored /\ b.readable THEN b.tier ELSE NoTier

(***************************************************************************)
(* Images.  One statement finds those of every card listed in the answer   *)
(* and of their plans; in the overview only hero and tier images.          *)
(***************************************************************************)
Found(listed, full) ==
    {i \in Images :
        /\ i.of \in {c \in listed : link[c] # NoLink} \cup {PlanOf[c] : c \in listed}
        /\ full \/ i.type \in {"hero", "tier"}}

\* A card's own images of a type go before those of its plan.
OwnOrPlan(found, c, type) ==
    LET Of(x) == {i \in found : i.of = x /\ i.type = type}
    IN  IF Of(c) # {} THEN Of(c) ELSE Of(PlanOf[c])

AsHero(i) == [i EXCEPT !.type = "hero"]

\* Mutant: with the hero images looked at first.
HeroImageFirst(found, c, tier) ==
    LET heroes == OwnOrPlan(found, c, "hero")
    IN  IF heroes # {} THEN heroes
        ELSE {AsHero(i) : i \in {j \in OwnOrPlan(found, c, "tier") : j.tier = tier}}

\* With tier images about, the hero image is chosen among them.
HeroImage(found, c, tier) ==
    LET own == {i \in found : i.of = c /\ i.type = "hero"}
        tiers == {i \in OwnOrPlan(found, c, "tier") : i.tier = tier /\ own = {}}
    IN  IF tiers # {} THEN {AsHero(CHOOSE i \in tiers : TRUE)}
        ELSE OwnOrPlan(found, c, "hero")

(***************************************************************************)
(* Without a hero image of any card of the answer the lookup of one fails, *)
(* and with it the choice among the tier images; get_image_list suppresses *)
(* the KeyError and answers with what it has.                              *)
(***************************************************************************)
ImageList(found, c, tier) ==
    LET types == {i.type : i \in found}
        plain == UNION {OwnOrPlan(found, c, t) : t \in types \ {"hero", "tier"}}
    IN  CASE "tier" \notin types -> plain \cup OwnOrPlan(found, c, "hero")
          [] "tier" \in types /\ "hero" \notin types -> plain
          [] OTHER -> plain \cup HeroImage(found, c, tier)

(***************************************************************************)
(* The answer's items.  A card whose entry is authorised shows its balance *)
(* and, in full, its transactions and vouchers.                            *)
(***************************************************************************)
JoinItem(c, found) ==
    [id |-> c, state |-> State(got.rows[c].entry), images |-> ImageList(found, c, NoTier)]

\* Mutant: if every link counted.
ActiveAll(plls) == plls

Active(plls) == {p \in plls : p.state = "active"}

FullyLinked(plls, accounts) ==
    /\ Cardinality(Active(plls)) = Cardinality(accounts)
    /\ accounts # {}

CardItem(c, full, found) ==
    LET e == got.rows[c].entry
        h == got.rows[c].held
        shown == State(e) = "authorised"
        plls == {p \in got.plls : p.card = c}
    IN  [id |-> c, state |-> State(e),
         balance |-> IF shown THEN h.balance ELSE NoBalance,
         target |-> IF shown THEN got.targets[c] ELSE NoTarget,
         transactions |-> full /\ shown,
         vouchers |-> IF full /\ shown THEN Processed(h.vouchers) ELSE <<>>,
         plls |-> IF full THEN plls ELSE {},
         reward |-> RewardAvailable(e, h.vouchers),
         fully |-> FullyLinked(plls, got.accounts),
         linked |-> Cardinality(Active(plls)),
         total |-> Cardinality(got.accounts),
         images |-> ImageList(found, c, IF shown THEN Tier(h.balance) ELSE NoTier)]

AccountItem(a, full) ==
    [id |-> a, plls |-> IF full THEN {p \in got.plls : p.account = a} ELSE {}]

(***************************************************************************)
(* A request of the viewer.  Ops that name a card carry it.  A behaviour   *)
(* is one request: reading changes nothing, so that a later one finds a    *)
(* wallet that the first may find as well.                                 *)
(***************************************************************************)
WholeOps == {"wallet", "overview"}
CardOps == {"card", "transactions", "balance", "vouchers"}
NoCard == "no card"

\* Mutant: if the balance began with the target.
FirstStatementTarget(op) ==
    CASE op \in WholeOps \cup {"card"} -> "query_all_pll"
      [] op \in {"transactions", "vouchers"} -> "query_scheme_account"
      [] op = "balance" -> "get_target_value"
      [] op = "channels" -> "query_cards"

FirstStatement(op) ==
    CASE op \in WholeOps \cup {"card"} -> "query_all_pll"
      [] op \in {"transactions", "balance", "vouchers"} -> "query_scheme_account"
      [] op = "channels" -> "query_cards"

Receive ==
    /\ req.pc = "idle" /\ answer = NoAnswer
    /\ \E op \in WholeOps \cup CardOps \cup {"channels"}, c \in Cards \cup {NoCard} :
        /\ (op \in CardOps) = (c # NoCard)
        /\ req' = [pc |-> FirstStatement(op), op |-> op, card |-> c, todo |-> {}]
    /\ UNCHANGED <<wallet, got, answer, changes>>

Goto(pc, todo) == req' = [req EXCEPT !.pc = pc, !.todo = todo]

Answer(a) ==
    /\ answer' = [f \in {"what", "of"} \cup DOMAIN a |->
                     CASE f = "what" -> req.op [] f = "of" -> req.card [] OTHER -> a[f]]
    /\ req' = NoRequest
    /\ got' = Nothing

NotFound == Answer([outcome |-> "not found"])

\* Hermes is told of a wallet that was put together (view_wallet_event);
\* without the broker the request ends with an error.
EventLost == req.op \in WholeOps /\ Answer([outcome |-> "error"])

Asked == IF req.op = "card" THEN {req.card} ELSE Cards

\* The user's links, with a state, among the cards asked for.
QueryAllPll ==
    /\ req.pc = "query_all_pll"
    /\ got' = [got EXCEPT !.plls =
           {[card |-> x[1], account |-> x[2], state |-> pll[x]] :
               x \in {y \in Asked \X Accounts : pll[y] \in PllStates}}]
    /\ Goto(IF req.op = "card" THEN "query_scheme_accounts" ELSE "query_payment_accounts", {})
    /\ UNCHANGED <<wallet, answer, changes>>

QueryPaymentAccounts ==
    /\ req.pc = "query_payment_accounts"
    /\ got' = [got EXCEPT !.accounts = {a \in Accounts : Viewer \in owners[a]}]
    /\ Goto(CASE req.op \in WholeOps -> "query_scheme_accounts"
              [] req.op = "card" /\ req.todo # {} -> "get_target_value"
              [] OTHER -> "query_all_images", req.todo)
    /\ UNCHANGED <<wallet, answer, changes>>

(***************************************************************************)
(* The cards, each with its entry, of the plans offered in the channel.  A *)
(* card asked for by id is not found while it is a join.                   *)
(***************************************************************************)
Listed(c) ==
    /\ link[c] # NoLink /\ Offered(c)
    /\ req.op = "card" => ~IsJoin(link[c])

\* Mutant: if joins did not leave the function early.
NeedsTargetJoins(e) == State(e) = "authorised"

NeedsTarget(e) == ~IsJoin(e) /\ State(e) = "authorised"

QuerySchemeAccounts ==
    /\ req.pc = "query_scheme_accounts"
    /\ LET listed == {c \in Asked : Listed(c)}
           todo == {c \in listed : NeedsTarget(link[c])}
       IN  IF req.op = "card" /\ listed = {} THEN NotFound
           ELSE /\ got' = [got EXCEPT !.rows =
                              [c \in listed |-> [entry |-> link[c], held |-> held[c]]]]
                /\ Goto(CASE req.op = "card" -> "query_payment_accounts"
                          [] req.op \in WholeOps /\ todo # {} -> "get_target_value"
                          [] OTHER -> "query_all_images", todo)
                /\ UNCHANGED answer
    /\ UNCHANGED <<wallet, changes>>

\* The test of query_scheme_account and query_voucher.
Readable(c) == link[c] # NoLink /\ ~IsJoin(link[c])

(***************************************************************************)
(* The target of each authorised card is a statement of its own, which     *)
(* answers 404 for the whole request when the card is no longer there.     *)
(***************************************************************************)
GetTargetValue(c) ==
    /\ req.pc = "get_target_value" /\ c \in req.todo
    /\ LET target == TargetOf(held[c].vouchers)
       IN  CASE ~Readable(c) -> NotFound
             [] Readable(c) /\ req.op = "balance" ->
                    Answer([outcome |-> "ok", balance |-> got.rows[c].held.balance, target |-> target])
             [] OTHER ->
                    /\ got' = [got EXCEPT !.targets =
                              [d \in DOMAIN @ \cup {c} |-> IF d = c THEN target ELSE @[d]]]
                    /\ Goto(IF req.todo = {c} THEN "query_all_images" ELSE req.pc, req.todo \ {c})
                    /\ UNCHANGED answer
    /\ UNCHANGED <<wallet, changes>>

QueryAllImages ==
    /\ req.pc = "query_all_images"
    /\ LET full == req.op # "overview"
           listed == DOMAIN got.rows
           found == Found(listed, full)
           joins == {c \in listed : IsJoin(got.rows[c].entry)}
       IN  \/ Answer([outcome |-> "ok",
                      joins |-> {JoinItem(c, found) : c \in joins},
                      cards |-> {CardItem(c, full, found) : c \in listed \ joins},
                      accounts |-> {AccountItem(a, full) : a \in got.accounts}])
           \/ EventLost
    /\ UNCHANGED <<wallet, changes>>

(***************************************************************************)
(* The endpoints for one part of a card do not look at the plan's status   *)
(* in the channel.                                                         *)
(***************************************************************************)
QuerySchemeAccount ==
    /\ req.pc = "query_scheme_account"
    /\ LET c == req.card
           shown == Shows(link[c])
       IN  CASE ~Readable(c) -> NotFound
             [] Readable(c) /\ req.op = "transactions" ->
                    Answer([outcome |-> "ok", transactions |-> shown])
             [] Readable(c) /\ req.op = "vouchers" ->
                    Answer([outcome |-> "ok",
                            vouchers |-> IF shown THEN Processed(held[c].vouchers) ELSE <<>>])
             [] Readable(c) /\ req.op = "balance" /\ ~shown ->
                    Answer([outcome |-> "ok", balance |-> NoBalance, target |-> NoTarget])
             [] OTHER ->
                    /\ got' = [got EXCEPT !.rows =
                              [d \in {c} |-> [entry |-> link[d], held |-> held[d]]]]
                    /\ Goto("get_target_value", {c})
                    /\ UNCHANGED answer
    /\ UNCHANGED <<wallet, changes>>

(***************************************************************************)
(* The channel links: first the payment accounts any user has linked to    *)
(* the viewer's cards, then the channels of the owners of those accounts.  *)
(***************************************************************************)
QueryCards ==
    /\ req.pc = "query_cards"
    /\ got' = [got EXCEPT !.links =
           {x \in Cards \X Accounts : link[x[1]] # NoLink /\ Offered(x[1]) /\ pll[x] # "none"}]
    /\ Goto("query_channels", {})
    /\ UNCHANGED <<wallet, answer, changes>>

ChannelsPaying(links) ==
    [c \in {x[1] : x \in {y \in links : \E u \in owners[y[2]] : ChannelsOf[u] # {}}} |->
        UNION {UNION {ChannelsOf[u] : u \in owners[x[2]]} : x \in {y \in links : y[1] = c}}]

QueryChannels ==
    /\ req.pc = "query_channels"
    /\ Answer([outcome |-> "ok", channels |-> ChannelsPaying(got.links)])
    /\ UNCHANGED <<wallet, changes>>

Next ==
    \/ EntryChanges \/ HeldChanges \/ OwnerChanges \/ PllChanges
    \/ Receive \/ QueryAllPll \/ QueryPaymentAccounts \/ QuerySchemeAccounts
    \/ (\E c \in Cards : GetTargetValue(c))
    \/ QueryAllImages \/ QuerySchemeAccount \/ QueryCards \/ QueryChannels

Spec == Init /\ [][Next]_vars
-----------------------------------------------------------------------------

Pcs == {"query_all_pll", "query_payment_accounts", "query_scheme_accounts",
        "get_target_value", "query_all_images", "query_scheme_account",
        "query_cards", "query_channels"}
Ops == WholeOps \cup CardOps \cup {"channels"}

TypeOK ==
    /\ link \in [Cards -> Entries \cup {NoLink}]
    /\ held \in [Cards -> Held]
    /\ owners \in [Accounts -> SUBSET Users]
    /\ pll \in [Cards \X Accounts -> PllValues] /\ Consistent(link, owners, pll)
    /\ req = NoRequest \/ req \in [pc : Pcs, op : Ops, card : Cards \cup {NoCard}, todo : SUBSET Cards]
    /\ req.pc = "get_target_value" => req.todo # {} /\ req.todo \subseteq DOMAIN got.rows
    /\ got.plls \subseteq [card : Cards, account : Accounts, state : PllStates]
    /\ got.accounts \subseteq Accounts
    /\ DOMAIN got.targets \subseteq DOMAIN got.rows /\ DOMAIN got.rows \subseteq Cards
    /\ answer.what \in Ops \cup {"none"}
    /\ changes \in 0 .. MaxChanges

\* Nothing changed while the request was answered.
quiet == changes = 0

Answered(ops) == answer.what \in ops /\ answer.outcome = "ok"
WithCards == WholeOps \cup {"card"}
InFull == {"wallet", "card"}

(***************************************************************************)
(* The wallet and its overview are never answered with 404, unless the     *)
(* wallet was changed while it was read.  The lookup of a target that ends *)
(* the request (check_one in get_target_value) is made for cards the       *)
(* request has just found.                                                 *)
(***************************************************************************)
RefusedOnlyIfChanged ==
    answer.what \in WholeOps /\ quiet => answer.outcome \in {"ok", "error"}

(***************************************************************************)
(* A card is shown as linked to every payment account exactly when each    *)
(* account of the viewer has an active link with it, and the counts shown  *)
(* beside are true, if nothing changed meanwhile.  The code compares two   *)
(* counts, from two statements (is_pll_fully_linked).                      *)
(***************************************************************************)
FullyLinkedIfQuiet ==
    Answered(WithCards) /\ quiet =>
        LET mine == {a \in Accounts : Viewer \in owners[a]}
        IN  \A i \in answer.cards :
                /\ i.fully <=> mine # {} /\ \A a \in mine : pll[i.id, a] = "active"
                /\ i.linked <= i.total /\ i.total = Cardinality(mine)

(***************************************************************************)
(* The views agree: every card of the viewer that the channel offers is in *)
(* the wallet once; it is among the loyalty cards exactly when it can be   *)
(* asked for by id, and shows its transactions there exactly when the      *)
(* endpoint for them alone would.  The wallet decides it by the status it  *)
(* shows, the endpoints by a match of their own.                           *)
(***************************************************************************)
SameInEveryView ==
    Answered({"wallet"}) /\ quiet =>
        LET joins == {i.id : i \in answer.joins}
            cards == {i.id : i \in answer.cards}
        IN  /\ joins \cup cards = {c \in Cards : link[c] # NoLink /\ Offered(c)}
            /\ joins \cap cards = {}
            /\ \A c \in joins \cup cards : c \in cards <=> Readable(c)
            /\ \A i \in answer.cards : i.transactions = Shows(link[i.id])

FirstInProgress(vs) ==
    LET S == {i \in DOMAIN vs : vs[i].state = "inprogress"}
    IN  IF S = {} THEN NoTarget ELSE vs[CHOOSE i \in S : \A j \in S : i <= j].target

(***************************************************************************)
(* The target beside a balance is that of the first voucher in progress    *)
(* listed in the same answer, if nothing changed meanwhile: the card's row *)
(* and its target come from two statements.                                *)
(***************************************************************************)
TargetOfAShownVoucher ==
    Answered(InFull) /\ quiet =>
        \A i \in answer.cards : i.target = FirstInProgress(i.vouchers)

(***************************************************************************)
(* A card that says a reward is available lists the issued voucher: the    *)
(* vouchers are filtered, the flag looks at all of them.                   *)
(***************************************************************************)
RewardIsShown ==
    Answered(InFull) =>
        \A i \in answer.cards :
            i.reward => \E n \in DOMAIN i.vouchers : i.vouchers[n].state = "issued"

Lasting == {"issued", "inprogress", "pending"}

(***************************************************************************)
(* The vouchers listed are stored ones, newest first; one is left out only *)
(* if it is over and MAX_INACTIVE others that are over are listed          *)
(* (filter_vouchers).                                                      *)
(***************************************************************************)
OnlyOldVouchersDropped ==
    Answered({"vouchers"}) /\ quiet /\ Shows(link[answer.of]) =>
        LET vs == answer.vouchers
            stored == held[answer.of].vouchers
            Time(v) == IF v.issued = 0 THEN Now ELSE v.issued
            over == {n \in DOMAIN vs : vs[n].state \notin Lasting}
        IN  /\ ToSet(vs) \subseteq ToSet(stored)
            /\ \A m, n \in DOMAIN vs : m < n => Time(vs[m]) >= Time(vs[n])
            /\ \A v \in ToSet(stored) \ ToSet(vs) :
                  v.state \notin Lasting /\ Cardinality(over) = MAX_INACTIVE
                      /\ \A n \in over : Time(vs[n]) >= Time(v)

(***************************************************************************)
(* A card of a tier has the tier's image as its hero image, if there is    *)
(* one and the card has no hero image of its own (process_hero_image, "If  *)
(* tier image is available return that as the hero image"), provided some  *)
(* card of the answer has a hero image at all.                             *)
(***************************************************************************)
TierImages(i) ==
    {m \in OwnOrPlan(Images, i.id, "tier") : i.balance.stored /\ m.tier = Tier(i.balance)}

OwnHero(c) == {m \in Images : m.of = c /\ m.type = "hero"}

SomeHero ==
    \E i \in answer.cards \cup answer.joins, m \in Images :
        m.type = "hero" /\ m.of \in {i.id, PlanOf[i.id]}

TierImageShown ==
    Answered(WithCards) /\ quiet =>
        \A i \in answer.cards :
            OwnHero(i.id) = {} /\ TierImages(i) # {} =>
                \E m \in TierImages(i) : AsHero(m) \in i.images

TierImageShownWithHero ==
    Answered(WithCards) /\ quiet /\ SomeHero =>
        \A i \in answer.cards :
            OwnHero(i.id) = {} /\ TierImages(i) # {} =>
                \E m \in TierImages(i) : AsHero(m) \in i.images
=============================================================================
