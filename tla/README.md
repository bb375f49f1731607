# Angelia: a formal model of its wallets, journeys, plans and secrets

Angelia is the HTTP API (Falcon under gunicorn) through which channels manage users' wallets. It
reads and writes the Postgres database of Hermes, and leaves the slow part of every journey
(calling merchants, linking payment cards) to Hermes by publishing messages to a RabbitMQ queue.
This directory holds TLA+ modules that model it, the TLC configurations that check them, and
proofs of the main invariants and of a refinement.

Paths below are relative to `src/`; line numbers refer to `angelia/handlers/loyalty_card.py`
unless another file is named.

## 1. Inventory

Several processes (`Dockerfile:10`: two gunicorn workers in each of several pods) serve requests
independently. Each request runs in one database session, opened by `DatabaseSessionManager`
(`angelia/api/middleware.py:83`), at Postgres's default isolation (READ COMMITTED), without row
locks. A process keeps no state of a request after answering it. What outlives a request is the
database, the queue, and three things in the process: the cached secrets, the pending history
events, the thread's `SharedData`.

| Component | State | Operations | Hard part | What makes it correct |
|---|---|---|---|---|
| Loyalty card journeys (`handlers/loyalty_card.py`, `resources/loyalty_cards.py`) | tables `scheme_schemeaccount` (cards) and `ubiquity_schemeaccountentry` (links) | eleven writing endpoints | checks and writes in separate statements; commit before publish; Hermes writes the same rows | one card per key credential and merchant identifier; every committed link announced; no link stuck in a join; messages about rows that exist; one user's request leaves other wallets alone |
| Statuses (`lib/loyalty_card.py`) | none | classes of `link_status` | two overlapping notions of a failed join | each handler branches on the right class |
| Messages (`messaging/sender.py`, `message_broker.py`) | RabbitMQ queue | `send_message_to_hermes` | fails after the commit | nothing committed is forgotten |
| Failure events (`api/middleware.py:141`) | none | `add_trusted_failed` after a failed POST add_trusted | runs after the rollback | a failing trusted add is reported |
| Database sessions, history (`hermes/db.py`) | `history_sessions` of the process | append at flush, dispatch after commit | kept over a rollback; requeues while the broker is down | history only of what was committed; requests end |
| Payment accounts (`handlers/payment_account.py`) | payment accounts and their links | add, supersede, link, update, delete | two adds of a fingerprint | one active account per fingerprint |
| Tokens and users (`handlers/token.py`, `user.py`) | users, service consents | first login, refresh, e-mail update, deletion | two first logins | one user per external id, with a consent |
| Trusted wallet creation (`resources/wallet.py:166`) | all the above | user, card and payment account in one transaction | a handler commits in the middle | all or nothing |
| Wallet views (`handlers/wallet.py`, `handlers/helpers/images.py`) | none | seven reading endpoints, of two to a dozen statements each | every statement sees what is committed at its own moment; one card's state is decided in four places | the views agree with each other and with the tables; a wallet that nobody changes is never refused |
| Loyalty plans (`handlers/loyalty_plan.py`) | none | the plan, the list of plans, the journey fields | the fields shown and the answers accepted are worked out by two handlers; a plan edited while it is read | who answers what was shown is not refused; what is accepted answers what was asked |
| Authentication (`api/auth.py`), secrets (`api/helpers/vault.py`) | per-process cache of secrets, an `lru_cache` of answers | look up, reload on a miss | nothing tells a process that the vault has changed | tokens of any process are accepted by all; no token is signed with an empty secret |
| Request encryption (`encryption.py`, `cli/commands.py`) | the same cache | find the key a payload names | an expiry read once | a renewed key is usable |
| Application shell, health, metrics | none | I/O and wiring | none | out of scope |

How they interact: a resource builds a handler with the request's session; the handler queries,
writes and commits, and then publishes; the middleware rolls back what an exception left
uncommitted. Hermes consumes the queue and writes to the same tables at any moment. The only
synchronisation is the database: the unique index on (card, user)
(`tests/fixtures/hermes_template.sql:2795`) is the sole constraint on loyalty cards; the
identity of a card (its key credential, its merchant identifier) is guarded by application code
alone.

The hazards that follow are listed in `PROJECT.json` with their lines and the property that
covers each, or the reason why none does yet.

## 2. Plan

Done, in this order:

1. `LoyaltyCards`: the loyalty card journeys, their messages and Hermes's part, with the
   invariants proved, those of requests that do not overlap included.
2. `Sessions`: transactions at READ COMMITTED and the history events of `hermes/db.py`, with
   rollback and with the broker down.
3. `Wallets`: the handlers of users and payment accounts, and `create_trusted`, which composes
   them with the trusted add, all on `Sessions`, with the invariants proved.
4. `WalletLinks`: what the journeys promise about links, the abstract specification that
   `LoyaltyCards` implements, proved.
5. `Secrets`: the secrets each process keeps, against rotation, with its invariants proved.
6. `WalletViews`: the reading endpoints, statement by statement, with the invariants proved.
7. `PlanFields`: the questions of a plan as they are shown, and as answers to them are judged,
   with the invariants proved.

Left: the deletion of a user; the images, tiers and contents of plans.

## 3. Modules

`LoyaltyCardStatus` holds the status codes and the classes the handlers branch on, under their
names in the code.

`LoyaltyCards` is the state machine.

| Variable | In the code |
|---|---|
| `cards` | rows of `scheme_schemeaccount`: `is_deleted`, key credential, merchant identifier, and whether `link_date` or `join_date` is set |
| `entries` | rows of `ubiquity_schemeaccountentry`: card, user, `link_status`; a removed row stays as `"gone"` since ids are not reused |
| `bus` | the queue, a bag: Hermes's consumers take messages in any order |
| `ctx` | for each worker the `LoyaltyCardHandler` fields that outlive a query (`card_id`, `link_to_user`, `old_card_id`, the credentials) and the messages left to send |
| `served` | requests so far, to bound a behaviour |
| `told`, `lost` | history variables: entries announced; announcements whose request died |

A worker's `pc` stands at the points where the code goes outside the process. Between two of
them the code is sequential and touches only its own memory, so every action is one query, one
transaction or one publish, with all that the code does up to the next.

| Action | Code |
|---|---|
| `Receive` | resource method, schema validation, `retrieve_plan_questions_and_answer_fields` (read-only) |
| `Authorise`, `TrustedUpdate`, `Register`, `PutJoin`, `DeleteJoin`, `Delete`, `NotFound` | the first query of a request that names a card (413-459) and the branches of the handler on what it returned (186-401) |
| `CheckMid` | `validate_merchant_identifier` (879-896) |
| `NoCardRoute`, `ManyCardsRoute`, `AddRoute`, `AddAndAuthoriseRoute`, `TrustedAddRoute` | the query by key credential (708-734) and `_route_journeys` (847-1013) |
| `CreateCard`, `LinkCard` | `create_new_loyalty_card`, `link_account_to_user`, to their commit (1060-1166) |
| `TouchCard`, `UpdateLink` | the second commit of `_route_trusted_add` (939-949) |
| `Rejoin`, `Remove` | the transactions of `handle_put_join` (355-363) and `handle_delete_join` (387-389) |
| `Refresh` | the commit expired the session's objects; the next read of `link_to_user.id` (1172) selects the row again |
| `Publish` | one `send_message_to_hermes`, with `_hermes_messaging_data` |
| `Abort`, `Crash` | an exception at any step, a killed worker |
| `HermesHandles`, `HermesUpdates` | external |

Abstracted: one loyalty plan (every query filters on `scheme_id`); credentials other than the
key and the merchant identifier; consents; the column `authorised` (the one branch on it chooses
between two errors); HTTP codes. Whether stored credentials match in `authorise` is a
nondeterministic choice. Requests that fail validation before they touch the tables are `Abort`
at the first step. The second commit of a trusted add is taken also when the card was dated
already, when it changes nothing.

Hermes is modelled by what the code relies on: it removes the link named in
`delete_loyalty_card` and marks a card deleted with its last link; it moves the status of a link
when it takes its join, and otherwise as it likes, except that it leaves alone a join (442) it
has not been told of.

`MCLoyaltyCards` gives the starting tables and symmetry sets. `LoyaltyCardsProofs`,
`LoyaltyCardsPromise`, `LoyaltyCardsRows` and `LoyaltyCardsInTurn` hold the theorems.

### The promise

`WalletLinks` is what a reader who knows nothing of queries and workers may rely on. Its one
variable gives each link a state (unused, open, closed), a user and a card for good, and the
word Hermes is owed of it (none, owed, told, lost). A link opens only when the user has no open
link to that card, and word of it is owed from that moment; word is told or is seen to be lost;
a later request may owe it again.

`LoyaltyCards` implements it under the refinement mapping `Life(e)`: the state, user and card
are those of the row; the word is "told" if `e \in told`, "owed" if a running request still has
an announcement of it to send, "lost" otherwise. `KeepsPromise` is the abstract `Spec` under
this mapping (its action part is proved, section 5), `SettlesPromise` the abstract fairness: no
link is owed word of for ever. The second is what faults cannot take away: a request that owes
word sends it or fails, and a failure settles the matter as lost.

### Sessions and wallets

`LoyaltyCards` commits each journey's writes in one step, as its handlers do. `create_trusted`
does not: it flushes rows over many statements, holds them uncommitted, and may lose them all.
The second state machine models this.

`Sessions` is the database as one worker's session sees it.

| Variable | In the code |
|---|---|
| `db` | the committed rows of the five watched tables and of the service consents |
| `tx` | what each worker's `scoped_session` has flushed in its open transaction |
| `serial` | the id sequences; ids are not given back |
| `queue` | each process's `history_sessions` (`db.py:62`) |
| `committing` | workers inside `after_commit_listener` (`db.py:147`), which is inside `session.commit` |
| `sent`, `lost` | messages published; messages that died with a request or a process |

| Action | Code |
|---|---|
| `Flush`, `Commit`, `Discard` | `session.flush`, `session.commit`, `session.rollback` or `close`; the mapper listeners append to `queue` at flush (`db.py:120-145`) |
| `Send`, `Requeue` | one turn of `after_commit_listener` (`db.py:147-157`) with the three attempts of `try_dispatch` |
| `DispatchRaises` | an exception `try_dispatch` does not catch comes out of the commit |
| `Die` | external: the process is killed |
| `Taken`, `Waits` | Postgres's unique indexes (`Clash`: `hermes_template.sql:2748, 2796, 2900, 3644`): an insert waits for the open transaction that holds its key, and is refused when the key is committed |

`Wallets` adds the requests: `ctx` (the handler of each worker), `served` and `faults`.

| Action | Code |
|---|---|
| `Receive` | the resources up to their first query |
| `FindUser`, `CheckNewEmail`, `InsertUser`, `UserTaken`, `Reselect`, `InsertConsent` | `handlers/token.py:133-307` |
| `CheckMid`, `FindCard`, `InsertCard`, `InsertLink`, `Touch` | the trusted add with `commit=False`; `Touch` is the commit of 948-949 |
| `FindPayment`, `InsertPayment`, `InsertOwner` | POST of a payment account, `handlers/payment_account.py:80-260` |
| `NotOwned`, `UpdatePayment`, `DeletePayment` | PATCH and DELETE, `handlers/payment_account.py:262-290, 338-397` |
| `Decide` | the end of `on_post_create_trusted` (`resources/wallet.py:196-213`) |
| `CheckEmail`, `UpdateEmail`, `Report` | `handlers/user.py:17-49`, `sql_history` |
| `Publish` | the messages of a login, of a payment account added or deleted, or the combined one of `create_trusted` |
| `Close` | the end of the request (`middleware.py:96-109`) |
| `Abort`, `Crash` | an exception at any step, a killed process |
| `Hermes` | external: links and deletes the payment accounts it was told to enrol, and takes them out of wallets when told to |

Abstracted: one channel, trusted and requiring an e-mail address; one loyalty plan; the details
of a payment account, which POST may overwrite (`fields_match_existing`) and of which PATCH
changes some or none; the tokens themselves; read-only branches (`on_post` of a refresh token). The UPDATE of an e-mail
and its commit are one step: between them the row is locked and the transaction waits for
nothing. Users are neither deactivated nor deleted.

`MCWallets` gives the starting databases and the requests. `WalletsProofs` holds the theorems.

### Secrets

`Secrets` has a copy of the vault for each process.

| Variable | In the code |
|---|---|
| `access`, `vault`, `registered` | external: the access secrets and the other records of the vault, the client secrets in the database |
| `lapsed` | the time: which versions of a payload key have expired |
| `tokens` | the live tokens: the key named, the secret that signed |
| `cache` | for each process `_local_vault_store` (`vault.py`) and the `lru_cache` of `validate_client_secret` (`auth.py:308`) |
| `seen` | history variable: what a process could have learnt since it started |
| `last` | the answer just given |

| Action | Code |
|---|---|
| `Present` | `AccessToken`, `RefreshToken` with `get_access_token_secret` (`vault.py:81-101`) and its reload; of a refresh token the new tokens are then issued |
| `Issue` | `get_current_token_secret` (`vault.py:68-78`) and the signing of a pair of tokens (`resources/token.py`) |
| `B2BLogin` | `dynamic_get_b2b_token_secret` (`vault.py:120-160`) |
| `BasicLogin`, `Forget` | `validate_client_secret` under its cache, and the cache dropping its oldest answer |
| `Decrypt` | `_get_keypair` (`encryption.py:115-139`) |
| `VaultDown`, `LoginFails` | a reload that raises; a login refused between the two halves |
| `Restart` | `create_app` loads the access secrets (`app.py`) |
| `AddKid`, `Promote`, `RetireKid`, `Store`, `Erase`, `Lapse`, `Register`, `Expire` | external: those who run the system, and the time |

Those who run the system are taken to retire a key only when the tokens signed with it *while it
was current* have expired: they can know when they promoted its successor, not which process has
noticed. Signatures are sound: a token verifies exactly with the secret that signed it.

### Reading a wallet

`WalletViews` holds one request and the wallet it reads. `req.pc` names the next statement;
`got` is what the statements before returned; `answer` is put together at the last. Between two
statements the wallet may change (`EntryChanges`, `HeldChanges`, `OwnerChanges`, `PllChanges`,
up to `MaxChanges`), as at READ COMMITTED every statement sees what is committed when it starts.

| Action | Code (`handlers/wallet.py`) |
|---|---|
| `QueryAllPll`, `QueryPaymentAccounts`, `QuerySchemeAccounts` | the three lists of the whole wallet and of its overview |
| `GetTargetValue` | one further query for each active card (972-986), which ends the request with 404 if it finds nothing |
| `QueryAllImages` | `handlers/helpers/images.py:186`, and the end of the request; `view_wallet_event` (988-993) may fail and then so does the finished answer |
| `QuerySchemeAccount` | the endpoints of one card: transactions, balance, vouchers, and the card itself |
| `QueryCards`, `QueryChannels` | the channels that pay with a linked card |

The pure parts are operators: `State`, `Shows`, `Filtered`, `Processed`, `TargetOf`,
`RewardAvailable`, `FullyLinked`, `HeroImage`, `ImageList`. Texts (amounts, voucher messages,
status descriptions) are left out, as are the images of payment accounts, which take the same
path as those of cards. `WalletViewsProofs` holds the theorems.

### The fields of a plan

`PlanFields` holds a plan, a client that reads it (`FetchQuestions`, `FetchInfo`,
`FetchConsents`, `LookUp`, `Format`: the statements of `handlers/loyalty_plan.py`) and posts one
journey (`Post`: the request schemas of `validators.py`, then `validate_all_credentials` and
`validate_and_refactor_consents` of the journeys' handler), while the plan may be edited
(`Edit`). What is shown (`Fields`, `Journeys`) and what is accepted (`Verdict`) are two
independent translations of two pieces of code; the properties relate them. The values of
answers, the order and the images of plans are left out. `PlanFieldsProofs` holds the theorems.

## 4. Runs

The numbers are distinct states.

| Run | Bounds | Checks | Shows |
|---|---|---|---|
| `adds` | 2 users, 2 workers, 1 key, 1 merchant identifier, 3 requests, empty tables, faults (1.9 million) | `TypeOK`, `EveryLinkAnnounced`, `TrustedCardsDated` | overlapping adds of one card, by any journey, with failures and crashes, forget no link |
| `journeys` | 2 workers, 2 requests among joins, repeated and removed joins, authorisations and deletions, one link in a failed join and one card shared, faults (54 000) | `MessageIntegrity`, `JoinAccountedFor`, `NoOrphanCards`, `JoinTaken`, `KeepsPromise`, `SettlesPromise` | the journeys implement `WalletLinks`, with its liveness; a join is taken up unless its request died |
| `sequential` | 1 worker, 2 users, 2 keys, 2 merchant identifiers, 3 requests, faults (744 000) | `OneCardPerKey`, `OneKeyPerMid`, `OneJoinInFlight` | when requests do not overlap, the application's own uniqueness checks suffice, whatever dies in between |
| `race_remove` | 2 workers, 2 requests | `RemovedAfterFailure`, violated | `delete_join` acts on a status a PUT join has replaced |
| `wallets` | 2 workers, 2 requests among a login, a whole wallet, a payment card added and one deleted, two starting databases, 1 fault, broker down at times (229 000) | `TypeOK`, `HistoryKept`, `OneUserPerExt`, `ConsentKept`, `WalletComplete`, `PaymentAnnounced`, `EveryRequestEnds` | the race of two logins, within long transactions or short ones, ends with one user and its consent; 201 means committed; no history is forgotten; nobody waits in a circle |
| `one_by_one` | 1 worker, 4 requests among logins, changes of address or account details, and wallets, 1 fault (71 000) | `OneUserPerEmail` | the look-ups keep an address to one user as long as requests do not overlap |
| `phantom_history` | 1 worker, 2 requests | `HistoryOfCommittedOnly`, violated | history of rolled-back rows is sent by the next commit |
| `secrets` | 2 processes, 2 access keys, 2 versions of a record, 1 client, 1 payload key, 2 client secrets, 4 changes, 3 live tokens | `TypeOK`, `EveryAnswerOnceTrue`, `NeverSignsEmpty`, `RefusedOnlyIfStale`, `RefusedOnlyIfAbsent` | what stale copies can and cannot do while keys are rotated and processes restart |
| `renewed_key` | 1 process | `RenewedKeyDecrypts`, violated | a renewed payload key stays expired in a process that has used it |
| `reads` | 3 cards (one of a withdrawn plan), 2 payment accounts, 2 users, 4 statuses, three lists of vouchers, 1 change at any point (1.9 million) | `TypeOK`, `RefusedOnlyIfChanged`, `FullyLinkedIfQuiet`, `SameInEveryView`, `TargetOfAShownVoucher`, `RewardIsShown`, `OnlyOldVouchersDropped`, `TierImageShownWithHero` | the views agree, and a wallet is refused only if it changed while it was read |
| `fields` | plans of six kinds and three statuses, 2 answers in a class, 1 edit | `TypeOK`, `FollowedListAccepted`, `OneKeyIfFollowed`, `NoQuestionLost`, `ListRefusedOnlyIfChanged`, `ConsentsAnswered` | what is shown is what is accepted |
| `empty_fields` | the same | `RequiredAnswered`, violated | a join that answers nothing is accepted |

Why the bounds suffice for what they are meant to show: every race in `LoyaltyCards` is between
two requests (each reads once and writes once), so two workers reach every pattern of overlap,
and a third request sees what two left behind. Two users are needed for a card to be shared, two
keys for a switch, and two identifiers for one to be moved. `MaxRows` never blocks an action
(`RoomAssumption`: each request adds at most one row to a table). Ids that were never given out
are not requested. The ids of `Wallets` need no bound of their own: a request inserts at most
six rows. Two workers show every pattern of one transaction waiting for another; a circle of three
would need each to hold a row the next inserts, and all insert in the same order of tables.
`MaxFaults` bounds the exceptions and killed processes of a behaviour: one is enough to strike
every step of every request. Where users, keys, identifiers, processes or workers are
interchangeable the run declares symmetry; the runs with liveness (`journeys`, `wallets`)
declare none. Deadlock is checked: `Terminated` is the only way to stop, when all requests are
answered. `reads` and `fields` do not check it, since a behaviour there is one request (or one
read and one journey) and ends with it.

In `secrets`, `OneThingAtATime` keeps a behaviour to the access keys, or to the other records
and the client secrets of one process: these parts of a copy never meet, and processes meet in
the tokens only. The theorems of section 5 need no such bound. Two keys and four changes are the
shortest rotation in which one process has moved on and the other has not.

In `reads` one change suffices to separate any two statements, and every pair of statements is
separated by it. `MCInit` splits the wallets in two: either the links to payment accounts vary,
or what the card holds. `MAX_INACTIVE` is 1 (10 in the code), so that lists of three reach the
filter. In `fields`, the plans are the kinds `MCPlanFields` names; two answers in one class
allow one too many for every class.

`sequential` leaves `trusted_update` out on purpose: a PUT that keeps the key and changes the
merchant identifier ignores the user's own link when it searches (`exclude_current_user_link`),
so it creates a second card with the same key, without any overlap. With one worker it breaks
`OneKeyPerMid` as well, until Hermes handles the deletion of the old link. It is left out of
this promise, not of the model (`adds` runs it).

`OneJoinInFlight` speaks of cards without a key credential, as nearly all cards that are joined
are. A trusted add that finds a card with its key sets the user's own link ACTIVE (933) whatever
its status, so also when the link waits in 442 for the join just queued. If Hermes then marks it
failed, the user may repeat the join while the first message is still in the queue. With four
requests TLC finds this when the condition is dropped.

### Fairness

`journeys` assumes weak fairness of each worker's `Proceed` (a gunicorn worker that holds a
request goes on executing it, no step of the journeys waits for another process) and of Hermes
taking messages from its queue. It assumes nothing of the arrival of requests or of Hermes
moving statuses by itself, and it runs with faults: workers die and the broker is out of reach
at any step. A worker that dies between its commit and its publish leaves a link in 442 or
unannounced for good; `JoinTaken` and `SettlesPromise` say that this is the only way, and `lost`
records it. `EveryLinkAnnounced` and `JoinAccountedFor` bound that loss exactly: it happens to
the links in `lost`, and to no other.

`wallets` assumes weak fairness of `Proceed` and of `Send`: a worker goes on executing its
request, and a broker that is tried again and again is reached at last. `after_commit_listener`
has no other exit while the broker is down (`db.py:148`), so without the second assumption
`EveryRequestEnds` is false by design of that loop. An insert that waits for another transaction
is not fair by itself: that the wait ends is part of what `EveryRequestEnds` shows.

### What the violations mean

* `race_remove`: "Only allow deletes where the link_status are in a failed join status" (383).
* `phantom_history`: `token.py:276-278` explains that Hermes "exceptions with not found" when it
  hears of a row before the commit; after a rollback it hears of a row that never comes.
* `renewed_key`: saving a key object again "can be useful for updating the expiry date for an
  existing key object" (`cli/commands.py:156-157`); a process reads a key object once
  (`vault.py:106`).
* `empty_fields`: "all available credential questions of this class must have a corresponding
  answer" (680-681). The class is skipped when its list of answers is empty (602, 604), and the
  schemas of register and join accept an empty list. The tests
  (`test_loyalty_card_validation.py:211-230`) try an empty list with a trusted add only, where
  the missing key credential ends the request; a join needs none (618).

Definitions that the code violates and that have no run, since one request or one overlap shows
it plainly:

* `OthersKeepTheirCards` (`LoyaltyCards`): "Remove a failed join request from a wallet"
  (`openapi.yml:697`); line 387 marks the card itself. `UNKNOWN_ERROR`, one of
  `FAILED_JOIN_STATUS`, is also what a failed authorisation or registration of a shared card
  ends in.
* `WalletIsAtomic` (`Wallets`): "The new wallet will not be created" (`resources/wallet.py:205`;
  the test `test_create_trusted.py:492-500` asserts that no row is left, on a wallet whose
  trusted add has nothing to change). `_route_trusted_add` commits the shared session whenever
  it dates the card or activates the link, whatever `self.commit` says.
* `TierImageShown` (`WalletViews`): "If tier image is available return that as the hero image"
  (`handlers/wallet.py:352`). The look-up at 355 raises `KeyError` when no card of the answer
  has a hero image, and `get_image_list` suppresses it (382): the request is answered, and a card
  with an image of its tier is shown without it. `TierImageShownWithHero` is the part that holds.
* `OneKeyPerMid` with two workers: "a unique together relationship which must be validated"
  (766-767) and "this should never happen" (787) rest on a check at 884 and an insert at 1157
  with nothing between them to stop a second request. The same overlap of two plain adds breaks
  `OneCardPerKey`; from then on every request with that key is answered with 500 (861).

More behaviours are visible in the models and have no run of their own:

* In `Wallets`, two users take the same address when their requests overlap: run `one_by_one`
  with two workers and two requests. One external user gets two rows when two first logins with
  different addresses overlap, since the constraint covers the address as well: run
  `OneUserPerExt` with two workers, four requests and `Requests <- Changes`.
* A `create_trusted` that counts nothing as created answers 200 without a commit, but `link()`
  may have flushed a link from the user to an existing payment account, which is then discarded.
  The invariant "`x.status = 200` and `Trusted(x)` imply `HasPayment(x)`" is violated, from an
  empty database, by a wallet of `x1` with `f1`, one of `x2` with the same card and `f2`, and
  one of `x1` with the same card and `f2`.
* `openapi.yml:897` says a card cannot be deleted until its join has completed;
  `handle_delete_join` refuses 441 and 442, `handle_delete_card` (395) only 442.

* After a switch to another card the deletion message carries the old card and the *new* link's
  `entry_id` (216-220, 296-299), and two overlapping PUT joins send two join messages (341-363).
* In `PlanFields`, a request that answers both the manual and the scan question is looked up by
  the one that comes last (608-610), and a consent given twice may take the place of one not
  given: the code compares three counts (642), and `ConsentsAnswered` holds of requests that
  give none twice.
* In `WalletViews`, the transactions of a card that is a join are answered with 404, though the
  comment at 567-569 keeps 404 for cards that are not in the wallet; and a wallet that has been
  read in full is answered with 500 when `view_wallet_event` cannot be sent.

## 5. Proofs

Each theorem holds for any values of the constants that satisfy the named assumptions: any
users, keys, workers, processes, bounds and starting tables, with faults and with Hermes acting
freely.

| Module | Theorem | States |
|---|---|---|
| `LoyaltyCardsProofs` | `Inductive` | `Spec => []IndInv` |
| | `TypeCorrect` | `Spec => []TypeOK` |
| | `Integrity` | `Spec => []MessageIntegrity` |
| | `NoneForgotten` | `Spec => []EveryLinkAnnounced` |
| | `JoinsAccounted` | `Spec => []JoinAccountedFor` |
| `LoyaltyCardsPromise` | `PromiseKept` | `Spec => KeepsPromise`, the refinement of `WalletLinks` |
| `LoyaltyCardsRows` | `NoneOrphaned` | `Spec => []NoOrphanCards` |
| | `TrustedDated` | `Spec => []TrustedCardsDated` |
| `LoyaltyCardsInTurn` | `KeysIdentify` | `InTurn /\ Spec /\ OneCardPerKey => []OneCardPerKey` |
| | `MidsAgree` | `InTurn /\ Spec /\ OneKeyPerMid => []OneKeyPerMid` |
| | `JoinsOneByOne` | `OneWorker /\ Spec => []OneJoinInFlight` |
| `WalletsProofs` | `Inductive` | `Spec => []IInv` |
| | `TypeCorrect` | `Spec => []TypeOK`, with the unique indexes |
| | `HistoryRemembered` | `Spec => []HistoryKept` |
| | `UsersConsented` | `Spec => []ConsentKept` |
| | `AccountsAnnounced` | `Spec => []PaymentAnnounced` |
| | `OneRowPerUser` | `SettledAddresses /\ Spec /\ OneUserPerExt => []OneUserPerExt` |
| | `CreatedWalletsComplete` | `LeftAlone /\ Spec => []WalletComplete` |
| | `OneRowPerAddress` | `OneWorker /\ Spec /\ OneUserPerEmail => []OneUserPerEmail` |
| `SecretsProofs` | `TypeCorrect` | `Spec => []TypeOK` |
| | `AnswersOnceTrue` | `Spec => []EveryAnswerOnceTrue` |
| | `TokensSigned` | `Spec => []NeverSignsEmpty` |
| | `LiveTokensAccepted` | `Spec => []RefusedOnlyIfStale` |
| | `NewKeysFound` | `Spec => []RefusedOnlyIfAbsent` |
| `WalletViewsProofs` | `TypeCorrect` | `Spec => []TypeOK` |
| | `RefusedOnlyAfterChange` | `Spec => []RefusedOnlyIfChanged` |
| | `LinkedToEveryAccount` | `Spec => []FullyLinkedIfQuiet` |
| | `ViewsAgree` | `Spec => []SameInEveryView` |
| | `TierShownAsHero` | `Spec => []TierImageShownWithHero` |
| | `RewardsListed` | `Spec => []RewardIsShown` |
| | `TargetsListed` | `Spec => []TargetOfAShownVoucher` |
| | `OnlyOldDropped` | `Spec => []OnlyOldVouchersDropped` |
| `PlanFieldsProofs` | `TypeCorrect` | `Spec => []TypeOK` |
| | `ListRefusedOnlyAfterEdit` | `Spec => []ListRefusedOnlyIfChanged` |
| | `EveryQuestionShown` | `Spec => []NoQuestionLost` |
| | `ConsentsAsAsked` | `Spec => []ConsentsAnswered` |
| | `OneKeyPosted` | `Spec => []OneKeyIfFollowed` |
| | `FollowedAccepted` | `Spec => []FollowedListAccepted` |

### The journeys

`TypeOK` alone is not inductive: a worker writes to rows it found earlier, so the proof has to
know that what it remembers is still true. `IndInv` adds, for every worker, that a request that
has its link (from `touch`, `update`, `rejoin`, `remove`, `refresh` and `publish` on) names a
row of its own user and of its card, and that its messages fit its journey. The statement holds
over the writes of everybody else because the tables only *grow* (`Grows`): a used row never
becomes unused, and never changes its user or card. So each step is shown to (1) keep the tables
well formed and growing (`InsertPreserves`, `AlterPreserves`), and (2) leave its own worker's
record sound (`FetchMoves`, `RouteMoves`, `WriteMoves`, ...); `SoundStable` carries all the
other records over. Hermes's steps only alter rows (`HermesPreserves`).

`Integrity`, `NoneForgotten` and `JoinsAccounted` then follow the life of a message: the commit
that makes it necessary also makes the request owe it (`NewLink`, `WaitingStep`), a step of that
worker publishes it, keeps owing it or records it as lost (`OwingStep`), and it leaves the queue
only when Hermes handles it (`QueueKept`).

`PromiseKept` shows that every step is a step of one link of `WalletLinks`, or of none. The rows
change by an insertion, a removal or Hermes (`RowStep`, `HermesRowStep`), the words by the
worker that steps (`FocusStep`, `WordStep`): for the one link it is at, the word goes from owed
to told, to lost, or back to owed, never further (`WordChange`). The mapping adds one
strengthening, that Hermes is told only of links that exist (`ToldExist`).

`NoneOrphaned` goes through the writes: a card is made with its first link in one transaction,
`delete_join` marks the card with the link, Hermes with the last link. `TrustedDated` needs that
a card once dated stays so (`DatedStays`), and that a trusted add which passes its second commit
dates the card in it (`DatingOwnStep`).

The assumptions are the ones named in `LoyaltyCards`: the sets are disjoint from `None`, the
bounds are naturals, operations are among the eleven, and the starting tables are well formed,
without dead joins, and with every live card linked. TLC evaluates them in every run.

### One request at a time

The uniqueness of keys and merchant identifiers rests on a search followed by an insert. Hermes
acts between the two whatever the requests do, so the theorems of `LoyaltyCardsInTurn` have to
show that it cannot spoil what the search found. `OneWorker` says that requests do not overlap;
`InTurn` that no request is a trusted update, which does break both properties (section 4). Both
are conditions on the requests, and the starting tables have to satisfy the property themselves.

`SearchesHold` strengthens the invariants: at `create` no visible card has the request's key
(`KeyIsFree`), and from the check of the merchant identifier on no visible card has it with
another key (`MidAgrees`). Other processes keep this because of `SeenOrMade`: a link that is
visible after a step was visible before it, with the same key and identifier, or the worker
that steps has just made it. That in turn needs `NoneOrphaned`: Hermes never brings a card
back, and a card whose links are gone is deleted with them.

For `JoinsOneByOne` a message is followed from the commit of its link to Hermes: `JoinsQueued`
(a join in the queue is the only one of its link, and the link is waiting or gone) and
`JoinsHold` (a request that is to send a join has none of that link in the queue). A link that
waits is left alone by every handler: `put_join` and `delete_join` refuse it, and a trusted add
cannot find a card without a key (`WaitingKept`).

### The wallets

The four invariants speak of committed rows, and none is inductive: a row is made at a flush and
becomes visible at a commit several statements later, perhaps by another handler. So `IInv` says
of the *flushed* rows what has to be true of them when they are committed:

* `Orderly`: the committed rows and those of all open transactions break no unique index
  together, have different ids, and no row is at two places. This is where `Waits` is needed:
  without the wait, two transactions could each flush a row that the other does not see.
* `AllTold`: the creation of every row, flushed or committed, is in a list, sent or lost. The
  list of a process outlives its transaction, so that this survives a rollback (which forgets
  the row and keeps the event: the other side of `phantom_history`).
* `Fits(w)`: a worker's record goes with its step. The ids it keeps name rows it sees;
  `ConsentsFlushed`: an open transaction with a user holds the consent as well, or its worker is
  about to insert it; `OwnersDecided`: one with an owner is at the decision of `create_trusted`,
  so that the commit hidden in the trusted add never carries one, and the commit that does is
  followed by the announcement.
* `AllConsented`, a stronger `ConsentKept`: the user without consent belongs to a login that has
  committed it, not to a `create_trusted`.

A step of worker w is shown to keep its session in order and to leave the others' rows alone
(`SessionKept`), to leave a record that fits, and to honour what it owed (`ConsentsHonoured`,
`EnrolmentsHonoured`); `StepIInv` draws the conclusion once. Its steps are of few kinds:
`AnswerKeeps` (with `RefuseKeeps`), `MoveKeeps`, `InsertKeeps`, `SettleKeeps` (a commit of the
shared transaction) and `ResetKeeps` (a rollback, a dead process). `ExternalKeeps` is for Hermes:
it alters rows only in columns no unique index reads, or closes an account, and the unique index
on owners makes the enrolment it forgets that of the owner it takes out and of no other.

`CreatedWalletsComplete` follows one `create_trusted` over all its statements. `Reached` says what
of its wallet is there at each step, and `todo` what is still to be done to it: the card that was
found without a date gets one two statements later, in a commit of its own (`TouchForward`).
Other workers and Hermes may alter the rows in between, but each row lasts with its date, its
activity and its owner (`Lasts`, `ReachedLasts`). The exception is an owner Hermes takes out; it
is told to only by a request of that owner's user (`RemovesOwn`, which rests on `OwnUser`: the user
a request is about has the external id of its token). `LeftAlone` excludes that request, and has
to: an account that its user takes out again while the answer is on its way is gone.

Two more theorems are about the users alone. `UserStep` says what any step can do to them: leave
them (`UsersStand`), look them up and know what was found (`Found`), insert one (`Joins`) or give
one another address (`Renames`).

* `OneRowPerUser`: the unique constraint covers the external id *together with* the address, so
  it ends the race of two first logins only while both give the same one. `SettledAddresses` is
  that condition on the requests, and the theorem is that it is enough, for any number of workers
  and requests, with faults. The strengthening is `NoOtherAddress`: before its insert a login
  knows of no row, committed or flushed, with its external id and another address. A row flushed
  by another worker is out of its sight, and is known to be that of a login with the same token
  claims (`FlushedOwn`); a row that is renamed is the one of the token (`OwnUser`).
* `OneRowPerAddress`: no index covers the address alone. With one worker the look-up before the
  insert and the one before the update both still hold when they are used (`AddressFree`).

The assumptions are those of `Wallets`: the starting database breaks no unique index and its
users have consented, and the bounds are naturals. Nothing is assumed of the number of workers
and requests, nor of when the broker fails.

### The secrets

The inductive invariant `IInv` joins the five properties to three facts. `SeenNow`: what is true
now is in every process's `seen`, so a copy taken now is true once. `KeptFor`: the vault keeps
the key of every live token that is not stale; this is what the operators' discipline gives.
`AccessRecord`, in `TypeOK`, is the one fact that makes `NeverSignsEmpty` true although the
key's name and the key are looked up one after the other: a record is replaced as a whole, and
each record names a key it holds. One lemma for each action shows that it is preserved
(`NextIInv`).

### The views

What a request has got is what its statements would return now, as long as nothing has changed
since it began: this (`IInv`, with `PllsNow`, `AccountsNow`, `ListedNow`, `RowsNow`) is kept by
every statement, and by every change because a change ends the quiet. An answer is put together
in one step, so each property of answers is proved of that step (`AnswerOutcome` names the steps
that can give one) and kept by the others, which leave the answer alone or erase it.
`RefusedOnlyAfterChange` is the case of the one query that ends a request with 404
(`GetTargetValueStep`): while quiet the card it looks for is there.

The rest is about the operators. `SameInEveryView` compares what the four places make of one row
(`SameStep`). For `FullyLinkedIfQuiet` the code compares two counts (`CountedLinks`): links as
many as accounts, at most one to each, so one to each. The vouchers are sorted
(`NewestFirstSorts`): that a sorting exists is shown without induction, since the rank of a
voucher, the number of those before it, is a bijection onto the positions (`RankBijection`).
`KeptOfOver` counts the vouchers that are over along this order, and so a voucher that was
dropped has `MAX_INACTIVE` younger ones before it. `TargetIsFirst` takes the first voucher in
progress from the well-foundedness of the naturals.

### The fields

Here too nothing a request has taken is stale while the plan is unedited (`NothingStale`). What
a journey is judged by is the plan as it stands when it is posted, and both sides are then
functions of that plan. `EveryQuestionShown` follows a question from its flags to the field it
becomes (`ShownFields`), or to the listed scan question it is the alternative of
(`ScanListed`). `FollowedAccepted` shows that a client which answers each field shown,
once, is accepted: its answers correspond one to one to fields and these to questions
(`InjectiveLength` counts them), the key credential it chose is the only one (`OneKeyPosted`),
and none of the five refusals of `validate_all_credentials` applies (`ValidAnswers`,
`ConsentsGiven`, `AuthoriseGiven`). The code takes of several key answers the last
(`KeyOfAnswer`, `LastIn`: of a finite set of positions, the one with the fewest after it).
`FollowedListAccepted` and `OneKeyIfFollowed` speak of plans that are `Sound` and not edited
between the reading and the journey; `Sound` lists what the two handlers take for granted of
the rows. `NoQuestionLost` speaks of any plan: a manual question is missing from a class only
where the scan question is not asked (`WithoutScan`), which a sound plan does not have.

### Assumptions on the constants of the views and the fields

`AccountsAssumption`: the payment accounts are finitely many, being rows of a table.
`VoucherAssumption`: a stored voucher has a state, a time of issue and a target, and `Now` is a
number (the code sorts by the time of issue). `PlanAssumption`: the questions of a plan are finitely many, of the
form the columns give them, with different `type` and `order`, and at most one of them is a
third-party identifier; `SlugsAssumption`: the consents that can be named are finitely many, and
`NoQuestion` is not the name of a question. TLC evaluates them in every run of these modules.

### Only model-checked

Liveness (`JoinTaken`, `SettlesPromise`, `EveryRequestEnds`) needs `ENABLED` and fairness, which
are beyond the proof system. Every safety property that a passing run checks is also stated by a
theorem, some of them under a condition on the requests which the theorem names.

Some library operators are opaque to the provers (`SortSeq`, whose definition is a recursive
one, and the `@@` and `:>` of `TLC`): the modules with theorems write functions out, and order
vouchers by `InOrder`, which says what a sorted list is.

## 6. Not modelled

* The deletion of a user: one message (`handlers/user.py:51-61`). What Hermes then does to the
  user's rows, and when, is not in this repository.
* Plans: the order of the list, their images, tiers and contents, and the overview and details,
  which carry no fields and no journeys: lists put together from rows, without a decision that a
  property would be about.
* Texts: amounts, balances and vouchers as they are formatted, status descriptions, response
  schemas.
* The cryptography of tokens and payloads, and the claims of tokens other than their key.
* The trap of `mapper_history` (`messaging/sender.py:102-106`), which leaves a row without history
  when an event cannot be put together: every request that writes a watched row is authenticated
  and has what the event needs, so none takes that way.
* Wiring, logging, metrics, probes and commands keep no state that interleaves with anything.
