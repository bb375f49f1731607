---------------------------- MODULE LoyaltyCards ----------------------------
(***************************************************************************)
(* The loyalty card journeys of angelia/handlers/loyalty_card.py, run by   *)
(* several gunicorn workers against one Postgres database that Hermes      *)
(* shares, and the queue of messages they leave for Hermes.                *)
(*                                                                         *)
(* A worker serves one request at a time.  Its steps are the points where  *)
(* the code reaches outside the process: a query, a commit, a publish.     *)
(* What a query returned is kept in the worker's record and used by later  *)
(* steps however the tables have changed meanwhile: the sessions run at    *)
(* READ COMMITTED and take no row lock.                                    *)
(*                                                                         *)
(* One loyalty plan is modelled: every query filters on scheme_id, so the  *)
(* plans do not interact.                                                  *)
(***************************************************************************)
EXTENDS LoyaltyCardStatus, Sequences, FiniteSets, Bags

CONSTANTS
    Users,          \* authenticated users
    Keys,           \* key credentials (card_number, barcode, alt_main_answer)
    Mids,           \* merchant identifiers, given by trusted channels only
    None,           \* no user, an empty key or an empty merchant identifier
    Workers,        \* processes serving requests
    Ops,            \* the endpoints that are called
    MaxRows,        \* bound: rows of each table
    MaxRequests,    \* bound: requests served in one behaviour
    InitialTables,  \* the database as earlier requests left it
    HermesStatuses, \* the statuses Hermes gives to an entry
    Faults          \* whether a request may raise or its worker may die

CardIds == 1..MaxRows
EntryIds == 1..MaxRows

(***************************************************************************)
(* The endpoints.                                                          *)
(***************************************************************************)
AllOps == {"add", "trusted_add", "add_auth", "add_register", "join",
           "authorise", "trusted_update", "register", "put_join",
           "delete", "delete_join"}

(***************************************************************************)
(* A row of scheme_schemeaccount.  "dated" stands for link_date or         *)
(* join_date being set.  Rows are never removed, only marked is_deleted.   *)
(***************************************************************************)
CardRow ==
    [state : {"unused", "live", "deleted"},
     key   : Keys \cup {None},
     mid   : Mids \cup {None},
     dated : BOOLEAN]

UnusedCard == [state |-> "unused", key |-> None, mid |-> None, dated |-> FALSE]

(***************************************************************************)
(* A row of ubiquity_schemeaccountentry (SchemeAccountUserAssociation).    *)
(* A removed row stays as "gone": its id is never given out again.         *)
(***************************************************************************)
EntryRow ==
    [state  : {"unused", "live", "gone"},
     card   : CardIds \cup {0},
     user   : Users \cup {None},
     status : Statuses]

UnusedEntry == [state |-> "unused", card |-> 0, user |-> None, status |-> PENDING]

(***************************************************************************)
(* The paths (X-http-path) of the messages to Hermes.  An announcement is  *)
(* the message that tells Hermes to start work on an entry.                *)
(***************************************************************************)
Announcements ==
    {"loyalty_card_add", "loyalty_card_trusted_add", "loyalty_card_add_auth",
     "loyalty_card_add_and_register", "loyalty_card_join"}

Paths == Announcements \cup
    {"loyalty_card_trusted_add_success_event", "add_auth_request_event",
     "add_auth_outcome_event", "loyalty_card_register", "delete_loyalty_card",
     "add_trusted_failed"}

Message ==
    [path : Paths, card : CardIds \cup {0}, entry : EntryIds \cup {0}, user : Users]

(***************************************************************************)
(* What a worker holds of the request it serves: the fields of             *)
(* LoyaltyCardHandler that survive from one step to the next.  "card" and  *)
(* "entry" are self.card_id and self.link_to_user.id, "old" is old_card_id,*)
(* "todo" is what _route_trusted_add found to change on an existing link,  *)
(* "out" the paths still to be published.                                  *)
(***************************************************************************)
Request ==
    [pc    : {"idle", "fetch", "mid", "lookup", "create", "link", "touch",
              "update", "rejoin", "remove", "refresh", "publish", "failed"},
     op    : Ops \cup {"none"},
     user  : Users \cup {None},
     key   : Keys \cup {None},
     mid   : Mids \cup {None},
     card  : CardIds \cup {0},
     old   : CardIds \cup {0},
     entry : EntryIds \cup {0},
     todo  : SUBSET {"activate", "date"},
     out   : Seq(Paths)]

Idle == [pc |-> "idle", op |-> "none", user |-> None, key |-> None, mid |-> None,
         card |-> 0, old |-> 0, entry |-> 0, todo |-> {}, out |-> <<>>]

WellFormed(t) ==
    /\ t.cards \in [CardIds -> CardRow]
    /\ t.entries \in [EntryIds -> EntryRow]
    /\ \A e \in EntryIds : t.entries[e].state # "unused" =>
         /\ t.entries[e].user \in Users
         /\ t.entries[e].card \in CardIds
         /\ t.cards[t.entries[e].card].state # "unused"
    /\ \A d, e \in EntryIds :
         /\ t.entries[d].state = "live" /\ t.entries[e].state = "live"
         /\ t.entries[d].card = t.entries[e].card
         /\ t.entries[d].user = t.entries[e].user
         => d = e

ASSUME NoneAssumption == None \notin Users \cup Keys \cup Mids
ASSUME BoundsAssumption == MaxRows \in Nat /\ MaxRequests \in Nat
ASSUME OpsAssumption == Ops \subseteq AllOps
ASSUME FaultsAssumption == Faults \in BOOLEAN
ASSUME HermesAssumption ==
    HermesStatuses \subseteq Statuses \ {JOIN_ASYNC_IN_PROGRESS}
ASSUME TablesAssumption ==
    \A t \in InitialTables :
        /\ WellFormed(t)
        /\ \A e \in EntryIds : t.entries[e].status # JOIN_ASYNC_IN_PROGRESS
        /\ \A c \in CardIds : t.cards[c].state = "live" =>
             \E e \in EntryIds : t.entries[e].state = "live" /\ t.entries[e].card = c
\* The bound on rows never gets in the way of a request: each inserts at most
\* one row into each table.
ASSUME RoomAssumption ==
    \A t \in InitialTables :
        /\ Cardinality({c \in CardIds : t.cards[c].state # "unused"}) + MaxRequests <= MaxRows
        /\ Cardinality({e \in EntryIds : t.entries[e].state # "unused"}) + MaxRequests <= MaxRows

VARIABLES
    cards,    \* the table of loyalty cards
    entries,  \* the table of links between a card and a user
    bus,      \* the messages published and not yet handled by Hermes
    ctx,      \* what each worker is doing
    served,   \* number of requests received so far
    told,     \* history: entries some announcement was published for
    lost      \* history: announcements owed when a request died

vars == <<cards, entries, bus, ctx, served, told, lost>>
tables == <<cards, entries>>
history == <<told, lost>>

Init ==
    /\ \E t \in InitialTables :
         /\ cards = t.cards
         /\ entries = t.entries
         /\ told = {e \in EntryIds : t.entries[e].state # "unused"}
    /\ bus = EmptyBag
    /\ ctx = [w \in Workers |-> Idle]
    /\ served = 0
    /\ lost = {}

-----------------------------------------------------------------------------
(* Ends of a request *)

(***************************************************************************)
(* The announcements an unfinished request still owes for its entry.       *)
(***************************************************************************)
Owed(x) == {<<x.entry, p>> : p \in {x.out[i] : i \in DOMAIN x.out} \cap Announcements}

(***************************************************************************)
(* A failing POST add_trusted reports to Hermes (FailureEventMiddleware);  *)
(* every other failing request only answers.                               *)
(***************************************************************************)
Failing(x) ==
    IF x.op = "trusted_add" /\ x.pc # "failed"
    THEN [Idle EXCEPT !.pc = "failed", !.op = x.op, !.user = x.user,
                      !.card = x.card, !.out = <<"add_trusted_failed">>]
    ELSE Idle

Goto(w, x) == ctx' = [ctx EXCEPT ![w] = x]
Finish(w) == Goto(w, Idle)
Fail(w) == Goto(w, Failing(ctx[w]))

\* Mutant: only the first message of a journey is sent.
SpentOnce(x, pc, out) == [x EXCEPT !.pc = pc, !.key = None, !.mid = None,
                                   !.todo = {}, !.out = <<out[1]>>]

(***************************************************************************)
(* Once the tables are written only the messages are left to send.         *)
(***************************************************************************)
Spent(x, pc, out) == [x EXCEPT !.pc = pc, !.key = None, !.mid = None,
                               !.todo = {}, !.out = out]

-----------------------------------------------------------------------------
(* Receiving a request *)

Posts == {"add", "trusted_add", "add_auth", "add_register", "join"}

(***************************************************************************)
(* The key credential, merchant identifier and card id that come with each *)
(* endpoint; only authorise may leave its key credential out.  An id never *)
(* given out is answered with 404 and left out here.                       *)
(***************************************************************************)
Admissible(op, k, m, c) ==
    /\ op \in {"add", "trusted_add", "add_auth", "add_register", "trusted_update"} => k # None
    /\ op \in {"join", "register", "put_join", "delete", "delete_join"} => k = None
    /\ op \in {"trusted_add", "trusted_update"} <=> m # None
    /\ IF op \in Posts THEN c = 0 ELSE c # 0 /\ cards[c].state # "unused"

FirstStep(op) ==
    CASE op = "join" -> "create"
      [] op = "trusted_add" -> "mid"
      [] op \in {"add", "add_auth", "add_register"} -> "lookup"
      [] OTHER -> "fetch"

Started(op, u, k, m, c) ==
    [pc |-> FirstStep(op), op |-> op, user |-> u, key |-> k, mid |-> m,
     card |-> c, old |-> 0, entry |-> 0, todo |-> {}, out |-> <<>>]

Receive(w) ==
    /\ ctx[w].pc = "idle"
    /\ served < MaxRequests
    /\ served' = served + 1
    /\ \E u \in Users, op \in Ops, k \in Keys \cup {None}, m \in Mids \cup {None},
          c \in CardIds \cup {0} :
         /\ Admissible(op, k, m, c)
         /\ Goto(w, Started(op, u, k, m, c))
    /\ UNCHANGED <<tables, bus, history>>

-----------------------------------------------------------------------------
(* Queries *)

(***************************************************************************)
(* Every query joins the two tables and drops deleted cards: a card nobody *)
(* is linked to is not seen.                                               *)
(***************************************************************************)
Visible(e) ==
    /\ entries[e].state = "live"
    /\ cards[entries[e].card].state = "live"

CardOf(e) == cards[entries[e].card]

(***************************************************************************)
(* The updates ignore the user's own link to the card in the URI.          *)
(***************************************************************************)
Excluded(x) == IF x.op = "trusted_update" THEN {x.entry} ELSE {}

\* Mutants: the search stays within the user's own cards.
ByKeyOfUser(x) == {e \in EntryIds \ Excluded(x) :
                     Visible(e) /\ CardOf(e).key = x.key /\ entries[e].user = x.user}
ByMidOfUser(x) == {e \in EntryIds \ Excluded(x) :
                     Visible(e) /\ CardOf(e).mid = x.mid /\ entries[e].user = x.user}

ByKey(x) == {e \in EntryIds \ Excluded(x) : Visible(e) /\ CardOf(e).key = x.key}
ByMid(x) == {e \in EntryIds \ Excluded(x) : Visible(e) /\ CardOf(e).mid = x.mid}

Fetches(w, op, e) ==
    /\ ctx[w].pc = "fetch" /\ ctx[w].op = op
    /\ Visible(e) /\ entries[e].card = ctx[w].card /\ entries[e].user = ctx[w].user

NotFound(w) ==
    /\ ctx[w].pc = "fetch"
    /\ \A e \in EntryIds : ~Fetches(w, ctx[w].op, e)
    /\ Finish(w)
    /\ UNCHANGED <<tables, bus, served, history>>

Reads(w) == UNCHANGED <<tables, bus, served, history>>

Authorise(w, e) ==
    /\ Fetches(w, "authorise", e)
    /\ LET x == [ctx[w] EXCEPT !.entry = e] IN
       \/ /\ x.key \in {None, CardOf(e).key}
          /\ \E matching \in BOOLEAN :
               Goto(w, Spent(x, "publish", <<"add_auth_request_event",
                   IF matching THEN "add_auth_outcome_event"
                               ELSE "loyalty_card_add_auth">>))
       \/ /\ x.key \notin {None, CardOf(e).key}
          /\ Goto(w, [x EXCEPT !.pc = "lookup", !.old = x.card])
    /\ Reads(w)

TrustedUpdate(w, e) ==
    /\ Fetches(w, "trusted_update", e)
    /\ LET x == ctx[w] IN
       IF CardOf(e).key = x.key /\ CardOf(e).mid = x.mid
       THEN Finish(w)
       ELSE Goto(w, [x EXCEPT !.pc = "mid", !.entry = e, !.old = x.card])
    /\ Reads(w)

Register(w, e) ==
    /\ Fetches(w, "register", e)
    /\ IF entries[e].status \in {WALLET_ONLY} \cup REGISTRATION_FAILED_STATES
       THEN Goto(w, Spent([ctx[w] EXCEPT !.entry = e], "publish",
                          <<"loyalty_card_register">>))
       ELSE Finish(w)
    /\ Reads(w)

\* Mutant: the status is not looked at.
PutJoinUnchecked(w, e) ==
    /\ Fetches(w, "put_join", e)
    /\ Goto(w, [ctx[w] EXCEPT !.entry = e, !.pc = "rejoin"])
    /\ Reads(w)

PutJoin(w, e) ==
    /\ Fetches(w, "put_join", e)
    /\ IF entries[e].status \in JOIN_FAILED_STATES \ JOIN_PENDING_STATES
       THEN Goto(w, [ctx[w] EXCEPT !.entry = e, !.pc = "rejoin"])
       ELSE Finish(w)
    /\ Reads(w)

DeleteJoin(w, e) ==
    /\ Fetches(w, "delete_join", e)
    /\ IF entries[e].status \in FAILED_JOIN_STATUS \ JOIN_PENDING_STATES
       THEN Goto(w, [ctx[w] EXCEPT !.entry = e, !.pc = "remove"])
       ELSE Finish(w)
    /\ Reads(w)

Delete(w, e) ==
    /\ Fetches(w, "delete", e)
    /\ IF entries[e].status # JOIN_ASYNC_IN_PROGRESS
       THEN Goto(w, Spent([ctx[w] EXCEPT !.entry = e], "publish",
                          <<"delete_loyalty_card">>))
       ELSE Finish(w)
    /\ Reads(w)

CheckMid(w) ==
    /\ ctx[w].pc = "mid"
    /\ IF {CardOf(e).key : e \in ByMid(ctx[w])} \subseteq {ctx[w].key}
       THEN Goto(w, [ctx[w] EXCEPT !.pc = "lookup"])
       ELSE Fail(w)
    /\ Reads(w)

-----------------------------------------------------------------------------
(* _route_journeys, on the rows found by the key credential *)

NoCardRoute(w) ==
    /\ ctx[w].pc = "lookup"
    /\ ByKey(ctx[w]) = {}
    /\ Goto(w, [ctx[w] EXCEPT !.pc = "create"])
    /\ Reads(w)

ManyCardsRoute(w) ==
    /\ ctx[w].pc = "lookup"
    /\ \E d, e \in ByKey(ctx[w]) : entries[d].card # entries[e].card
    /\ Fail(w)
    /\ Reads(w)

(***************************************************************************)
(* _single_card_route: exactly card c is found.  Own are the rows of this  *)
(* user among those found (at most one: the database keeps them unique).   *)
(***************************************************************************)
SingleCard(w, c) ==
    /\ ctx[w].pc = "lookup"
    /\ {entries[e].card : e \in ByKey(ctx[w])} = {c}

Own(x) == {e \in ByKey(x) : entries[e].user = x.user}

AddRoute(w, c) ==
    /\ SingleCard(w, c)
    /\ ctx[w].op \in {"add", "add_register"}
    /\ IF Own(ctx[w]) = {} THEN Goto(w, [ctx[w] EXCEPT !.pc = "link", !.card = c])
                           ELSE Fail(w)
    /\ Reads(w)

AddAndAuthoriseRoute(w, c) ==
    /\ SingleCard(w, c)
    /\ ctx[w].op \in {"add_auth", "authorise"}
    /\ \/ Own(ctx[w]) = {} /\ Goto(w, [ctx[w] EXCEPT !.pc = "link", !.card = c])
       \/ \E e \in Own(ctx[w]) :
            IF ctx[w].op = "add_auth" /\ entries[e].status \in AUTH_IN_PROGRESS
            THEN Goto(w, Spent([ctx[w] EXCEPT !.card = c, !.entry = e],
                               "publish", <<"add_auth_request_event">>))
            ELSE Finish(w)
    /\ Reads(w)

(***************************************************************************)
(* A request that changes nothing: POST still announces the card, PUT does *)
(* not (created is False, so no message is sent).                          *)
(***************************************************************************)
Unchanged(x, pc) == IF x.op = "trusted_add"
                    THEN Spent(x, pc, <<"loyalty_card_trusted_add">>)
                    ELSE Idle

\* Mutant: an existing link is activated and its card left undated.
TodoStatusOnly(e, c) == {t \in {"activate"} : entries[e].status # ACTIVE}

Todo(e, c) == {t \in {"activate", "date"} :
                 IF t = "activate" THEN entries[e].status # ACTIVE ELSE ~cards[c].dated}

TrustedAddRoute(w, c) ==
    /\ SingleCard(w, c)
    /\ ctx[w].op \in {"trusted_add", "trusted_update"}
    /\ IF cards[c].mid \notin {None, ctx[w].mid}
       THEN Goto(w, Failing([ctx[w] EXCEPT !.card = c]))
       ELSE \/ Own(ctx[w]) = {} /\ Goto(w, [ctx[w] EXCEPT !.pc = "link", !.card = c])
            \/ \E e \in Own(ctx[w]) :
                 LET x == [ctx[w] EXCEPT !.card = c, !.entry = e, !.todo = Todo(e, c)]
                 IN Goto(w, IF x.todo = {} THEN Unchanged(x, "publish")
                                           ELSE [x EXCEPT !.pc = "update"])
    /\ Reads(w)

-----------------------------------------------------------------------------
(* Transactions that write *)

FreshCard(c) ==
    /\ cards[c].state = "unused"
    /\ \A d \in CardIds : cards[d].state = "unused" => c <= d

FreshEntry(e) ==
    /\ entries[e].state = "unused"
    /\ \A d \in EntryIds : entries[d].state = "unused" => e <= d

NewStatus(op) ==
    CASE op = "add" -> WALLET_ONLY
      [] op \in {"trusted_add", "trusted_update"} -> ACTIVE
      [] op = "join" -> JOIN_ASYNC_IN_PROGRESS
      [] OTHER -> PENDING

(***************************************************************************)
(* What each journey publishes once its new link is committed.             *)
(***************************************************************************)
Onward(op) ==
    CASE op = "add" -> <<"loyalty_card_add">>
      [] op = "trusted_add" -> <<"loyalty_card_trusted_add",
                                 "loyalty_card_trusted_add_success_event">>
      [] op = "add_auth" -> <<"add_auth_request_event", "loyalty_card_add_auth">>
      [] op = "add_register" -> <<"loyalty_card_add_and_register">>
      [] op = "join" -> <<"loyalty_card_join">>
      [] op = "authorise" -> <<"delete_loyalty_card", "add_auth_request_event",
                               "loyalty_card_add_auth">>
      [] op = "trusted_update" -> <<"delete_loyalty_card", "add_auth_request_event",
                                    "loyalty_card_trusted_add">>
      [] OTHER -> <<>>

IsTrusted(x) == x.op \in {"trusted_add", "trusted_update"}

InsertEntry(e, c, x) ==
    entries' = [entries EXCEPT ![e] =
        [state |-> "live", card |-> c, user |-> x.user, status |-> NewStatus(x.op)]]

(***************************************************************************)
(* create_new_loyalty_card: the card and its first link, in one commit.    *)
(***************************************************************************)
CreateCard(w) ==
    /\ ctx[w].pc = "create"
    /\ \E c \in CardIds, e \in EntryIds :
         /\ FreshCard(c) /\ FreshEntry(e)
         /\ cards' = [cards EXCEPT ![c] =
              [state |-> "live", key |-> ctx[w].key, mid |-> ctx[w].mid,
               dated |-> IsTrusted(ctx[w])]]
         /\ InsertEntry(e, c, ctx[w])
         /\ Goto(w, Spent([ctx[w] EXCEPT !.card = c, !.entry = e],
                          "refresh", Onward(ctx[w].op)))
    /\ UNCHANGED <<bus, served, history>>

\* Mutant: the table has no unique index.
NeverLinked(x) == FALSE

(***************************************************************************)
(* link_account_to_user on an existing card.  The unique index on          *)
(* (scheme_account_id, user_id) refuses a second link; is_deleted is not   *)
(* looked at again.                                                        *)
(***************************************************************************)
AlreadyLinked(x) ==
    \E e \in EntryIds : /\ entries[e].state = "live"
                        /\ entries[e].card = x.card /\ entries[e].user = x.user

LinkCard(w) ==
    /\ ctx[w].pc = "link"
    /\ \/ /\ AlreadyLinked(ctx[w])
          /\ Fail(w)
          /\ UNCHANGED entries
       \/ /\ ~AlreadyLinked(ctx[w])
          /\ \E e \in EntryIds :
               /\ FreshEntry(e)
               /\ InsertEntry(e, ctx[w].card, ctx[w])
               /\ Goto(w, Spent([ctx[w] EXCEPT !.entry = e],
                                IF IsTrusted(ctx[w]) THEN "touch" ELSE "refresh",
                                Onward(ctx[w].op)))
    /\ UNCHANGED <<cards, bus, served, history>>

(***************************************************************************)
(* _route_trusted_add after a new link: the card is read again and dated   *)
(* in a second transaction.                                                *)
(***************************************************************************)
TouchCard(w) ==
    /\ ctx[w].pc = "touch"
    /\ cards' = [cards EXCEPT ![ctx[w].card].dated = TRUE]
    /\ Goto(w, [ctx[w] EXCEPT !.pc = "refresh"])
    /\ UNCHANGED <<entries, bus, served, history>>

(***************************************************************************)
(* _route_trusted_add on a link the user already has.  Updating a row that *)
(* has gone raises, and nothing is written.                                *)
(***************************************************************************)
UpdateLink(w) ==
    /\ ctx[w].pc = "update"
    /\ LET x == ctx[w] IN
       IF "activate" \in x.todo /\ entries[x.entry].state # "live"
       THEN Fail(w) /\ UNCHANGED tables
       ELSE /\ entries' = [entries EXCEPT ![x.entry].status =
                             IF "activate" \in x.todo THEN ACTIVE ELSE @]
            /\ cards' = [cards EXCEPT ![x.card].dated = @ \/ "date" \in x.todo]
            /\ Goto(w, Unchanged(x, "refresh"))
    /\ UNCHANGED <<bus, served, history>>

\* Mutant: the status is committed and the message forgotten.
RejoinSilently(w) ==
    /\ ctx[w].pc = "rejoin"
    /\ entries' = [entries EXCEPT ![ctx[w].entry].status =
                     IF entries[ctx[w].entry].state = "live"
                     THEN JOIN_ASYNC_IN_PROGRESS ELSE @]
    /\ Finish(w)
    /\ UNCHANGED <<cards, bus, served, history>>

(***************************************************************************)
(* handle_put_join: UPDATE ... WHERE id, whatever the status is by now; no *)
(* row is changed when the link has gone.                                  *)
(***************************************************************************)
Rejoin(w) ==
    /\ ctx[w].pc = "rejoin"
    /\ entries' = [entries EXCEPT ![ctx[w].entry].status =
                     IF entries[ctx[w].entry].state = "live"
                     THEN JOIN_ASYNC_IN_PROGRESS ELSE @]
    /\ Goto(w, Spent(ctx[w], "refresh", <<"loyalty_card_join">>))
    /\ UNCHANGED <<cards, bus, served, history>>

\* Mutant: the link is removed and the card left live.
RemoveLinkOnly(w) ==
    /\ ctx[w].pc = "remove"
    /\ entries' = [entries EXCEPT ![ctx[w].entry].state = "gone"]
    /\ Finish(w)
    /\ UNCHANGED <<cards, bus, served, history>>

(***************************************************************************)
(* handle_delete_join: the card itself is marked deleted and the link      *)
(* removed.                                                                *)
(***************************************************************************)
Remove(w) ==
    /\ ctx[w].pc = "remove"
    /\ cards' = [cards EXCEPT ![ctx[w].card].state = "deleted"]
    /\ entries' = [entries EXCEPT ![ctx[w].entry].state = "gone"]
    /\ Finish(w)
    /\ UNCHANGED <<bus, served, history>>

-----------------------------------------------------------------------------
(* Messages to Hermes *)

\* Mutant: the row is read again until it is there.
RefreshWaits(w) ==
    /\ ctx[w].pc = "refresh"
    /\ entries[ctx[w].entry].state = "live"
    /\ Goto(w, [ctx[w] EXCEPT !.pc = "publish"])
    /\ UNCHANGED <<tables, bus, served, history>>

(***************************************************************************)
(* A commit expires the session's objects, so the first use of             *)
(* self.link_to_user.id reads the row again and raises when it has gone.   *)
(***************************************************************************)
Refresh(w) ==
    /\ ctx[w].pc = "refresh"
    /\ IF entries[ctx[w].entry].state = "live"
       THEN Goto(w, [ctx[w] EXCEPT !.pc = "publish"]) /\ UNCHANGED lost
       ELSE Fail(w) /\ lost' = lost \cup Owed(ctx[w])
    /\ UNCHANGED <<tables, bus, served, told>>

\* Mutant: every message of a switch is sent with the old card.
MessageOfOldCard(x) ==
    [path |-> Head(x.out), user |-> x.user, entry |-> x.entry,
     card |-> IF x.old # 0 THEN x.old ELSE x.card]

(***************************************************************************)
(* _hermes_messaging_data: a card deletion that follows a switch to        *)
(* another card has only its loyalty_card_id set back to the old card.     *)
(***************************************************************************)
MessageOf(x) ==
    [path |-> Head(x.out), user |-> x.user, entry |-> x.entry,
     card |-> IF Head(x.out) = "delete_loyalty_card" /\ x.old # 0
              THEN x.old ELSE x.card]

Publish(w) ==
    /\ ctx[w].pc \in {"publish", "failed"}
    /\ LET x == ctx[w] IN
       /\ bus' = bus (+) SetToBag({MessageOf(x)})
       /\ told' = told \cup (IF Head(x.out) \in Announcements THEN {x.entry} ELSE {})
       /\ Goto(w, IF Len(x.out) = 1 THEN Idle ELSE [x EXCEPT !.out = Tail(@)])
    /\ UNCHANGED <<tables, served, lost>>

-----------------------------------------------------------------------------
(* Faults *)

(***************************************************************************)
(* Any step may raise instead (a validation error, a DatabaseError, the    *)
(* broker out of reach): what is committed stays, what is in the outbox is *)
(* dropped.                                                                *)
(***************************************************************************)
Abort(w) ==
    /\ Faults
    /\ ctx[w].pc # "idle"
    /\ Fail(w)
    /\ lost' = lost \cup Owed(ctx[w])
    /\ UNCHANGED <<tables, bus, served, told>>

(***************************************************************************)
(* The worker process dies; its replacement knows nothing of the request.  *)
(***************************************************************************)
Crash(w) ==
    /\ Faults
    /\ ctx[w].pc # "idle"
    /\ Finish(w)
    /\ lost' = lost \cup Owed(ctx[w])
    /\ UNCHANGED <<tables, bus, served, told>>

-----------------------------------------------------------------------------
(* Hermes, as far as the code depends on it (external) *)

HermesRemovesLink(c, u) ==
    LET own == {e \in EntryIds : /\ entries[e].state = "live"
                                 /\ entries[e].card = c /\ entries[e].user = u}
        others == {e \in EntryIds \ own : entries[e].state = "live" /\ entries[e].card = c}
    IN /\ entries' = [e \in EntryIds |->
                        IF e \in own THEN [entries[e] EXCEPT !.state = "gone"]
                                     ELSE entries[e]]
       /\ cards' = IF others = {} THEN [cards EXCEPT ![c].state = "deleted"] ELSE cards

HermesHandles(m) ==
    /\ m \in BagToSet(bus)
    /\ bus' = bus (-) SetToBag({m})
    /\ \/ /\ m.path = "delete_loyalty_card"
          /\ HermesRemovesLink(m.card, m.user)
       \/ /\ m.path = "loyalty_card_join"
          /\ \E s \in HermesStatuses :
               entries' = [entries EXCEPT ![m.entry].status =
                             IF entries[m.entry].state = "live" THEN s ELSE @]
          /\ UNCHANGED cards
       \/ /\ m.path \notin {"delete_loyalty_card", "loyalty_card_join"}
          /\ UNCHANGED tables
    /\ UNCHANGED <<ctx, served, history>>

(***************************************************************************)
(* Hermes moves a link to any status of its own accord (an answer from the *)
(* merchant, a balance refresh); a join it was not told of stays as it is. *)
(***************************************************************************)
HermesUpdates(e, s) ==
    /\ entries[e].state = "live"
    /\ entries[e].status \notin {JOIN_ASYNC_IN_PROGRESS, s}
    /\ entries' = [entries EXCEPT ![e].status = s]
    /\ UNCHANGED <<cards, bus, ctx, served, history>>

-----------------------------------------------------------------------------

Fetch(w) ==
    \/ NotFound(w)
    \/ \E e \in EntryIds : \/ Authorise(w, e) \/ TrustedUpdate(w, e) \/ Register(w, e)
                           \/ PutJoin(w, e) \/ DeleteJoin(w, e) \/ Delete(w, e)

Route(w) ==
    \/ NoCardRoute(w)
    \/ ManyCardsRoute(w)
    \/ \E c \in CardIds : AddRoute(w, c) \/ AddAndAuthoriseRoute(w, c) \/ TrustedAddRoute(w, c)

Write(w) ==
    CreateCard(w) \/ LinkCard(w) \/ TouchCard(w) \/ UpdateLink(w) \/ Rejoin(w) \/ Remove(w)

Proceed(w) == Fetch(w) \/ CheckMid(w) \/ Route(w) \/ Write(w) \/ Refresh(w) \/ Publish(w)

Hermes ==
    \/ \E m \in BagToSet(bus) : HermesHandles(m)
    \/ \E e \in EntryIds, s \in HermesStatuses : HermesUpdates(e, s)

(***************************************************************************)
(* All requests of the bounded behaviour are answered and handled.         *)
(***************************************************************************)
Terminated ==
    /\ served = MaxRequests
    /\ \A w \in Workers : ctx[w].pc = "idle"
    /\ UNCHANGED vars

Next ==
    \/ \E w \in Workers : Receive(w) \/ Proceed(w) \/ Abort(w) \/ Crash(w)
    \/ Hermes
    \/ Terminated

Spec == Init /\ [][Next]_vars

(***************************************************************************)
(* Fairness: a worker that holds a request goes on with it (no step waits  *)
(* for another), and Hermes goes on reading its queue.                     *)
(***************************************************************************)
Fairness ==
    /\ \A w \in Workers : WF_vars(Proceed(w))
    /\ WF_vars(\E m \in BagToSet(bus) : HermesHandles(m))

FairSpec == Spec /\ Fairness

-----------------------------------------------------------------------------
(* Properties *)

(***************************************************************************)
(* The types, and the unique index on (card, user).                        *)
(***************************************************************************)
TypeOK ==
    /\ WellFormed([cards |-> cards, entries |-> entries])
    /\ ctx \in [Workers -> Request]
    /\ IsABag(bus) /\ BagToSet(bus) \subseteq Message
    /\ served \in 0..MaxRequests
    /\ told \subseteq EntryIds
    /\ lost \subseteq EntryIds \X Announcements

(***************************************************************************)
(* Hermes is never sent the name of something that is not in the tables:   *)
(* every message is about a link that was committed before, of the user    *)
(* who made the request, and (a deletion apart) of the card it names.      *)
(***************************************************************************)
NamesCommittedLink(m) ==
    \/ m.path = "add_trusted_failed"
    \/ /\ m.entry \in EntryIds
       /\ entries[m.entry].state # "unused"
       /\ entries[m.entry].user = m.user
       /\ m.path # "delete_loyalty_card" => entries[m.entry].card = m.card

MessageIntegrity == \A m \in BagToSet(bus) : NamesCommittedLink(m)

(***************************************************************************)
(* A message p about entry e is owed by a running request.                 *)
(***************************************************************************)
Owing(e, p) == \E w \in Workers : <<e, p>> \in Owed(ctx[w])

(***************************************************************************)
(* No link is committed and forgotten: it has been announced to Hermes, or *)
(* a running request is about to, or that request died on the way.         *)
(***************************************************************************)
EveryLinkAnnounced ==
    \A e \in EntryIds : entries[e].state # "unused" =>
        \/ e \in told
        \/ \E p \in Announcements : Owing(e, p) \/ <<e, p>> \in lost

(***************************************************************************)
(* A link waiting for its join (no endpoint lets go of it in that state)   *)
(* has its join message in the queue, or about to be put there, or lost    *)
(* with the request that owed it.                                          *)
(***************************************************************************)
JoinQueued(e) == \E m \in BagToSet(bus) : m.path = "loyalty_card_join" /\ m.entry = e

JoinAccountedFor ==
    \A e \in EntryIds :
        entries[e].state = "live" /\ entries[e].status = JOIN_ASYNC_IN_PROGRESS =>
            \/ JoinQueued(e)
            \/ Owing(e, "loyalty_card_join")
            \/ <<e, "loyalty_card_join">> \in lost

(***************************************************************************)
(* No live card is without a live link: the queries could not see it, and  *)
(* the next request with its key would make a second one.                  *)
(***************************************************************************)
Linked(c) == \E e \in EntryIds : entries[e].state = "live" /\ entries[e].card = c

NoOrphanCards == \A c \in CardIds : cards[c].state = "live" => Linked(c)

(***************************************************************************)
(* When a trusted channel's add gets as far as its messages, the card it   *)
(* added has a link date (set with the card, or by the second transaction  *)
(* of _route_trusted_add).                                                 *)
(***************************************************************************)
TrustedCardsDated ==
    \A w \in Workers : ctx[w].op = "trusted_add" /\ ctx[w].pc = "publish" =>
        cards[ctx[w].card].dated

(***************************************************************************)
(* One request after another, a key credential identifies one card.        *)
(***************************************************************************)
OneCardPerKey ==
    \A d, e \in EntryIds :
        Visible(d) /\ Visible(e) /\ CardOf(d).key = CardOf(e).key /\ CardOf(d).key # None
            => entries[d].card = entries[e].card

(***************************************************************************)
(* "a unique together relationship which must be validated": cards that    *)
(* share a merchant identifier share the key credential.                   *)
(***************************************************************************)
OneKeyPerMid ==
    \A d, e \in EntryIds :
        Visible(d) /\ Visible(e) /\ CardOf(d).mid = CardOf(e).mid /\ CardOf(d).mid # None
            => CardOf(d).key = CardOf(e).key

(***************************************************************************)
(* Hermes has at most one join message of a link to work on, as long as    *)
(* the card has no key credential.  The link of one that has may be found  *)
(* by a trusted add, which sets it ACTIVE though it is waiting to join.    *)
(***************************************************************************)
OneJoinInFlight ==
    \A m \in BagToSet(bus) :
        m.path = "loyalty_card_join" /\ cards[m.card].key = None => bus[m] = 1

(***************************************************************************)
(* A request takes no card out of another user's wallet.                   *)
(***************************************************************************)
OthersKeepTheirCards ==
    [][\A w \in Workers : ctx'[w] # ctx[w] =>
          \A e \in EntryIds :
              Visible(e) /\ entries[e].user # ctx[w].user => Visible(e)']_vars

(***************************************************************************)
(* delete_join removes a link only when its status is a failed join.       *)
(***************************************************************************)
RemovedAfterFailure ==
    [][\A w \in Workers : Remove(w) /\ entries[ctx[w].entry].state = "live" =>
          entries[ctx[w].entry].status \in FAILED_JOIN_STATUS]_vars

(***************************************************************************)
(* A link does not wait for its join for ever (no endpoint would let it    *)
(* go), unless the request that owed the join message died.                *)
(***************************************************************************)
JoinTaken ==
    \A e \in EntryIds :
        entries[e].state = "live" /\ entries[e].status = JOIN_ASYNC_IN_PROGRESS
            ~> \/ entries[e].state # "live"
               \/ entries[e].status # JOIN_ASYNC_IN_PROGRESS
               \/ <<e, "loyalty_card_join">> \in lost

-----------------------------------------------------------------------------
(* The abstract specification *)

(***************************************************************************)
(* What has become of the word Hermes is owed of an entry.                 *)
(***************************************************************************)
Word(e) ==
    CASE entries[e].state = "unused" -> "none"
      [] entries[e].state # "unused" /\ e \in told -> "told"
      [] entries[e].state # "unused" /\ e \notin told
            /\ (\E p \in Announcements : Owing(e, p)) -> "owed"
      [] OTHER -> "lost"

EntryState == [unused |-> "unused", live |-> "open", gone |-> "closed"]

Life(e) ==
    [state |-> EntryState[entries[e].state], user |-> entries[e].user,
     card |-> entries[e].card, word |-> Word(e)]

Promise == INSTANCE WalletLinks WITH
    Links <- EntryIds, Cards <- CardIds, link <- [e \in EntryIds |-> Life(e)]

(***************************************************************************)
(* Through every journey, race and failure the links keep the promise of   *)
(* WalletLinks: given once and for good, one for a user and a card, with   *)
(* their word to Hermes told or seen to be lost.                           *)
(***************************************************************************)
KeepsPromise == Promise!Spec

(***************************************************************************)
(* No link is owed word of for ever: the request that owes it sends it, or *)
(* is seen to fail.                                                        *)
(***************************************************************************)
SettlesPromise == Promise!Fairness
=============================================================================
