------------------------- MODULE LoyaltyCardsProofs -------------------------
(***************************************************************************)
(* Proofs, for any users, keys, workers, endpoints, bounds and faults, of  *)
(* the invariants of LoyaltyCards that do not depend on requests being     *)
(* served one after another.                                               *)
(***************************************************************************)
EXTENDS LoyaltyCards, TLAPS

(***************************************************************************)
(* The strengthening: what holds of the request x a worker is serving.     *)
(* The link it has read or written stays in the table (perhaps as gone)    *)
(* with its user and card, and it owes messages only after its commit.     *)
(***************************************************************************)
Linking == {"add", "trusted_add", "add_auth", "add_register", "join",
            "authorise", "trusted_update"}

HoldsLink(x, es) ==
    /\ x.entry \in EntryIds
    /\ es[x.entry].state # "unused"
    /\ es[x.entry].user = x.user
    /\ es[x.entry].card = x.card

HasOut == {"touch", "refresh", "publish", "failed"}

Sound(x, cs, es) ==
    /\ x.pc # "idle" => x.user \in Users
    /\ x.pc \in {"mid", "lookup", "create", "link"} => x.op \in Linking
    /\ x.pc = "link" => x.card \in CardIds /\ cs[x.card].state # "unused"
    /\ x.pc \in {"touch", "update", "rejoin", "remove", "refresh", "publish"} => HoldsLink(x, es)
    /\ x.pc \in HasOut <=> x.out # <<>>
    /\ x.pc = "failed" => x.out = <<"add_trusted_failed">>

RequestsSound == \A w \in Workers : Sound(ctx[w], cards, entries)

IndInv == TypeOK /\ RequestsSound

(***************************************************************************)
(* From tables cs and es to cs2 and es2, rows once used stay used, with    *)
(* the user and the card they were made for.                               *)
(***************************************************************************)
Grows(cs, es, cs2, es2) ==
    /\ \A e \in EntryIds : es[e].state # "unused" =>
         es2[e].state # "unused" /\ es2[e].user = es[e].user /\ es2[e].card = es[e].card
    /\ \A c \in CardIds : cs[c].state # "unused" => cs2[c].state # "unused"

-----------------------------------------------------------------------------
(* Facts about the operators *)

(***************************************************************************)
(* What holds of a request goes on holding while the tables grow.          *)
(***************************************************************************)
LEMMA SoundStable ==
  ASSUME NEW x, NEW cs, NEW es, NEW cs2, NEW es2,
         Sound(x, cs, es), Grows(cs, es, cs2, es2)
  PROVE  Sound(x, cs2, es2)
  BY DEF Sound, Grows, HoldsLink

(***************************************************************************)
(* An idle worker's record has the type and satisfies the strengthening.   *)
(***************************************************************************)
LEMMA IdleSound ==
  ASSUME NEW cs, NEW es
  PROVE  Idle \in Request /\ Sound(Idle, cs, es)
  BY DEF Idle, Request, Sound, HasOut

(***************************************************************************)
(* A failing request becomes idle or has the failure to report.            *)
(***************************************************************************)
LEMMA FailingSound ==
  ASSUME NEW x \in Request, x.pc # "idle", x.user \in Users, NEW cs, NEW es
  PROVE  Failing(x) \in Request /\ Sound(Failing(x), cs, es)
  <1>1. CASE x.op = "trusted_add" /\ x.pc # "failed"
    <2> DEFINE y == Failing(x)
    <2>1. y = [pc |-> "failed", op |-> x.op, user |-> x.user, key |-> None,
               mid |-> None, card |-> x.card, old |-> 0, entry |-> 0,
               todo |-> {}, out |-> <<"add_trusted_failed">>]
      BY <1>1 DEF Failing, Idle
    <2>2. <<"add_trusted_failed">> \in Seq(Paths)
      BY DEF Paths
    <2>3. y \in Request
      BY <2>1, <2>2 DEF Request
    <2>4. Sound(y, cs, es)
      BY <2>1 DEF Sound, HasOut
    <2> QED BY <2>3, <2>4
  <1>2. CASE ~(x.op = "trusted_add" /\ x.pc # "failed")
    BY <1>2, IdleSound DEF Failing
  <1> QED BY <1>1, <1>2

(***************************************************************************)
(* A request that holds its link is sound once its messages are chosen.    *)
(***************************************************************************)
LEMMA SpentSound ==
  ASSUME NEW x \in Request, x.user \in Users, NEW cs, NEW es, HoldsLink(x, es),
         NEW pc \in {"touch", "refresh", "publish"},
         NEW out \in Seq(Paths), out # <<>>
  PROVE  Spent(x, pc, out) \in Request /\ Sound(Spent(x, pc, out), cs, es)
  <1> DEFINE y == Spent(x, pc, out)
  <1>1. /\ y.pc = pc /\ y.out = out
        /\ y.op = x.op /\ y.user = x.user /\ y.card = x.card /\ y.entry = x.entry
    BY DEF Spent, Request
  <1>2. y \in Request
    BY DEF Spent, Request
  <1>3. Sound(y, cs, es)
    BY <1>1 DEF Sound, HasOut, HoldsLink
  <1> QED BY <1>2, <1>3

(***************************************************************************)
(* The journeys that make a link have something to publish, and announce   *)
(* the link to Hermes.                                                     *)
(***************************************************************************)
LEMMA OnwardAnnounces ==
  ASSUME NEW op \in Linking
  PROVE  /\ Onward(op) \in Seq(Paths) /\ Onward(op) # <<>>
         /\ \E i \in DOMAIN Onward(op) : Onward(op)[i] \in Announcements
         /\ NewStatus(op) \in Statuses
         /\ NewStatus(op) = JOIN_ASYNC_IN_PROGRESS =>
              op = "join" /\ Onward(op) = <<"loyalty_card_join">>
  <1>1. CASE op = "add"
    BY <1>1 DEF Onward, NewStatus, Paths, Announcements, Statuses, WALLET_ONLY, JOIN_ASYNC_IN_PROGRESS
  <1>2. CASE op = "trusted_add"
    <2>1. Onward(op) = <<"loyalty_card_trusted_add", "loyalty_card_trusted_add_success_event">>
      BY <1>2 DEF Onward
    <2>2. NewStatus(op) = ACTIVE
      BY <1>2 DEF NewStatus
    <2> QED BY <2>1, <2>2 DEF Paths, Announcements, Statuses, ACTIVE, JOIN_ASYNC_IN_PROGRESS
  <1>3. CASE op = "add_auth"
    <2>1. Onward(op) = <<"add_auth_request_event", "loyalty_card_add_auth">>
      BY <1>3 DEF Onward
    <2>2. NewStatus(op) = PENDING
      BY <1>3 DEF NewStatus
    <2>3. 2 \in DOMAIN Onward(op) /\ Onward(op)[2] \in Announcements
      BY <2>1 DEF Announcements
    <2> QED BY <2>1, <2>2, <2>3 DEF Paths, Announcements, Statuses, AUTH_IN_PROGRESS, PENDING, JOIN_ASYNC_IN_PROGRESS
  <1>4. CASE op = "add_register"
    BY <1>4 DEF Onward, NewStatus, Paths, Announcements, Statuses, AUTH_IN_PROGRESS, PENDING, JOIN_ASYNC_IN_PROGRESS
  <1>5. CASE op = "join"
    BY <1>5 DEF Onward, NewStatus, Paths, Announcements, Statuses, JOIN_PENDING_STATES, JOIN_ASYNC_IN_PROGRESS
  <1>6. CASE op = "authorise"
    <2>1. Onward(op) = <<"delete_loyalty_card", "add_auth_request_event", "loyalty_card_add_auth">>
      BY <1>6 DEF Onward
    <2>2. NewStatus(op) = PENDING
      BY <1>6 DEF NewStatus
    <2>3. 3 \in DOMAIN Onward(op) /\ Onward(op)[3] \in Announcements
      BY <2>1 DEF Announcements
    <2> QED BY <2>1, <2>2, <2>3 DEF Paths, Announcements, Statuses, AUTH_IN_PROGRESS, PENDING, JOIN_ASYNC_IN_PROGRESS
  <1>7. CASE op = "trusted_update"
    <2>1. Onward(op) = <<"delete_loyalty_card", "add_auth_request_event", "loyalty_card_trusted_add">>
      BY <1>7 DEF Onward
    <2>2. NewStatus(op) = ACTIVE
      BY <1>7 DEF NewStatus
    <2>3. 3 \in DOMAIN Onward(op) /\ Onward(op)[3] \in Announcements
      BY <2>1 DEF Announcements
    <2> QED BY <2>1, <2>2, <2>3 DEF Paths, Announcements, Statuses, ACTIVE, JOIN_ASYNC_IN_PROGRESS
  <1> QED BY <1>1, <1>2, <1>3, <1>4, <1>5, <1>6, <1>7 DEF Linking

(***************************************************************************)
(* Publishing adds the message to the queue and changes nothing else in it.*)
(***************************************************************************)
LEMMA BagAdd ==
  ASSUME NEW B, IsABag(B), NEW m
  PROVE  /\ IsABag(B (+) SetToBag({m}))
         /\ BagToSet(B (+) SetToBag({m})) = BagToSet(B) \cup {m}
  BY DEF IsABag, BagToSet, SetToBag, (+)

(***************************************************************************)
(* Handling a message may leave other copies of it, and leaves the others. *)
(***************************************************************************)
LEMMA BagRemove ==
  ASSUME NEW B, IsABag(B), NEW m
  PROVE  /\ IsABag(B (-) SetToBag({m}))
         /\ BagToSet(B (-) SetToBag({m})) \subseteq BagToSet(B)
         /\ BagToSet(B) \ {m} \subseteq BagToSet(B (-) SetToBag({m}))
  BY DEF IsABag, BagToSet, SetToBag, (-)

-----------------------------------------------------------------------------
(* What a worker's step makes of its request *)

Moves(w) == \E y \in Request : Goto(w, y) /\ Sound(y, cards', entries')

(***************************************************************************)
(* What the invariant says of the worker that is about to step.            *)
(***************************************************************************)
LEMMA Current ==
  ASSUME IndInv, NEW w \in Workers
  PROVE  ctx[w] \in Request /\ Sound(ctx[w], cards, entries)
  BY DEF IndInv, TypeOK, RequestsSound

(***************************************************************************)
(* A failing request leaves a sound record behind, whatever the tables.    *)
(***************************************************************************)
LEMMA FailMoves ==
  ASSUME IndInv, NEW w \in Workers, ctx[w].pc # "idle", Fail(w)
  PROVE  Moves(w)
  <1>1. ctx[w].user \in Users
    BY Current DEF Sound
  <1>2. Failing(ctx[w]) \in Request /\ Sound(Failing(ctx[w]), cards', entries')
    BY <1>1, Current, FailingSound
  <1> QED BY <1>2 DEF Fail, Moves

(***************************************************************************)
(* So does one that is answered.                                           *)
(***************************************************************************)
LEMMA FinishMoves ==
  ASSUME NEW w \in Workers, Finish(w)
  PROVE  Moves(w)
  BY IdleSound DEF Finish, Moves

(***************************************************************************)
(* A request on its way to its first query or its insert is sound.         *)
(***************************************************************************)
LEMMA ReceiveMoves ==
  ASSUME IndInv, NEW w \in Workers, Receive(w)
  PROVE  Moves(w)
  <1>1. PICK u \in Users, op \in Ops, k \in Keys \cup {None}, m \in Mids \cup {None},
             c \in CardIds \cup {0} : Goto(w, Started(op, u, k, m, c))
    BY DEF Receive
  <1> DEFINE y == Started(op, u, k, m, c)
  <1>2. FirstStep(op) = "fetch" \/ (FirstStep(op) \in {"lookup", "mid", "create"} /\ op \in Linking)
    BY DEF Linking, FirstStep
  <1>3. /\ y \in Request
        /\ y.pc = FirstStep(op) /\ y.op = op /\ y.user = u /\ y.out = <<>>
    BY <1>2 DEF Started, Request
  <1>4. Sound(y, cards', entries')
    BY <1>2, <1>3 DEF Sound, HasOut
  <1> QED BY <1>1, <1>3, <1>4 DEF Moves

(***************************************************************************)
(* The row a query returned is a used row of the user and card asked for.  *)
(***************************************************************************)
LEMMA FetchedLink ==
  ASSUME IndInv, NEW w \in Workers, NEW op, NEW e \in EntryIds, Fetches(w, op, e)
  PROVE  LET x == [ctx[w] EXCEPT !.entry = e] IN
         /\ ctx[w].user \in Users /\ ctx[w].out = <<>> /\ ctx[w].pc = "fetch"
         /\ ctx[w].op = op
         /\ x \in Request /\ x.user = ctx[w].user /\ x.out = <<>> /\ x.op = op
         /\ x.entry = e /\ x.card = ctx[w].card
         /\ HoldsLink(x, entries)
  <1> DEFINE x == [ctx[w] EXCEPT !.entry = e]
  <1>1. ctx[w] \in Request /\ ctx[w].user \in Users /\ ctx[w].out = <<>>
    BY Current DEF Fetches, Sound, HasOut
  <1>2. /\ x \in Request /\ x.user = ctx[w].user /\ x.out = ctx[w].out
        /\ x.op = ctx[w].op /\ x.entry = e /\ x.card = ctx[w].card
    BY <1>1 DEF Request
  <1>3. HoldsLink(x, entries)
    BY <1>2 DEF HoldsLink, Fetches, Visible
  <1> QED BY <1>1, <1>2, <1>3 DEF Fetches

(***************************************************************************)
(* The queries by card id leave a sound request: it goes on with the link  *)
(* it found, or is answered.                                               *)
(***************************************************************************)
LEMMA FetchMoves ==
  ASSUME IndInv, NEW w \in Workers, Fetch(w)
  PROVE  Moves(w) /\ UNCHANGED <<cards, entries, bus, served, told, lost>>
  <1> USE DEF Reads, tables, history
  <1>1. CASE NotFound(w)
    BY <1>1, FinishMoves DEF NotFound
  <1>2. ASSUME NEW e \in EntryIds, Authorise(w, e)
        PROVE  Moves(w) /\ UNCHANGED <<cards, entries, bus, served, told, lost>>
    <2> DEFINE x == [ctx[w] EXCEPT !.entry = e]
    <2>1. Fetches(w, "authorise", e)
      BY <1>2 DEF Authorise
    <2>2. /\ x \in Request /\ x.user \in Users /\ x.out = <<>> /\ x.op = "authorise"
          /\ HoldsLink(x, entries) /\ x.card \in CardIds \cup {0}
      BY <2>1, FetchedLink DEF Request
    <2>3. UNCHANGED <<cards, entries, bus, served, told, lost>>
      BY <1>2 DEF Authorise
    <2>4. ASSUME NEW matching \in BOOLEAN,
                 Goto(w, Spent(x, "publish", <<"add_auth_request_event",
                         IF matching THEN "add_auth_outcome_event"
                                     ELSE "loyalty_card_add_auth">>))
          PROVE  Moves(w)
      <3> DEFINE out == <<"add_auth_request_event",
                          IF matching THEN "add_auth_outcome_event"
                                      ELSE "loyalty_card_add_auth">>
      <3>1. out \in Seq(Paths) /\ out # <<>>
        BY DEF Paths, Announcements
      <3>2. Spent(x, "publish", out) \in Request /\ Sound(Spent(x, "publish", out), cards, entries)
        <4> HIDE DEF out, x
        <4> QED BY <2>2, <3>1, SpentSound
      <3> QED BY <2>3, <2>4, <3>2 DEF Moves
    <2>5. ASSUME Goto(w, [x EXCEPT !.pc = "lookup", !.old = x.card])
          PROVE  Moves(w)
      <3> DEFINE y == [x EXCEPT !.pc = "lookup", !.old = x.card]
      <3>1. /\ y \in Request /\ y.pc = "lookup" /\ y.op = "authorise"
            /\ y.user \in Users /\ y.out = <<>>
        <4> HIDE DEF x
        <4> QED BY <2>2 DEF Request
      <3>2. Sound(y, cards', entries')
        <4> HIDE DEF y
        <4> QED BY <3>1 DEF Sound, HasOut, Linking
      <3> QED BY <2>5, <3>1, <3>2 DEF Moves
    <2> QED BY <1>2, <2>3, <2>4, <2>5 DEF Authorise
  <1>3. ASSUME NEW e \in EntryIds, TrustedUpdate(w, e)
        PROVE  Moves(w) /\ UNCHANGED <<cards, entries, bus, served, told, lost>>
    <2> DEFINE y == [ctx[w] EXCEPT !.pc = "mid", !.entry = e, !.old = ctx[w].card]
    <2>1. Fetches(w, "trusted_update", e)
      BY <1>3 DEF TrustedUpdate
    <2>2. ctx[w] \in Request /\ ctx[w].user \in Users /\ ctx[w].out = <<>>
          /\ ctx[w].op = "trusted_update"
      BY <2>1, FetchedLink, Current
    <2>3. /\ y \in Request /\ y.pc = "mid" /\ y.op = "trusted_update"
          /\ y.user \in Users /\ y.out = <<>>
      BY <2>2 DEF Request
    <2>4. Sound(y, cards', entries')
      <3> HIDE DEF y
      <3> QED BY <2>3 DEF Sound, HasOut, Linking
    <2>5. Goto(w, y) => Moves(w)
      BY <2>3, <2>4 DEF Moves
    <2> QED BY <1>3, <2>5, FinishMoves DEF TrustedUpdate
  <1>4. ASSUME NEW e \in EntryIds, NEW out \in Seq(Paths), out # <<>>, NEW op,
               Fetches(w, op, e), UNCHANGED <<cards, entries>>,
               Goto(w, Spent([ctx[w] EXCEPT !.entry = e], "publish", out))
        PROVE  Moves(w)
    <2> DEFINE x == [ctx[w] EXCEPT !.entry = e]
    <2>1. x \in Request /\ x.user \in Users /\ HoldsLink(x, entries)
      BY <1>4, FetchedLink
    <2>2. Spent(x, "publish", out) \in Request /\ Sound(Spent(x, "publish", out), cards, entries)
      <3> HIDE DEF x
      <3> QED BY <1>4, <2>1, SpentSound
    <2> QED BY <1>4, <2>2 DEF Moves
  <1>5. ASSUME NEW e \in EntryIds, NEW pc \in {"rejoin", "remove"}, NEW op,
               Fetches(w, op, e), UNCHANGED <<cards, entries>>,
               Goto(w, [ctx[w] EXCEPT !.entry = e, !.pc = pc])
        PROVE  Moves(w)
    <2> DEFINE x == [ctx[w] EXCEPT !.entry = e]
               y == [ctx[w] EXCEPT !.entry = e, !.pc = pc]
    <2>1. /\ ctx[w] \in Request /\ ctx[w].user \in Users /\ ctx[w].out = <<>>
          /\ HoldsLink(x, entries)
      BY <1>5, FetchedLink, Current
    <2>2. /\ y \in Request /\ y.pc = pc /\ y.user = ctx[w].user /\ y.out = <<>>
          /\ y.entry = e /\ y.card = ctx[w].card
      BY <2>1 DEF Request
    <2>3. x.entry = e /\ x.user = ctx[w].user /\ x.card = ctx[w].card
      BY <2>1 DEF Request
    <2>4. Sound(y, cards, entries)
      <3> HIDE DEF x, y
      <3> QED BY <2>1, <2>2, <2>3 DEF Sound, HasOut, HoldsLink
    <2> QED BY <1>5, <2>2, <2>4 DEF Moves
  <1>6. <<"loyalty_card_register">> \in Seq(Paths) /\ <<"delete_loyalty_card">> \in Seq(Paths)
    BY DEF Paths
  <1>7. ASSUME NEW e \in EntryIds, Register(w, e)
        PROVE  Moves(w) /\ UNCHANGED <<cards, entries, bus, served, told, lost>>
    BY <1>4, <1>6, <1>7, FinishMoves DEF Register
  <1>8. ASSUME NEW e \in EntryIds, PutJoin(w, e)
        PROVE  Moves(w) /\ UNCHANGED <<cards, entries, bus, served, told, lost>>
    BY <1>5, <1>8, FinishMoves DEF PutJoin
  <1>9. ASSUME NEW e \in EntryIds, DeleteJoin(w, e)
        PROVE  Moves(w) /\ UNCHANGED <<cards, entries, bus, served, told, lost>>
    BY <1>5, <1>9, FinishMoves DEF DeleteJoin
  <1>10. ASSUME NEW e \in EntryIds, Delete(w, e)
         PROVE  Moves(w) /\ UNCHANGED <<cards, entries, bus, served, told, lost>>
    BY <1>4, <1>6, <1>10, FinishMoves DEF Delete
  <1> QED BY <1>1, <1>2, <1>3, <1>7, <1>8, <1>9, <1>10 DEF Fetch

(***************************************************************************)
(* A request that only moves on in its search for a card stays sound.      *)
(***************************************************************************)
LEMMA SearchMoves ==
  ASSUME IndInv, NEW w \in Workers, ctx[w].pc \in {"mid", "lookup"},
         NEW pc \in {"lookup", "create"}, UNCHANGED <<cards, entries>>,
         Goto(w, [ctx[w] EXCEPT !.pc = pc])
  PROVE  Moves(w)
  <1> DEFINE x == ctx[w]
             y == [x EXCEPT !.pc = pc]
  <1>1. x \in Request /\ x.user \in Users /\ x.op \in Linking /\ x.out = <<>>
    BY Current DEF Sound, HasOut
  <1>2. y \in Request /\ y.pc = pc /\ y.user = x.user /\ y.op = x.op /\ y.out = x.out
    <2> HIDE DEF x
    <2> QED BY <1>1 DEF Request
  <1>3. Sound(y, cards, entries)
    <2> HIDE DEF y
    <2> QED BY <1>1, <1>2 DEF Sound, HasOut
  <1> QED BY <1>2, <1>3 DEF Moves

(***************************************************************************)
(* The merchant identifier check leaves a sound request.                   *)
(***************************************************************************)
LEMMA CheckMidMoves ==
  ASSUME IndInv, NEW w \in Workers, CheckMid(w)
  PROVE  Moves(w) /\ UNCHANGED <<cards, entries, bus, served, told, lost>>
  <1>1. ctx[w].pc = "mid" /\ UNCHANGED <<cards, entries, bus, served, told, lost>>
    BY DEF CheckMid, Reads, tables, history
  <1>2. CASE Goto(w, [ctx[w] EXCEPT !.pc = "lookup"])
    BY <1>1, <1>2, SearchMoves
  <1>3. CASE Fail(w)
    BY <1>1, <1>3, FailMoves
  <1> QED BY <1>1, <1>2, <1>3 DEF CheckMid

(***************************************************************************)
(* The one card the key credential leads to is a used row, and so are the  *)
(* links to it that were found.                                            *)
(***************************************************************************)
LEMMA FoundCard ==
  ASSUME IndInv, NEW w \in Workers, NEW c \in CardIds, SingleCard(w, c)
  PROVE  /\ ctx[w].pc = "lookup" /\ ctx[w].user \in Users
         /\ ctx[w].op \in Linking /\ ctx[w].out = <<>>
         /\ cards[c].state # "unused"
         /\ \A e \in Own(ctx[w]) :
              /\ e \in EntryIds /\ entries[e].state # "unused"
              /\ entries[e].user = ctx[w].user /\ entries[e].card = c
  <1>1. ctx[w].pc = "lookup" /\ {entries[e].card : e \in ByKey(ctx[w])} = {c}
    BY DEF SingleCard
  <1>2. ctx[w].user \in Users /\ ctx[w].op \in Linking /\ ctx[w].out = <<>>
    BY <1>1, Current DEF Sound, HasOut
  <1>3. PICK e \in ByKey(ctx[w]) : entries[e].card = c
    BY <1>1
  <1>4. cards[c].state # "unused"
    BY <1>3 DEF ByKey, Visible
  <1>5. \A e2 \in Own(ctx[w]) :
          /\ e2 \in EntryIds /\ entries[e2].state # "unused"
          /\ entries[e2].user = ctx[w].user /\ entries[e2].card = c
    BY <1>1 DEF Own, ByKey, Visible
  <1> QED BY <1>1, <1>2, <1>4, <1>5

(***************************************************************************)
(* A request that found a card it is to be linked to.                      *)
(***************************************************************************)
LEMMA ToLinkMoves ==
  ASSUME IndInv, NEW w \in Workers, NEW c \in CardIds, SingleCard(w, c),
         UNCHANGED <<cards, entries>>,
         Goto(w, [ctx[w] EXCEPT !.pc = "link", !.card = c])
  PROVE  Moves(w)
  <1> DEFINE x == ctx[w]
             y == [x EXCEPT !.pc = "link", !.card = c]
  <1>1. /\ x \in Request /\ x.user \in Users /\ x.op \in Linking /\ x.out = <<>>
        /\ cards[c].state # "unused"
    BY Current, FoundCard
  <1>2. /\ y \in Request /\ y.pc = "link" /\ y.user = x.user /\ y.op = x.op
        /\ y.out = x.out /\ y.card = c
    <2> HIDE DEF x
    <2> QED BY <1>1 DEF Request
  <1>3. Sound(y, cards, entries)
    <2> HIDE DEF y
    <2> QED BY <1>1, <1>2 DEF Sound, HasOut
  <1> QED BY <1>2, <1>3 DEF Moves

(***************************************************************************)
(* What the journeys do with the card they found.                          *)
(***************************************************************************)
LEMMA RouteMoves ==
  ASSUME IndInv, NEW w \in Workers, Route(w)
  PROVE  Moves(w) /\ UNCHANGED <<cards, entries, bus, served, told, lost>>
  <1> USE DEF Reads, tables, history
  <1>1. CASE NoCardRoute(w)
    BY <1>1, SearchMoves DEF NoCardRoute
  <1>2. CASE ManyCardsRoute(w)
    BY <1>2, FailMoves DEF ManyCardsRoute
  <1>3. ASSUME NEW c \in CardIds, AddRoute(w, c)
        PROVE  Moves(w) /\ UNCHANGED <<cards, entries, bus, served, told, lost>>
    <2>1. SingleCard(w, c) /\ ctx[w].pc # "idle"
      BY <1>3 DEF AddRoute, SingleCard
    <2> QED BY <1>3, <2>1, ToLinkMoves, FailMoves DEF AddRoute
  <1>4. ASSUME NEW c \in CardIds, AddAndAuthoriseRoute(w, c)
        PROVE  Moves(w) /\ UNCHANGED <<cards, entries, bus, served, told, lost>>
    <2>1. SingleCard(w, c) /\ UNCHANGED <<cards, entries, bus, served, told, lost>>
      BY <1>4 DEF AddAndAuthoriseRoute
    <2>2. ASSUME NEW e \in Own(ctx[w]),
                 Goto(w, Spent([ctx[w] EXCEPT !.card = c, !.entry = e],
                               "publish", <<"add_auth_request_event">>))
          PROVE  Moves(w)
      <3> DEFINE x == [ctx[w] EXCEPT !.card = c, !.entry = e]
      <3>1. /\ ctx[w] \in Request /\ ctx[w].user \in Users /\ e \in EntryIds
            /\ entries[e].state # "unused" /\ entries[e].user = ctx[w].user
            /\ entries[e].card = c
        BY <2>1, Current, FoundCard
      <3>2. x \in Request /\ x.user = ctx[w].user /\ x.card = c /\ x.entry = e
        BY <3>1 DEF Request
      <3>3. HoldsLink(x, entries)
        <4> HIDE DEF x
        <4> QED BY <3>1, <3>2 DEF HoldsLink
      <3>4. <<"add_auth_request_event">> \in Seq(Paths)
        BY DEF Paths
      <3>5. /\ Spent(x, "publish", <<"add_auth_request_event">>) \in Request
            /\ Sound(Spent(x, "publish", <<"add_auth_request_event">>), cards, entries)
        <4> HIDE DEF x
        <4> QED BY <3>1, <3>2, <3>3, <3>4, SpentSound
      <3> QED BY <2>1, <2>2, <3>5 DEF Moves
    <2> QED BY <1>4, <2>1, <2>2, ToLinkMoves, FinishMoves DEF AddAndAuthoriseRoute
  <1>5. ASSUME NEW c \in CardIds, TrustedAddRoute(w, c)
        PROVE  Moves(w) /\ UNCHANGED <<cards, entries, bus, served, told, lost>>
    <2>1. SingleCard(w, c) /\ UNCHANGED <<cards, entries, bus, served, told, lost>>
      BY <1>5 DEF TrustedAddRoute
    <2>2. ctx[w] \in Request /\ ctx[w].user \in Users /\ ctx[w].pc = "lookup" /\ ctx[w].out = <<>>
      BY <2>1, Current, FoundCard
    <2>3. ASSUME Goto(w, Failing([ctx[w] EXCEPT !.card = c])) PROVE Moves(w)
      <3> DEFINE x == [ctx[w] EXCEPT !.card = c]
      <3>1. x \in Request /\ x.pc = "lookup" /\ x.user \in Users
        BY <2>2 DEF Request
      <3>2. Failing(x) \in Request /\ Sound(Failing(x), cards, entries)
        <4> HIDE DEF x
        <4> QED BY <3>1, FailingSound
      <3> QED BY <2>1, <2>3, <3>2 DEF Moves
    <2>4. ASSUME NEW e \in Own(ctx[w]), NEW todo \in SUBSET {"activate", "date"},
                 LET x == [ctx[w] EXCEPT !.card = c, !.entry = e, !.todo = todo]
                 IN Goto(w, IF x.todo = {} THEN Unchanged(x, "publish")
                                           ELSE [x EXCEPT !.pc = "update"])
          PROVE  Moves(w)
      <3> DEFINE x == [ctx[w] EXCEPT !.card = c, !.entry = e, !.todo = todo]
                 y == [x EXCEPT !.pc = "update"]
      <3>1. /\ e \in EntryIds /\ entries[e].state # "unused"
            /\ entries[e].user = ctx[w].user /\ entries[e].card = c
        BY <2>1, FoundCard
      <3>2. /\ x \in Request /\ x.user = ctx[w].user /\ x.card = c /\ x.entry = e
            /\ x.out = <<>>
        BY <2>2, <3>1 DEF Request
      <3>3. HoldsLink(x, entries)
        <4> HIDE DEF x
        <4> QED BY <3>1, <3>2 DEF HoldsLink
      <3>4. y \in Request /\ Sound(y, cards, entries)
        <4>1. /\ y \in Request /\ y.pc = "update" /\ y.user = x.user /\ y.out = <<>>
              /\ y.card = x.card /\ y.entry = x.entry
          <5> HIDE DEF x
          <5> QED BY <3>2 DEF Request
        <4> HIDE DEF x, y
        <4> QED BY <2>2, <3>2, <3>3, <4>1 DEF Sound, HasOut, HoldsLink
      <3>5. Unchanged(x, "publish") \in Request /\ Sound(Unchanged(x, "publish"), cards, entries)
        <4>1. <<"loyalty_card_trusted_add">> \in Seq(Paths)
          BY DEF Paths, Announcements
        <4>2. x.user \in Users
          BY <2>2, <3>2
        <4> HIDE DEF x
        <4> QED BY <3>2, <3>3, <4>1, <4>2, SpentSound, IdleSound DEF Unchanged
      <3>6. Goto(w, y) \/ Goto(w, Unchanged(x, "publish"))
        BY <2>4
      <3> QED BY <2>1, <3>4, <3>5, <3>6 DEF Moves
    <2>5. \A e \in EntryIds : Todo(e, c) \in SUBSET {"activate", "date"}
      BY DEF Todo
    <2>6. ASSUME NEW e \in Own(ctx[w]),
                 LET x == [ctx[w] EXCEPT !.card = c, !.entry = e, !.todo = Todo(e, c)]
                 IN Goto(w, IF x.todo = {} THEN Unchanged(x, "publish")
                                           ELSE [x EXCEPT !.pc = "update"])
          PROVE  Moves(w)
      <3>1. Todo(e, c) \in SUBSET {"activate", "date"}
        BY <2>1, <2>5, FoundCard
      <3> QED BY <2>4, <2>6, <3>1
    <2> QED BY <1>5, <2>1, <2>3, <2>6, ToLinkMoves DEF TrustedAddRoute
  <1> QED BY <1>1, <1>2, <1>3, <1>4, <1>5 DEF Route

(***************************************************************************)
(* Adding a card and changing a card's date keep the tables well formed;   *)
(* what well-formedness says of one link, to cite where it is needed.      *)
(***************************************************************************)
Shaped(cs, es) ==
    /\ cs \in [CardIds -> CardRow]
    /\ es \in [EntryIds -> EntryRow]

Anchored(cs, es) ==
    \A e \in EntryIds : es[e].state # "unused" =>
        /\ es[e].user \in Users /\ es[e].card \in CardIds
        /\ cs[es[e].card].state # "unused"

Distinct(es) ==
    \A d, e \in EntryIds :
        /\ es[d].state = "live" /\ es[e].state = "live"
        /\ es[d].card = es[e].card /\ es[d].user = es[e].user
        => d = e

(***************************************************************************)
(* The well-formedness of the tables is its three parts.                   *)
(***************************************************************************)
LEMMA WellFormedParts ==
  ASSUME NEW cs, NEW es
  PROVE  WellFormed([cards |-> cs, entries |-> es])
            <=> Shaped(cs, es) /\ Anchored(cs, es) /\ Distinct(es)
  BY DEF WellFormed, Shaped, Anchored, Distinct

TablesOK == Shaped(cards, entries) /\ Anchored(cards, entries) /\ Distinct(entries)

(***************************************************************************)
(* What a step that writes must show: the tables stay well formed and no   *)
(* row is taken back.                                                      *)
(***************************************************************************)
Preserves == Grows(cards, entries, cards', entries') /\ TablesOK'

(***************************************************************************)
(* The invariant says of the tables what the lemmas on writes need.        *)
(***************************************************************************)
LEMMA IndInvTables ==
  ASSUME IndInv
  PROVE  TablesOK
  BY WellFormedParts DEF IndInv, TypeOK, TablesOK

(***************************************************************************)
(* Changing the status or the state of links, never back to life, and the  *)
(* state or the date of cards, never back to unused.                       *)
(***************************************************************************)
LEMMA AlterPreserves ==
  ASSUME TablesOK,
         cards' \in [CardIds -> CardRow], entries' \in [EntryIds -> EntryRow],
         \A c \in CardIds : cards[c].state # "unused" => cards'[c].state # "unused",
         \A e \in EntryIds :
            /\ entries'[e].card = entries[e].card /\ entries'[e].user = entries[e].user
            /\ \/ entries'[e].state = entries[e].state
               \/ entries[e].state # "unused" /\ entries'[e].state = "gone"
  PROVE  Preserves
  <1>1. Grows(cards, entries, cards', entries')
    BY DEF Grows
  <1>2. Shaped(cards', entries')
    BY DEF Shaped
  <1>3. Anchored(cards', entries')
    BY DEF Anchored, TablesOK
  <1>4. Distinct(entries')
    BY DEF Distinct, TablesOK
  <1> QED BY <1>1, <1>2, <1>3, <1>4 DEF Preserves, TablesOK

(***************************************************************************)
(* A step that writes nothing preserves the tables.                        *)
(***************************************************************************)
LEMMA SamePreserves ==
  ASSUME TablesOK, UNCHANGED <<cards, entries>>
  PROVE  Preserves
  BY DEF TablesOK, Preserves, Grows

(***************************************************************************)
(* Inserting a link the user did not have yet, to a card in the tables.    *)
(***************************************************************************)
LEMMA InsertPreserves ==
  ASSUME TablesOK, NEW e \in EntryIds, NEW c \in CardIds, NEW x \in Request,
         entries[e].state = "unused", x.user \in Users, x.op \in Linking,
         \A d \in EntryIds : entries[d].state = "live" =>
            ~(entries[d].card = c /\ entries[d].user = x.user),
         InsertEntry(e, c, x),
         cards' \in [CardIds -> CardRow], cards'[c].state # "unused",
         \A d \in CardIds : cards[d].state # "unused" => cards'[d].state # "unused"
  PROVE  /\ Preserves
         /\ entries'[e].state # "unused"
         /\ entries'[e].card = c /\ entries'[e].user = x.user
  <1> DEFINE row == [state |-> "live", card |-> c, user |-> x.user, status |-> NewStatus(x.op)]
  <1>1. row \in EntryRow
    BY OnwardAnnounces DEF EntryRow
  <1>2. entries \in [EntryIds -> EntryRow]
    BY DEF TablesOK, Shaped
  <1>3. /\ entries' \in [EntryIds -> EntryRow]
        /\ entries'[e] = row
        /\ \A d \in EntryIds : d # e => entries'[d] = entries[d]
    <2>1. entries' = [entries EXCEPT ![e] = row]
      BY DEF InsertEntry
    <2> HIDE DEF row
    <2> QED BY <1>1, <1>2, <2>1
  <1>4. /\ entries'[e].state = "live" /\ entries'[e].card = c /\ entries'[e].user = x.user
    BY <1>3
  <1> HIDE DEF row
  <1>5. Grows(cards, entries, cards', entries')
    BY <1>3 DEF Grows
  <1>6. Shaped(cards', entries')
    BY <1>3 DEF Shaped
  <1>7. Anchored(cards', entries')
    BY <1>3, <1>4 DEF Anchored, TablesOK
  <1>8. Distinct(entries')
    BY <1>3, <1>4 DEF Distinct, TablesOK
  <1> QED BY <1>4, <1>5, <1>6, <1>7, <1>8 DEF Preserves, TablesOK

(***************************************************************************)
(* The statuses a request may write.                                       *)
(***************************************************************************)
LEMMA WrittenStatuses ==
  ACTIVE \in Statuses /\ JOIN_ASYNC_IN_PROGRESS \in Statuses /\ PENDING \in Statuses
  BY DEF Statuses, ACTIVE, JOIN_ASYNC_IN_PROGRESS, PENDING, JOIN_PENDING_STATES, AUTH_IN_PROGRESS

(***************************************************************************)
(* A new card is committed with its first link.                            *)
(***************************************************************************)
LEMMA CreateMoves ==
  ASSUME IndInv, NEW w \in Workers, CreateCard(w)
  PROVE  Moves(w) /\ Preserves /\ UNCHANGED <<bus, served, told, lost>>
  <1> DEFINE x == ctx[w]
  <1>1. PICK c \in CardIds, e \in EntryIds :
          /\ FreshCard(c) /\ FreshEntry(e)
          /\ cards' = [cards EXCEPT ![c] =
               [state |-> "live", key |-> x.key, mid |-> x.mid, dated |-> IsTrusted(x)]]
          /\ InsertEntry(e, c, x)
          /\ Goto(w, Spent([x EXCEPT !.card = c, !.entry = e], "refresh", Onward(x.op)))
    BY DEF CreateCard
  <1>2. x \in Request /\ x.user \in Users /\ x.op \in Linking
    BY Current DEF CreateCard, Sound
  <1>3. TablesOK
    BY IndInvTables
  <1>4. [state |-> "live", key |-> x.key, mid |-> x.mid, dated |-> IsTrusted(x)] \in CardRow
    <2> HIDE DEF x
    <2> QED BY <1>2 DEF CardRow, Request, IsTrusted
  <1>5. /\ cards' \in [CardIds -> CardRow] /\ cards'[c].state # "unused"
        /\ \A d \in CardIds : cards[d].state # "unused" => cards'[d].state # "unused"
    <2> HIDE DEF x
    <2> QED BY <1>1, <1>3, <1>4 DEF TablesOK, Shaped
  <1>6. \A d \in EntryIds : entries[d].state = "live" =>
            ~(entries[d].card = c /\ entries[d].user = x.user)
    BY <1>1, <1>3 DEF TablesOK, Anchored, FreshCard
  <1>7. /\ Preserves /\ entries'[e].state # "unused"
        /\ entries'[e].card = c /\ entries'[e].user = x.user
    <2>1. entries[e].state = "unused" /\ InsertEntry(e, c, x)
      BY <1>1 DEF FreshEntry
    <2> HIDE DEF x
    <2> QED BY <1>2, <1>3, <1>5, <1>6, <2>1, InsertPreserves
  <1>8. Moves(w)
    <2> DEFINE y == [x EXCEPT !.card = c, !.entry = e]
    <2>1. /\ y \in Request /\ y.user = x.user /\ y.card = c /\ y.entry = e
      <3> HIDE DEF x
      <3> QED BY <1>2 DEF Request
    <2>2. HoldsLink(y, entries')
      <3> HIDE DEF x, y
      <3> QED BY <1>7, <2>1 DEF HoldsLink
    <2>3. Onward(x.op) \in Seq(Paths) /\ Onward(x.op) # <<>>
      BY <1>2, OnwardAnnounces
    <2>4. /\ Spent(y, "refresh", Onward(x.op)) \in Request
          /\ Sound(Spent(y, "refresh", Onward(x.op)), cards', entries')
      <3>1. y.user \in Users
        BY <1>2, <2>1
      <3> HIDE DEF x, y
      <3> QED BY <2>1, <2>2, <2>3, <3>1, SpentSound
    <2> QED BY <1>1, <2>4 DEF Moves
  <1> QED BY <1>7, <1>8 DEF CreateCard, history

(***************************************************************************)
(* A link to a card in the tables is inserted, or refused by the index.    *)
(***************************************************************************)
LEMMA LinkMoves ==
  ASSUME IndInv, NEW w \in Workers, LinkCard(w)
  PROVE  Moves(w) /\ Preserves /\ UNCHANGED <<bus, served, told, lost>>
  <1> DEFINE x == ctx[w]
  <1>1. TablesOK /\ UNCHANGED <<cards, bus, served, told, lost>>
    BY IndInvTables DEF LinkCard, history
  <1>2. CASE Fail(w) /\ UNCHANGED entries
    <2>1. Moves(w)
      BY <1>2, FailMoves DEF LinkCard
    <2> QED BY <1>1, <1>2, <2>1, SamePreserves
  <1>3. CASE ~(Fail(w) /\ UNCHANGED entries)
    <2>1. /\ x \in Request /\ x.user \in Users /\ x.op \in Linking /\ x.card \in CardIds
          /\ cards[x.card].state # "unused"
      BY Current DEF LinkCard, Sound
    <2>2. PICK e \in EntryIds :
            /\ ~AlreadyLinked(x) /\ FreshEntry(e)
            /\ InsertEntry(e, x.card, x)
            /\ Goto(w, Spent([x EXCEPT !.entry = e],
                             IF IsTrusted(x) THEN "touch" ELSE "refresh", Onward(x.op)))
      BY <1>3 DEF LinkCard
    <2>3. /\ Preserves /\ entries'[e].state # "unused"
          /\ entries'[e].card = x.card /\ entries'[e].user = x.user
      <3>1. entries[e].state = "unused" /\ InsertEntry(e, x.card, x)
        BY <2>2 DEF FreshEntry
      <3>2. \A d \in EntryIds : entries[d].state = "live" =>
              ~(entries[d].card = x.card /\ entries[d].user = x.user)
        BY <2>2 DEF AlreadyLinked
      <3>3. /\ cards' \in [CardIds -> CardRow] /\ cards'[x.card].state # "unused"
            /\ \A d \in CardIds : cards[d].state # "unused" => cards'[d].state # "unused"
        BY <1>1, <2>1 DEF TablesOK, Shaped
      <3> HIDE DEF x
      <3> QED BY <1>1, <2>1, <3>1, <3>2, <3>3, InsertPreserves
    <2> DEFINE y == [x EXCEPT !.entry = e]
               pc == IF IsTrusted(x) THEN "touch" ELSE "refresh"
    <2>4. y \in Request /\ y.user = x.user /\ y.card = x.card /\ y.entry = e
      <3> HIDE DEF x
      <3> QED BY <2>1 DEF Request
    <2>5. HoldsLink(y, entries') /\ y.user \in Users
      <3> HIDE DEF x, y
      <3> QED BY <2>1, <2>3, <2>4 DEF HoldsLink
    <2>6. Onward(x.op) \in Seq(Paths) /\ Onward(x.op) # <<>>
      BY <2>1, OnwardAnnounces
    <2>7. pc \in {"touch", "refresh", "publish"}
      OBVIOUS
    <2>8. /\ Spent(y, pc, Onward(x.op)) \in Request
          /\ Sound(Spent(y, pc, Onward(x.op)), cards', entries')
      <3> HIDE DEF x, y, pc
      <3> QED BY <2>4, <2>5, <2>6, <2>7, SpentSound
    <2>9. Moves(w)
      BY <2>2, <2>8 DEF Moves
    <2> QED BY <1>1, <2>3, <2>9
  <1> QED BY <1>2, <1>3

(***************************************************************************)
(* What holds of a request that holds its link and is about to write.      *)
(***************************************************************************)
LEMMA Holding ==
  ASSUME IndInv, NEW w \in Workers,
         ctx[w].pc \in {"touch", "update", "rejoin", "remove", "refresh", "publish"}
  PROVE  /\ ctx[w] \in Request /\ ctx[w].user \in Users
         /\ HoldsLink(ctx[w], entries)
         /\ ctx[w].entry \in EntryIds /\ ctx[w].card \in CardIds
         /\ TablesOK
  <1>1. /\ ctx[w] \in Request /\ ctx[w].user \in Users
        /\ HoldsLink(ctx[w], entries) /\ ctx[w].entry \in EntryIds
    BY Current DEF Sound, HoldsLink
  <1>2. TablesOK
    BY IndInvTables
  <1>3. ctx[w].card \in CardIds
    BY <1>1, <1>2 DEF HoldsLink, TablesOK, Anchored
  <1> QED BY <1>1, <1>2, <1>3

(***************************************************************************)
(* A request that holds its link still holds it when the tables grow.      *)
(***************************************************************************)
LEMMA HoldsStable ==
  ASSUME NEW x, HoldsLink(x, entries), Preserves
  PROVE  HoldsLink(x, entries')
  BY DEF HoldsLink, Preserves, Grows

(***************************************************************************)
(* The second transaction of a trusted add.                                *)
(***************************************************************************)
LEMMA TouchMoves ==
  ASSUME IndInv, NEW w \in Workers, TouchCard(w)
  PROVE  Moves(w) /\ Preserves /\ UNCHANGED <<bus, served, told, lost>>
  <1> DEFINE x == ctx[w]
             y == [x EXCEPT !.pc = "refresh"]
  <1>1. /\ x \in Request /\ x.user \in Users /\ HoldsLink(x, entries) /\ x.card \in CardIds
        /\ TablesOK /\ x.pc = "touch" /\ x.out # <<>>
    BY Holding, Current DEF TouchCard, Sound, HasOut
  <1>2. /\ cards' = [cards EXCEPT ![x.card].dated = TRUE] /\ UNCHANGED <<entries, bus, served, told, lost>>
        /\ Goto(w, y)
    BY DEF TouchCard, history
  <1>3. Preserves
    <2>1. /\ cards' \in [CardIds -> CardRow]
          /\ \A c \in CardIds : cards[c].state # "unused" => cards'[c].state # "unused"
      <3> HIDE DEF x
      <3> QED BY <1>1, <1>2 DEF TablesOK, Shaped, CardRow
    <2> QED BY <1>1, <1>2, <2>1, AlterPreserves DEF TablesOK, Shaped
  <1>4. /\ y \in Request /\ y.pc = "refresh" /\ y.user = x.user /\ y.card = x.card
        /\ y.entry = x.entry /\ y.out = x.out
    <2> HIDE DEF x
    <2> QED BY <1>1 DEF Request
  <1>5. Sound(y, cards', entries')
    <2> HIDE DEF x, y
    <2> QED BY <1>1, <1>3, <1>4, HoldsStable DEF Sound, HasOut, HoldsLink
  <1> QED BY <1>2, <1>3, <1>4, <1>5 DEF Moves

(***************************************************************************)
(* The update of a link the user already has.                              *)
(***************************************************************************)
LEMMA UpdateMoves ==
  ASSUME IndInv, NEW w \in Workers, UpdateLink(w)
  PROVE  Moves(w) /\ Preserves /\ UNCHANGED <<bus, served, told, lost>>
  <1> DEFINE x == ctx[w]
  <1>1. /\ x \in Request /\ x.user \in Users /\ HoldsLink(x, entries) /\ x.card \in CardIds
        /\ x.entry \in EntryIds /\ TablesOK /\ x.pc = "update"
    BY Holding DEF UpdateLink
  <1>2. UNCHANGED <<bus, served, told, lost>>
    BY DEF UpdateLink, history
  <1>3. CASE Fail(w) /\ UNCHANGED <<cards, entries>>
    BY <1>1, <1>2, <1>3, FailMoves, SamePreserves
  <1>4. CASE /\ entries' = [entries EXCEPT ![x.entry].status =
                              IF "activate" \in x.todo THEN ACTIVE ELSE @]
             /\ cards' = [cards EXCEPT ![x.card].dated = @ \/ "date" \in x.todo]
             /\ Goto(w, Unchanged(x, "refresh"))
    <2>1. Preserves
      <3>1. /\ cards' \in [CardIds -> CardRow]
            /\ \A c \in CardIds : cards[c].state # "unused" => cards'[c].state # "unused"
        <4> DEFINE b == cards[x.card].dated \/ "date" \in x.todo
        <4>2. b \in BOOLEAN
          OBVIOUS
        <4>3. cards' = [cards EXCEPT ![x.card].dated = b]
          BY <1>4
        <4> HIDE DEF x, b
        <4>4. cards' \in [CardIds -> CardRow]
          BY <1>1, <4>2, <4>3 DEF TablesOK, Shaped, CardRow
        <4>5. \A c \in CardIds : cards'[c].state = cards[c].state
          BY <1>1, <4>3 DEF TablesOK, Shaped, CardRow
        <4> QED BY <4>4, <4>5
      <3>2. entries' \in [EntryIds -> EntryRow]
        <4> HIDE DEF x
        <4> QED BY <1>1, <1>4, WrittenStatuses DEF TablesOK, Shaped, EntryRow
      <3>3. \A e \in EntryIds :
              /\ entries'[e].card = entries[e].card /\ entries'[e].user = entries[e].user
              /\ entries'[e].state = entries[e].state
        <4> HIDE DEF x
        <4> QED BY <1>1, <1>4 DEF TablesOK, Shaped, EntryRow
      <3> QED BY <1>1, <3>1, <3>2, <3>3, AlterPreserves
    <2>2. HoldsLink(x, entries')
      BY <1>1, <2>1, HoldsStable
    <2>3. Unchanged(x, "refresh") \in Request /\ Sound(Unchanged(x, "refresh"), cards', entries')
      <3>1. <<"loyalty_card_trusted_add">> \in Seq(Paths)
        BY DEF Paths, Announcements
      <3> HIDE DEF x
      <3> QED BY <1>1, <2>2, <3>1, SpentSound, IdleSound DEF Unchanged
    <2> QED BY <1>2, <1>4, <2>1, <2>3 DEF Moves
  <1> QED BY <1>3, <1>4 DEF UpdateLink, tables

(***************************************************************************)
(* Sending a join again.                                                   *)
(***************************************************************************)
LEMMA RejoinMoves ==
  ASSUME IndInv, NEW w \in Workers, Rejoin(w)
  PROVE  Moves(w) /\ Preserves /\ UNCHANGED <<bus, served, told, lost>>
  <1> DEFINE x == ctx[w]
  <1>1. /\ x \in Request /\ x.user \in Users /\ HoldsLink(x, entries)
        /\ x.entry \in EntryIds /\ TablesOK
    BY Holding DEF Rejoin
  <1>2. /\ entries' = [entries EXCEPT ![x.entry].status =
                         IF entries[x.entry].state = "live"
                         THEN JOIN_ASYNC_IN_PROGRESS ELSE @]
        /\ Goto(w, Spent(x, "refresh", <<"loyalty_card_join">>))
        /\ UNCHANGED <<cards, bus, served, told, lost>>
    BY DEF Rejoin, history
  <1>3. Preserves
    <2>1. entries' \in [EntryIds -> EntryRow]
      <3> HIDE DEF x
      <3> QED BY <1>1, <1>2, WrittenStatuses DEF TablesOK, Shaped, EntryRow
    <2>2. \A e \in EntryIds :
            /\ entries'[e].card = entries[e].card /\ entries'[e].user = entries[e].user
            /\ entries'[e].state = entries[e].state
      <3> HIDE DEF x
      <3> QED BY <1>1, <1>2 DEF TablesOK, Shaped, EntryRow
    <2> QED BY <1>1, <1>2, <2>1, <2>2, AlterPreserves DEF TablesOK, Shaped
  <1>4. /\ Spent(x, "refresh", <<"loyalty_card_join">>) \in Request
        /\ Sound(Spent(x, "refresh", <<"loyalty_card_join">>), cards', entries')
    <2>1. <<"loyalty_card_join">> \in Seq(Paths)
      BY DEF Paths, Announcements
    <2>2. HoldsLink(x, entries')
      BY <1>1, <1>3, HoldsStable
    <2> HIDE DEF x
    <2> QED BY <1>1, <2>1, <2>2, SpentSound
  <1> QED BY <1>2, <1>3, <1>4 DEF Moves

(***************************************************************************)
(* Removing a failed join.                                                 *)
(***************************************************************************)
LEMMA RemoveMoves ==
  ASSUME IndInv, NEW w \in Workers, Remove(w)
  PROVE  Moves(w) /\ Preserves /\ UNCHANGED <<bus, served, told, lost>>
  <1> DEFINE x == ctx[w]
  <1>1. /\ HoldsLink(x, entries) /\ x.entry \in EntryIds /\ x.card \in CardIds /\ TablesOK
    BY Holding DEF Remove
  <1>2. /\ cards' = [cards EXCEPT ![x.card].state = "deleted"]
        /\ entries' = [entries EXCEPT ![x.entry].state = "gone"]
        /\ UNCHANGED <<bus, served, told, lost>>
    BY DEF Remove, history
  <1>3. Moves(w)
    BY FinishMoves DEF Remove
  <1>4. Preserves
    <2> HIDE DEF x
    <2>1. /\ cards' \in [CardIds -> CardRow]
          /\ \A c \in CardIds : cards[c].state # "unused" => cards'[c].state # "unused"
      BY <1>1, <1>2 DEF TablesOK, Shaped, CardRow
    <2>2. entries' \in [EntryIds -> EntryRow]
      BY <1>1, <1>2 DEF TablesOK, Shaped, EntryRow
    <2>3. \A e \in EntryIds :
            /\ entries'[e].card = entries[e].card /\ entries'[e].user = entries[e].user
            /\ \/ entries'[e].state = entries[e].state
               \/ entries[e].state # "unused" /\ entries'[e].state = "gone"
      BY <1>1, <1>2 DEF TablesOK, Shaped, EntryRow, HoldsLink
    <2> QED BY <1>1, <2>1, <2>2, <2>3, AlterPreserves
  <1> QED BY <1>2, <1>3, <1>4

(***************************************************************************)
(* Every database transaction of a request.                                *)
(***************************************************************************)
LEMMA WriteMoves ==
  ASSUME IndInv, NEW w \in Workers, Write(w)
  PROVE  Moves(w) /\ Preserves /\ UNCHANGED <<bus, served, told, lost>>
  BY CreateMoves, LinkMoves, TouchMoves, UpdateMoves, RejoinMoves, RemoveMoves DEF Write

(***************************************************************************)
(* The announcements a request owes are of links in the table.             *)
(***************************************************************************)
LEMMA OwedTyped ==
  ASSUME IndInv, NEW w \in Workers
  PROVE  /\ Owed(ctx[w]) \subseteq EntryIds \X Announcements
         /\ ctx[w].pc \notin {"touch", "refresh", "publish"} => Owed(ctx[w]) = {}
  <1> DEFINE x == ctx[w]
  <1>1. x \in Request /\ Sound(x, cards, entries)
    BY Current
  <1>2. CASE x.pc \in {"touch", "refresh", "publish"}
    <2>1. x.entry \in EntryIds
      BY <1>1, <1>2 DEF Sound, HoldsLink
    <2> HIDE DEF x
    <2>2. ASSUME NEW o \in Owed(x) PROVE o \in EntryIds \X Announcements
      <3>1. PICK p \in Announcements : o = <<x.entry, p>>
        BY DEF Owed
      <3> QED BY <2>1, <3>1
    <2> QED BY <1>2, <2>2 DEF x
  <1>3. CASE x.pc = "failed"
    <2>1. x.out = <<"add_trusted_failed">>
      BY <1>1, <1>3 DEF Sound
    <2>2. "add_trusted_failed" \notin Announcements
      BY DEF Announcements
    <2> HIDE DEF x
    <2>3. ASSUME NEW o \in Owed(x) PROVE FALSE
      <3>1. PICK i \in DOMAIN x.out : x.out[i] \in Announcements
        BY DEF Owed
      <3> QED BY <2>1, <2>2, <3>1
    <2> QED BY <1>3, <2>3 DEF x
  <1>4. CASE x.pc \notin HasOut
    <2>1. x.out = <<>>
      BY <1>1, <1>4 DEF Sound
    <2> HIDE DEF x
    <2>2. ASSUME NEW o \in Owed(x) PROVE FALSE
      <3>1. PICK i \in DOMAIN x.out : x.out[i] \in Announcements
        BY DEF Owed
      <3> QED BY <2>1, <3>1
    <2> QED BY <1>4, <2>2 DEF HasOut, x
  <1> QED BY <1>2, <1>3, <1>4 DEF HasOut

(***************************************************************************)
(* The row is read again after the commit.                                 *)
(***************************************************************************)
LEMMA RefreshMoves ==
  ASSUME IndInv, NEW w \in Workers, Refresh(w)
  PROVE  /\ Moves(w) /\ UNCHANGED <<cards, entries, bus, served, told>>
         /\ lost' = lost \/ lost' = lost \cup Owed(ctx[w])
  <1> DEFINE x == ctx[w]
             y == [x EXCEPT !.pc = "publish"]
  <1>1. UNCHANGED <<cards, entries, bus, served, told>> /\ x.pc = "refresh"
    BY DEF Refresh, tables
  <1>2. CASE Goto(w, y) /\ UNCHANGED lost
    <2>1. x \in Request /\ HoldsLink(x, entries) /\ x.user \in Users /\ x.out # <<>>
      BY <1>1, Holding, Current DEF Sound, HasOut
    <2>2. /\ y \in Request /\ y.pc = "publish" /\ y.user = x.user /\ y.card = x.card
          /\ y.entry = x.entry /\ y.out = x.out
      <3> HIDE DEF x
      <3> QED BY <2>1 DEF Request
    <2>3. Sound(y, cards, entries)
      <3> HIDE DEF x, y
      <3> QED BY <2>1, <2>2 DEF Sound, HasOut, HoldsLink
    <2> QED BY <1>1, <1>2, <2>2, <2>3 DEF Moves
  <1>3. CASE Fail(w) /\ lost' = lost \cup Owed(x)
    BY <1>1, <1>3, FailMoves
  <1> QED BY <1>2, <1>3 DEF Refresh

(***************************************************************************)
(* The next message is sent; what it names is in the tables.               *)
(***************************************************************************)
LEMMA PublishMoves ==
  ASSUME IndInv, NEW w \in Workers, Publish(w)
  PROVE  /\ Moves(w) /\ UNCHANGED <<cards, entries, served, lost>>
         /\ IsABag(bus)' /\ BagToSet(bus)' = BagToSet(bus) \cup {MessageOf(ctx[w])}
         /\ MessageOf(ctx[w]) \in Message /\ NamesCommittedLink(MessageOf(ctx[w]))
         /\ told' \subseteq EntryIds
  <1> DEFINE x == ctx[w]
             m == MessageOf(x)
             y == [x EXCEPT !.out = Tail(x.out)]
  <1>1. x \in Request /\ Sound(x, cards, entries) /\ x.pc \in {"publish", "failed"}
    BY Current DEF Publish
  <1>2. x.user \in Users /\ x.out \in Seq(Paths) /\ x.out # <<>>
    BY <1>1 DEF Sound, HasOut, Request
  <1>3. /\ Head(x.out) \in Paths /\ Tail(x.out) \in Seq(Paths)
        /\ Len(x.out) # 1 => Tail(x.out) # <<>>
    <2> DEFINE out == x.out
    <2>1. out \in Seq(Paths) /\ out # <<>>
      BY <1>2
    <2> HIDE DEF out
    <2>2. Head(out) \in Paths /\ Tail(out) \in Seq(Paths)
      BY <2>1
    <2>3. Len(Tail(out)) = Len(out) - 1 /\ Len(out) \in Nat /\ Len(out) # 0
      BY <2>1
    <2>4. Len(out) # 1 => Tail(out) # <<>>
      BY <2>3
    <2> QED BY <2>2, <2>4 DEF out
  <1>4. /\ m.path = Head(x.out) /\ m.user = x.user /\ m.entry = x.entry
        /\ m.card \in {x.old, x.card}
        /\ m.path # "delete_loyalty_card" => m.card = x.card
    <2> HIDE DEF x
    <2> QED BY DEF MessageOf
  <1>5. m \in Message
    <2> HIDE DEF x
    <2> QED BY <1>1, <1>2, <1>3 DEF MessageOf, Message, Request
  <1>6. NamesCommittedLink(m)
    <2>1. CASE x.pc = "publish"
      <3>1. HoldsLink(x, entries)
        BY <1>1, <2>1 DEF Sound
      <3> HIDE DEF x, m
      <3> QED BY <1>4, <3>1 DEF NamesCommittedLink, HoldsLink
    <2>2. CASE x.pc = "failed"
      <3>1. m.path = "add_trusted_failed"
        BY <1>1, <1>4, <2>2 DEF Sound
      <3> HIDE DEF x, m
      <3> QED BY <3>1 DEF NamesCommittedLink
    <2> QED BY <1>1, <2>1, <2>2
  <1>7. Moves(w)
    <2>1. CASE Len(x.out) = 1
      BY <2>1, FinishMoves DEF Publish, Finish
    <2>2. CASE Len(x.out) # 1
      <3>1. Goto(w, y)
        BY <2>2 DEF Publish
      <3>2. /\ y \in Request /\ y.pc = x.pc /\ y.user = x.user /\ y.card = x.card
            /\ y.entry = x.entry /\ y.out = Tail(x.out)
        <4> HIDE DEF x
        <4> QED BY <1>1, <1>3 DEF Request
      <3>3. x.pc = "publish"
        <4>1. x.pc = "failed" => x.out = <<"add_trusted_failed">>
          BY <1>1 DEF Sound
        <4> HIDE DEF x
        <4> QED BY <1>1, <2>2, <4>1
      <3>4. Sound(y, cards', entries')
        <4>1. UNCHANGED <<cards, entries>>
          BY DEF Publish, tables
        <4> HIDE DEF x, y
        <4> QED BY <1>1, <1>2, <1>3, <2>2, <3>2, <3>3, <4>1 DEF Sound, HasOut, HoldsLink
      <3> QED BY <3>1, <3>2, <3>4 DEF Moves
    <2> QED BY <2>1, <2>2
  <1>8. /\ IsABag(bus)' /\ BagToSet(bus)' = BagToSet(bus) \cup {m}
    <2>1. IsABag(bus) /\ bus' = bus (+) SetToBag({m})
      BY DEF IndInv, TypeOK, Publish
    <2> HIDE DEF m
    <2> QED BY <2>1, BagAdd
  <1>9. told' \subseteq EntryIds
    <2>1. told \subseteq EntryIds /\ told' = told \cup (IF Head(x.out) \in Announcements THEN {x.entry} ELSE {})
      BY DEF IndInv, TypeOK, Publish
    <2>2. Head(x.out) \in Announcements => x.entry \in EntryIds
      <3>1. CASE x.pc = "publish"
        BY <1>1, <3>1 DEF Sound, HoldsLink
      <3>2. CASE x.pc = "failed"
        BY <1>1, <3>2 DEF Sound, Announcements
      <3> QED BY <1>1, <3>1, <3>2
    <2> QED BY <2>1, <2>2
  <1> QED BY <1>5, <1>6, <1>7, <1>8, <1>9 DEF Publish, tables

-----------------------------------------------------------------------------
(* Type correctness *)

(***************************************************************************)
(* A step of one worker leaves every worker's request sound.               *)
(***************************************************************************)
LEMMA RequestsStep ==
  ASSUME IndInv, NEW w \in Workers, Moves(w), Grows(cards, entries, cards', entries')
  PROVE  ctx' \in [Workers -> Request] /\ RequestsSound'
  <1>1. PICK y \in Request : ctx' = [ctx EXCEPT ![w] = y] /\ Sound(y, cards', entries')
    BY DEF Moves, Goto
  <1>2. ctx \in [Workers -> Request]
    BY DEF IndInv, TypeOK
  <1>3. ctx' \in [Workers -> Request]
    BY <1>1, <1>2
  <1>4. ASSUME NEW v \in Workers PROVE Sound(ctx'[v], cards', entries')
    <2>1. CASE v = w
      BY <1>1, <1>2, <2>1
    <2>2. CASE v # w
      <3>1. ctx'[v] = ctx[v] /\ Sound(ctx[v], cards, entries)
        BY <1>1, <1>2, <2>2 DEF IndInv, RequestsSound
      <3>2. Sound(ctx[v], cards', entries')
        BY <3>1, SoundStable
      <3> QED BY <3>1, <3>2
    <2> QED BY <2>1, <2>2
  <1> QED BY <1>3, <1>4 DEF RequestsSound

(***************************************************************************)
(* Hermes only alters the rows there are, and only takes messages away.    *)
(***************************************************************************)
LEMMA HermesPreserves ==
  ASSUME IndInv, Hermes
  PROVE  /\ Preserves /\ UNCHANGED <<ctx, served, told, lost>>
         /\ IsABag(bus)' /\ BagToSet(bus)' \subseteq BagToSet(bus)
  <1>1. TablesOK /\ IsABag(bus)
    BY IndInvTables DEF IndInv, TypeOK
  <1>2. ASSUME NEW e \in EntryIds, NEW s \in HermesStatuses, HermesUpdates(e, s)
        PROVE  Preserves /\ UNCHANGED <<bus, ctx, served, told, lost>>
    <2>1. entries' = [entries EXCEPT ![e].status = s] /\ UNCHANGED <<cards, bus, ctx, served, told, lost>>
      BY <1>2 DEF HermesUpdates, history
    <2>2. entries' \in [EntryIds -> EntryRow]
      BY <1>1, <2>1, HermesAssumption DEF TablesOK, Shaped, EntryRow
    <2>3. \A d \in EntryIds :
            /\ entries'[d].card = entries[d].card /\ entries'[d].user = entries[d].user
            /\ entries'[d].state = entries[d].state
      BY <1>1, <2>1 DEF TablesOK, Shaped, EntryRow
    <2>4. Preserves
      BY <1>1, <2>1, <2>2, <2>3, AlterPreserves DEF TablesOK, Shaped
    <2> QED BY <2>1, <2>4
  <1>3. ASSUME NEW m \in BagToSet(bus), HermesHandles(m)
        PROVE  /\ Preserves /\ UNCHANGED <<ctx, served, told, lost>>
               /\ IsABag(bus)' /\ BagToSet(bus)' \subseteq BagToSet(bus)
    <2>1. IsABag(bus)' /\ BagToSet(bus)' \subseteq BagToSet(bus)
      <3>1. bus' = bus (-) SetToBag({m})
        BY <1>3 DEF HermesHandles
      <3> QED BY <1>1, <3>1, BagRemove
    <2>2. UNCHANGED <<ctx, served, told, lost>>
      BY <1>3 DEF HermesHandles, history
    <2>3. CASE HermesRemovesLink(m.card, m.user)
      <3> DEFINE c == m.card
                 own == {e \in EntryIds : /\ entries[e].state = "live"
                                          /\ entries[e].card = c /\ entries[e].user = m.user}
      <3>1. /\ entries' = [e \in EntryIds |->
                             IF e \in own THEN [entries[e] EXCEPT !.state = "gone"]
                                          ELSE entries[e]]
            /\ cards' = cards \/ cards' = [cards EXCEPT ![c].state = "deleted"]
        BY <2>3 DEF HermesRemovesLink
      <3>2. \A e \in own : entries[e].state = "live"
        OBVIOUS
      <3> HIDE DEF c, own
      <3>3. /\ cards' \in [CardIds -> CardRow]
            /\ \A d \in CardIds : cards[d].state # "unused" => cards'[d].state # "unused"
        BY <1>1, <3>1 DEF TablesOK, Shaped, CardRow
      <3>4. entries' \in [EntryIds -> EntryRow]
        BY <1>1, <3>1 DEF TablesOK, Shaped, EntryRow
      <3>5. \A e \in EntryIds :
              /\ entries'[e].card = entries[e].card /\ entries'[e].user = entries[e].user
              /\ \/ entries'[e].state = entries[e].state
                 \/ entries[e].state # "unused" /\ entries'[e].state = "gone"
        <4> TAKE e \in EntryIds
        <4>1. entries[e] \in EntryRow
          BY <1>1 DEF TablesOK, Shaped
        <4>2. CASE e \in own
          <5>1. entries'[e] = [entries[e] EXCEPT !.state = "gone"] /\ entries[e].state = "live"
            BY <3>1, <3>2, <4>2
          <5> QED BY <4>1, <5>1 DEF EntryRow
        <4>3. CASE e \notin own
          BY <3>1, <4>3
        <4> QED BY <4>2, <4>3
      <3> QED BY <1>1, <2>1, <2>2, <3>3, <3>4, <3>5, AlterPreserves
    <2>4. ASSUME NEW s \in HermesStatuses, UNCHANGED cards,
                 entries' = [entries EXCEPT ![m.entry].status =
                               IF entries[m.entry].state = "live" THEN s ELSE @]
          PROVE  Preserves
      <3> DEFINE st == IF entries[m.entry].state = "live" THEN s ELSE entries[m.entry].status
      <3>1. m.entry \in EntryIds => st \in Statuses
        BY <1>1, HermesAssumption DEF TablesOK, Shaped, EntryRow
      <3>2. entries' = [entries EXCEPT ![m.entry].status = st]
        BY <2>4
      <3> HIDE DEF st
      <3>3. entries' \in [EntryIds -> EntryRow]
        BY <1>1, <3>1, <3>2 DEF TablesOK, Shaped, EntryRow
      <3>4. \A d \in EntryIds :
              /\ entries'[d].card = entries[d].card /\ entries'[d].user = entries[d].user
              /\ entries'[d].state = entries[d].state
        BY <1>1, <3>2 DEF TablesOK, Shaped, EntryRow
      <3> QED BY <1>1, <2>4, <3>3, <3>4, AlterPreserves DEF TablesOK, Shaped
    <2> QED BY <1>1, <1>3, <2>1, <2>2, <2>3, <2>4, SamePreserves DEF HermesHandles, tables
  <1> QED BY <1>1, <1>2, <1>3 DEF Hermes

(***************************************************************************)
(* The typed state, taken apart.                                           *)
(***************************************************************************)
LEMMA TypeParts ==
  TypeOK <=> /\ TablesOK
             /\ ctx \in [Workers -> Request]
             /\ IsABag(bus) /\ BagToSet(bus) \subseteq Message
             /\ served \in 0..MaxRequests
             /\ told \subseteq EntryIds
             /\ lost \subseteq EntryIds \X Announcements
  BY WellFormedParts DEF TypeOK, TablesOK

(***************************************************************************)
(* The database as the program finds it, with no request running.          *)
(***************************************************************************)
LEMMA InitInd == Init => IndInv
  <1> SUFFICES ASSUME Init PROVE IndInv
    OBVIOUS
  <1>1. PICK t \in InitialTables :
          /\ cards = t.cards /\ entries = t.entries
          /\ told = {e \in EntryIds : t.entries[e].state # "unused"}
    BY DEF Init
  <1>2. TablesOK
    BY <1>1, TablesAssumption DEF WellFormed, TablesOK, Shaped, Anchored, Distinct
  <1>3. ctx \in [Workers -> Request] /\ \A w \in Workers : ctx[w] = Idle
    BY IdleSound DEF Init
  <1>4. RequestsSound
    BY <1>3, IdleSound DEF RequestsSound
  <1>5. IsABag(bus) /\ BagToSet(bus) = {}
    BY DEF Init, EmptyBag, IsABag, BagToSet, SetToBag
  <1>6. served \in 0..MaxRequests /\ lost = {}
    BY BoundsAssumption DEF Init
  <1> QED BY <1>1, <1>2, <1>3, <1>4, <1>5, <1>6, TypeParts DEF IndInv

(***************************************************************************)
(* Every step keeps the typed state, and rows once used stay used with the *)
(* user and the card they were made for.                                   *)
(***************************************************************************)
LEMMA StepInd ==
  ASSUME IndInv, [Next]_vars
  PROVE  IndInv' /\ Grows(cards, entries, cards', entries')
  <1> DEFINE G == Preserves /\ ctx' \in [Workers -> Request] /\ RequestsSound'
             R == /\ IsABag(bus)' /\ BagToSet(bus)' \subseteq Message
                  /\ served' \in 0..MaxRequests /\ told' \subseteq EntryIds
                  /\ lost' \subseteq EntryIds \X Announcements
  <1>1. /\ TablesOK /\ ctx \in [Workers -> Request]
        /\ IsABag(bus) /\ BagToSet(bus) \subseteq Message
        /\ served \in 0..MaxRequests /\ told \subseteq EntryIds
        /\ lost \subseteq EntryIds \X Announcements
    BY TypeParts DEF IndInv
  <1>2. ASSUME NEW w \in Workers, Moves(w), Preserves PROVE G
    BY <1>2, RequestsStep DEF Preserves
  <1>3. UNCHANGED <<cards, entries>> => Preserves
    BY <1>1, SamePreserves
  <1>4. UNCHANGED <<bus, served, told, lost>> => R
    BY <1>1
  <1>5. ASSUME NEW w \in Workers, Receive(w) PROVE G /\ R
    <2>1. UNCHANGED <<cards, entries, bus, told, lost>> /\ served < MaxRequests /\ served' = served + 1
      BY <1>5 DEF Receive, tables, history
    <2>2. served' \in 0..MaxRequests
      BY <1>1, <2>1, BoundsAssumption
    <2>3. G
      BY <1>2, <1>3, <1>5, <2>1, ReceiveMoves
    <2> QED BY <1>1, <2>1, <2>2, <2>3
  <1>6. ASSUME NEW w \in Workers, Fetch(w) \/ CheckMid(w) \/ Route(w) PROVE G /\ R
    <2>1. Moves(w) /\ UNCHANGED <<cards, entries, bus, served, told, lost>>
      BY <1>6, FetchMoves, CheckMidMoves, RouteMoves
    <2> QED BY <1>2, <1>3, <1>4, <2>1
  <1>7. ASSUME NEW w \in Workers, Write(w) PROVE G /\ R
    BY <1>2, <1>4, <1>7, WriteMoves
  <1>8. ASSUME NEW w \in Workers, Refresh(w) PROVE G /\ R
    <2>1. /\ Moves(w) /\ UNCHANGED <<cards, entries, bus, served, told>>
          /\ lost' = lost \/ lost' = lost \cup Owed(ctx[w])
      BY <1>8, RefreshMoves
    <2>2. lost' \subseteq EntryIds \X Announcements
      BY <1>1, <2>1, OwedTyped
    <2> QED BY <1>1, <1>2, <1>3, <2>1, <2>2
  <1>9. ASSUME NEW w \in Workers, Publish(w) PROVE G /\ R
    BY <1>1, <1>2, <1>3, <1>9, PublishMoves
  <1>10. ASSUME NEW w \in Workers, Abort(w) \/ Crash(w) PROVE G /\ R
    <2>1. /\ ctx[w].pc # "idle" /\ (Fail(w) \/ Finish(w))
          /\ UNCHANGED <<cards, entries, bus, served, told>>
          /\ lost' = lost \cup Owed(ctx[w])
      BY <1>10 DEF Abort, Crash, tables
    <2>2. Moves(w)
      BY <1>10, <2>1, FailMoves, FinishMoves DEF Abort, Crash
    <2>3. lost' \subseteq EntryIds \X Announcements
      BY <1>1, <2>1, OwedTyped
    <2> QED BY <1>1, <1>2, <1>3, <2>1, <2>2, <2>3
  <1>11. ASSUME UNCHANGED ctx, Preserves PROVE G
    <2>1. ASSUME NEW w \in Workers PROVE Sound(ctx'[w], cards', entries')
      <3>1. Sound(ctx[w], cards, entries)
        BY DEF IndInv, RequestsSound
      <3> QED BY <1>11, <3>1, SoundStable DEF Preserves
    <2> QED BY <1>1, <1>11, <2>1 DEF RequestsSound
  <1>12. ASSUME Hermes PROVE G /\ R
    <2>1. /\ Preserves /\ UNCHANGED <<ctx, served, told, lost>>
          /\ IsABag(bus)' /\ BagToSet(bus)' \subseteq BagToSet(bus)
      BY <1>12, HermesPreserves
    <2> QED BY <1>1, <1>11, <2>1
  <1>13. ASSUME UNCHANGED vars PROVE G /\ R
    BY <1>3, <1>4, <1>11, <1>13 DEF vars
  <1>14. G /\ R
    <2> HIDE DEF G, R
    <2> QED BY <1>5, <1>6, <1>7, <1>8, <1>9, <1>10, <1>12, <1>13 DEF Next, Proceed, Terminated
  <1>15. TypeOK' <=> (/\ TablesOK
                      /\ ctx \in [Workers -> Request]
                      /\ IsABag(bus) /\ BagToSet(bus) \subseteq Message
                      /\ served \in 0..MaxRequests
                      /\ told \subseteq EntryIds
                      /\ lost \subseteq EntryIds \X Announcements)'
    BY TypeParts, PTL
  <1> QED BY <1>14, <1>15 DEF IndInv, Preserves

(***************************************************************************)
(* The invariant of the specification that the other theorems rest on.     *)
(***************************************************************************)
THEOREM Inductive == Spec => []IndInv
  <1>1. IndInv /\ [Next]_vars => IndInv'
    BY StepInd
  <1> QED BY <1>1, InitInd, PTL DEF Spec

(***************************************************************************)
(* The tables, the queue and the workers' records keep their types, and    *)
(* no user is linked twice to a card, whatever the workers, the endpoints  *)
(* and the faults.                                                         *)
(***************************************************************************)
THEOREM TypeCorrect == Spec => []TypeOK
  <1>1. IndInv => TypeOK
    BY DEF IndInv
  <1> QED BY <1>1, Inductive, PTL

-----------------------------------------------------------------------------
(* What Hermes is told *)

(***************************************************************************)
(* A message about a committed link stays one.                             *)
(***************************************************************************)
LEMMA NamesStable ==
  ASSUME Grows(cards, entries, cards', entries'), NEW m, NamesCommittedLink(m)
  PROVE  NamesCommittedLink(m)'
  BY DEF NamesCommittedLink, Grows

(***************************************************************************)
(* Only a publish adds to the queue.                                       *)
(***************************************************************************)
LEMMA QueueStep ==
  ASSUME IndInv, [Next]_vars
  PROVE  \/ BagToSet(bus)' \subseteq BagToSet(bus)
         \/ \E w \in Workers : Publish(w)
  <1>1. CASE \E w \in Workers : Receive(w) \/ Fetch(w) \/ CheckMid(w) \/ Route(w)
                  \/ Write(w) \/ Refresh(w) \/ Abort(w) \/ Crash(w)
    BY <1>1, FetchMoves, CheckMidMoves, RouteMoves, WriteMoves, RefreshMoves
       DEF Receive, Abort, Crash
  <1>2. CASE Hermes
    BY <1>2, HermesPreserves
  <1>3. CASE UNCHANGED vars
    BY <1>3 DEF vars
  <1> QED BY <1>1, <1>2, <1>3 DEF Next, Proceed, Terminated

(***************************************************************************)
(* Hermes is never sent the name of something that is not in the tables.   *)
(***************************************************************************)
THEOREM Integrity == Spec => []MessageIntegrity
  <1>1. Init => MessageIntegrity
    <2>1. Init => BagToSet(bus) = {}
      BY DEF Init, EmptyBag, IsABag, BagToSet, SetToBag
    <2> QED BY <2>1 DEF MessageIntegrity
  <1>2. IndInv /\ MessageIntegrity /\ [Next]_vars => MessageIntegrity'
    <2> SUFFICES ASSUME IndInv, MessageIntegrity, [Next]_vars,
                        NEW m \in BagToSet(bus)'
                 PROVE  NamesCommittedLink(m)'
      BY DEF MessageIntegrity
    <2>1. Grows(cards, entries, cards', entries')
      BY StepInd
    <2>2. CASE m \in BagToSet(bus)
      BY <2>1, <2>2, NamesStable DEF MessageIntegrity
    <2>3. CASE m \notin BagToSet(bus)
      <3>1. PICK w \in Workers : Publish(w)
        BY <2>3, QueueStep
      <3>2. m = MessageOf(ctx[w]) /\ NamesCommittedLink(MessageOf(ctx[w]))
        BY <2>3, <3>1, PublishMoves
      <3> QED BY <2>1, <3>2, NamesStable
    <2> QED BY <2>2, <2>3
  <1> QED BY <1>1, <1>2, Inductive, PTL DEF Spec

-----------------------------------------------------------------------------
(* What Hermes is yet to be told *)

(***************************************************************************)
(* What a request owes, spelled out.                                       *)
(***************************************************************************)
LEMMA OwedIff ==
  ASSUME NEW x, NEW e, NEW p
  PROVE  <<e, p>> \in Owed(x) <=> /\ x.entry = e /\ p \in Announcements
                                  /\ \E i \in DOMAIN x.out : x.out[i] = p
  BY DEF Owed

(***************************************************************************)
(* Announcements are owed between the commit and the last message, so the  *)
(* steps of a request before its commit cannot lose one.                   *)
(***************************************************************************)
LEMMA EarlySteps ==
  ASSUME NEW w \in Workers,
         Receive(w) \/ Fetch(w) \/ CheckMid(w) \/ Route(w)
            \/ CreateCard(w) \/ LinkCard(w) \/ UpdateLink(w) \/ Rejoin(w) \/ Remove(w)
  PROVE  ctx[w].pc \notin {"touch", "refresh", "publish"}
  <1>1. Fetch(w) => ctx[w].pc = "fetch"
    BY DEF Fetch, NotFound, Fetches, Authorise, TrustedUpdate, Register, PutJoin, DeleteJoin, Delete
  <1>2. Route(w) => ctx[w].pc = "lookup"
    BY DEF Route, NoCardRoute, ManyCardsRoute, AddRoute, AddAndAuthoriseRoute,
           TrustedAddRoute, SingleCard
  <1> QED BY <1>1, <1>2 DEF Receive, CheckMid, CreateCard, LinkCard, UpdateLink, Rejoin, Remove

(***************************************************************************)
(* Each step of the system is one of a worker, which changes only its own  *)
(* record, or of none.                                                     *)
(***************************************************************************)
WorkerStep(w) ==
    \/ Receive(w) \/ Fetch(w) \/ CheckMid(w) \/ Route(w)
    \/ CreateCard(w) \/ LinkCard(w) \/ TouchCard(w) \/ UpdateLink(w) \/ Rejoin(w) \/ Remove(w)
    \/ Refresh(w) \/ Publish(w) \/ Abort(w) \/ Crash(w)

\* A step is of one worker, or of Hermes.
LEMMA OneWorkerSteps ==
  ASSUME IndInv, [Next]_vars
  PROVE  \/ \E w \in Workers : WorkerStep(w) /\ \A v \in Workers \ {w} : ctx'[v] = ctx[v]
         \/ Hermes /\ UNCHANGED <<ctx, told, lost>>
         \/ UNCHANGED vars
  <1>1. ASSUME NEW w \in Workers, WorkerStep(w)
        PROVE  \A v \in Workers \ {w} : ctx'[v] = ctx[v]
    <2>1. \E y : Goto(w, y)
      <3>1. CASE ~(Abort(w) \/ Crash(w))
        BY <1>1, <3>1, ReceiveMoves, FetchMoves, CheckMidMoves, RouteMoves, CreateMoves,
           LinkMoves, TouchMoves, UpdateMoves, RejoinMoves, RemoveMoves, RefreshMoves,
           PublishMoves DEF WorkerStep, Moves
      <3>2. CASE Abort(w) \/ Crash(w)
        BY <3>2 DEF Abort, Crash, Fail, Finish
      <3> QED BY <3>1, <3>2
    <2>2. ctx \in [Workers -> Request]
      BY DEF IndInv, TypeOK
    <2> QED BY <2>1, <2>2 DEF Goto
  <1>2. CASE Hermes
    BY <1>2, HermesPreserves
  <1>3. CASE \E w \in Workers : WorkerStep(w)
    BY <1>1, <1>3
  <1> QED BY <1>2, <1>3 DEF Next, Proceed, Write, Terminated, WorkerStep

(***************************************************************************)
(* An announcement that is owed stays owed until it is published, unless   *)
(* the request dies.                                                       *)
(***************************************************************************)
LEMMA OwingStep ==
  ASSUME IndInv, [Next]_vars, NEW e, NEW p, Owing(e, p)
  PROVE  \/ Owing(e, p)'
         \/ <<e, p>> \in lost'
         \/ \E w \in Workers : Publish(w) /\ ctx[w].entry = e /\ Head(ctx[w].out) = p
  <1>1. PICK v \in Workers : <<e, p>> \in Owed(ctx[v])
    BY DEF Owing
  <1>2. /\ ctx[v].pc \in {"touch", "refresh", "publish"}
        /\ ctx[v] \in Request /\ Sound(ctx[v], cards, entries)
        /\ ctx[v].entry = e /\ p \in Announcements
    BY <1>1, OwedTyped, OwedIff, Current
  <1>3. ASSUME ctx'[v].entry = ctx[v].entry, ctx'[v].out = ctx[v].out PROVE Owing(e, p)'
    BY <1>1, <1>3, OwedIff DEF Owing
  <1>4. CASE ctx'[v] = ctx[v]
    BY <1>3, <1>4
  <1>5. CASE WorkerStep(v)
    <2>1. ctx \in [Workers -> Request]
      BY DEF IndInv, TypeOK
    <2>2. CASE TouchCard(v)
      <3>1. ctx'[v] = [ctx[v] EXCEPT !.pc = "refresh"]
        BY <2>1, <2>2 DEF TouchCard, Goto
      <3> QED BY <1>2, <1>3, <3>1 DEF Request
    <2>3. CASE Refresh(v)
      <3>1. CASE Goto(v, [ctx[v] EXCEPT !.pc = "publish"])
        <4>1. ctx'[v] = [ctx[v] EXCEPT !.pc = "publish"]
          BY <2>1, <3>1 DEF Goto
        <4> QED BY <1>2, <1>3, <4>1 DEF Request
      <3>2. CASE lost' = lost \cup Owed(ctx[v])
        BY <1>1, <3>2
      <3> QED BY <2>3, <3>1, <3>2 DEF Refresh
    <2>4. CASE Publish(v)
      <3> DEFINE out == ctx[v].out
      <3>1. PICK i \in DOMAIN out : out[i] = p
        BY <1>1, OwedIff
      <3>2. out \in Seq(Paths) /\ out # <<>>
        BY <1>2 DEF Sound, HasOut, Request
      <3>3. CASE Head(out) = p
        BY <1>2, <2>4, <3>3
      <3>4. CASE Head(out) # p
        <4>1. i # 1 /\ Len(out) # 1 /\ i - 1 \in DOMAIN Tail(out) /\ Tail(out)[i - 1] = p
          <5> HIDE DEF out
          <5>1. out[1] = Head(out) /\ DOMAIN out = 1..Len(out) /\ Len(out) \in Nat
            BY <3>2
          <5>2. i \in Nat /\ i # 1 /\ 1 <= i /\ i <= Len(out)
            BY <3>1, <3>4, <5>1
          <5>3. /\ DOMAIN Tail(out) = 1..(Len(out) - 1)
                /\ \A j \in 1..(Len(out) - 1) : Tail(out)[j] = out[j + 1]
            BY <3>2
          <5>4. i - 1 \in 1..(Len(out) - 1)
            BY <5>1, <5>2
          <5>5. Tail(out)[i - 1] = out[(i - 1) + 1]
            BY <5>3, <5>4
          <5>6. (i - 1) + 1 = i /\ Len(out) # 1
            BY <5>1, <5>2
          <5>7. Tail(out)[i - 1] = out[i]
            BY <5>5, <5>6, Zenon
          <5>8. i - 1 \in DOMAIN Tail(out)
            BY <5>3, <5>4, Zenon
          <5> QED BY <3>1, <5>2, <5>6, <5>7, <5>8, Zenon
        <4>2. ctx'[v] = [ctx[v] EXCEPT !.out = Tail(out)]
          BY <2>1, <2>4, <4>1 DEF Publish, Goto
        <4>3. ctx'[v].entry = e /\ ctx'[v].out = Tail(out)
          <5> HIDE DEF out
          <5> QED BY <1>2, <4>2 DEF Request
        <4>4. <<e, p>> \in Owed(ctx'[v])
          <5> DEFINE x == ctx'[v]
          <5>1. x.entry = e /\ x.out = Tail(out)
            BY <4>3
          <5> HIDE DEF out, x
          <5>2. \E j \in DOMAIN x.out : x.out[j] = p
            BY <4>1, <5>1, Zenon
          <5>3. <<e, p>> \in Owed(x)
            BY <1>2, <5>1, <5>2, OwedIff
          <5> QED BY <5>3 DEF x
        <4> QED BY <4>4 DEF Owing
      <3> QED BY <3>3, <3>4
    <2>5. CASE Abort(v) \/ Crash(v)
      BY <1>1, <2>5 DEF Abort, Crash
    <2> QED BY <1>2, <1>5, <2>2, <2>3, <2>4, <2>5, EarlySteps DEF WorkerStep
  <1> QED BY <1>4, <1>5, OneWorkerSteps DEF vars

(***************************************************************************)
(* A new link is owed its announcement, a joining one its join message.    *)
(***************************************************************************)
LEMMA InsertOwes ==
  ASSUME IndInv, NEW w \in Workers, NEW e \in EntryIds, NEW c \in CardIds,
         NEW pc \in {"touch", "refresh"}, ctx[w].op \in Linking,
         InsertEntry(e, c, ctx[w]),
         NEW y \in Request, y.entry = e,
         Goto(w, Spent(y, pc, Onward(ctx[w].op)))
  PROVE  /\ \E p \in Announcements : Owing(e, p)'
         /\ entries'[e].status = JOIN_ASYNC_IN_PROGRESS => Owing(e, "loyalty_card_join")'
         /\ \A d \in EntryIds \ {e} : entries'[d] = entries[d]
  <1> DEFINE out == Onward(ctx[w].op)
             z == Spent(y, pc, out)
  <1>1. z.entry = e /\ z.out = out
    <2> HIDE DEF out
    <2> QED BY DEF Spent, Request
  <1>2. ctx'[w] = z
    <2>1. ctx \in [Workers -> Request]
      BY DEF IndInv, TypeOK
    <2> HIDE DEF z
    <2> QED BY <2>1 DEF Goto, z
  <1>3. ASSUME NEW p \in Announcements, \E i \in DOMAIN out : out[i] = p
        PROVE  Owing(e, p)'
    <2>1. <<e, p>> \in Owed(z)
      <3> HIDE DEF z, out
      <3> QED BY <1>1, <1>3, OwedIff
    <2> QED BY <1>2, <2>1 DEF Owing
  <1>4. \E p \in Announcements : Owing(e, p)'
    BY <1>3, OnwardAnnounces
  <1>5. /\ entries'[e].status = NewStatus(ctx[w].op)
        /\ \A d \in EntryIds \ {e} : entries'[d] = entries[d]
    BY IndInvTables DEF InsertEntry, TablesOK, Shaped
  <1>6. NewStatus(ctx[w].op) = JOIN_ASYNC_IN_PROGRESS =>
          \E i \in DOMAIN out : out[i] = "loyalty_card_join"
    BY OnwardAnnounces
  <1>7. "loyalty_card_join" \in Announcements
    BY DEF Announcements
  <1> QED BY <1>3, <1>4, <1>5, <1>6, <1>7

(***************************************************************************)
(* A link that is new after a step was inserted by it, and is owed its     *)
(* announcement.                                                           *)
(***************************************************************************)
LEMMA NewLink ==
  ASSUME IndInv, [Next]_vars, NEW e \in EntryIds,
         entries[e].state = "unused", entries'[e].state # "unused"
  PROVE  /\ \E p \in Announcements : Owing(e, p)'
         /\ entries'[e].status = JOIN_ASYNC_IN_PROGRESS => Owing(e, "loyalty_card_join")'
  <1> DEFINE Goal == /\ \E p \in Announcements : Owing(e, p)'
                     /\ entries'[e].status = JOIN_ASYNC_IN_PROGRESS =>
                          Owing(e, "loyalty_card_join")'
  <1>1. TablesOK
    BY IndInvTables
  <1>2. ASSUME NEW w \in Workers, CreateCard(w) PROVE Goal
    <2>1. PICK c \in CardIds, d \in EntryIds :
            /\ InsertEntry(d, c, ctx[w])
            /\ Goto(w, Spent([ctx[w] EXCEPT !.card = c, !.entry = d],
                             "refresh", Onward(ctx[w].op)))
      BY <1>2 DEF CreateCard
    <2>2. ctx[w] \in Request /\ ctx[w].op \in Linking
      BY <1>2, Current DEF CreateCard, Sound
    <2> DEFINE y == [ctx[w] EXCEPT !.card = c, !.entry = d]
    <2>3. y \in Request /\ y.entry = d
      BY <2>2 DEF Request
    <2>4. Goto(w, Spent(y, "refresh", Onward(ctx[w].op)))
      BY <2>1
    <2> HIDE DEF y
    <2>5. /\ \E p \in Announcements : Owing(d, p)'
          /\ entries'[d].status = JOIN_ASYNC_IN_PROGRESS => Owing(d, "loyalty_card_join")'
          /\ \A f \in EntryIds \ {d} : entries'[f] = entries[f]
      BY <2>1, <2>2, <2>3, <2>4, InsertOwes
    <2> QED BY <2>5
  <1>3. ASSUME NEW w \in Workers, LinkCard(w) PROVE Goal
    <2>1. PICK d \in EntryIds :
            /\ InsertEntry(d, ctx[w].card, ctx[w])
            /\ Goto(w, Spent([ctx[w] EXCEPT !.entry = d],
                             IF IsTrusted(ctx[w]) THEN "touch" ELSE "refresh",
                             Onward(ctx[w].op)))
      BY <1>3 DEF LinkCard
    <2>2. ctx[w] \in Request /\ ctx[w].op \in Linking /\ ctx[w].card \in CardIds
      BY <1>3, Current DEF LinkCard, Sound
    <2> DEFINE y == [ctx[w] EXCEPT !.entry = d]
               pc == IF IsTrusted(ctx[w]) THEN "touch" ELSE "refresh"
    <2>3. y \in Request /\ y.entry = d /\ pc \in {"touch", "refresh"}
      BY <2>2 DEF Request
    <2>4. Goto(w, Spent(y, pc, Onward(ctx[w].op)))
      BY <2>1
    <2> HIDE DEF y, pc
    <2>5. /\ \E p \in Announcements : Owing(d, p)'
          /\ entries'[d].status = JOIN_ASYNC_IN_PROGRESS => Owing(d, "loyalty_card_join")'
          /\ \A f \in EntryIds \ {d} : entries'[f] = entries[f]
      BY <2>1, <2>2, <2>3, <2>4, InsertOwes
    <2> QED BY <2>5
  <1>4. ASSUME NEW w \in Workers,
               TouchCard(w) \/ UpdateLink(w) \/ Rejoin(w) \/ Remove(w)
        PROVE  FALSE
    <2>1. ctx[w].entry \in EntryIds /\ entries[ctx[w].entry].state # "unused"
      BY <1>4, Holding DEF TouchCard, UpdateLink, Rejoin, Remove, HoldsLink
    <2>2. entries'[e] = entries[e]
      BY <1>1, <1>4, <2>1 DEF TouchCard, UpdateLink, Rejoin, Remove, tables, TablesOK, Shaped
    <2> QED BY <2>2
  <1>5. ASSUME Hermes PROVE FALSE
    <2>1. Preserves
      BY <1>5, HermesPreserves
    <2>2. ASSUME NEW d \in EntryIds, NEW s \in HermesStatuses, HermesUpdates(d, s) PROVE FALSE
      BY <1>1, <2>2 DEF HermesUpdates, TablesOK, Shaped, EntryRow
    <2>3. ASSUME NEW m, HermesHandles(m) PROVE FALSE
      <3>1. CASE HermesRemovesLink(m.card, m.user)
        <4>1. entries'[e] = entries[e]
          BY <3>1 DEF HermesRemovesLink
        <4> QED BY <4>1
      <3>2. CASE \E s \in HermesStatuses :
                   entries' = [entries EXCEPT ![m.entry].status =
                                 IF entries[m.entry].state = "live" THEN s ELSE @]
        <4>1. entries'[e].state = entries[e].state
          BY <1>1, <3>2 DEF TablesOK, Shaped, EntryRow
        <4> QED BY <4>1
      <3> QED BY <2>3, <3>1, <3>2 DEF HermesHandles, tables
    <2> QED BY <1>5, <2>2, <2>3 DEF Hermes
  <1>6. ASSUME NEW w \in Workers,
               \/ Receive(w) \/ Fetch(w) \/ CheckMid(w) \/ Route(w)
               \/ Refresh(w) \/ Publish(w) \/ Abort(w) \/ Crash(w)
        PROVE  FALSE
    <2>1. UNCHANGED entries
      BY <1>6, FetchMoves, CheckMidMoves, RouteMoves, RefreshMoves, PublishMoves
         DEF Receive, Abort, Crash, tables
    <2> QED BY <2>1
  <1> QED BY <1>2, <1>3, <1>4, <1>5, <1>6, OneWorkerSteps DEF WorkerStep, vars

(***************************************************************************)
(* The histories only grow, and a published announcement is in "told".     *)
(***************************************************************************)
LEMMA HistoryStep ==
  ASSUME IndInv, [Next]_vars
  PROVE  /\ told \subseteq told' /\ lost \subseteq lost'
         /\ \A w \in Workers : Publish(w) /\ Head(ctx[w].out) \in Announcements =>
              ctx[w].entry \in told'
  <1>1. \A w \in Workers : Publish(w) =>
          /\ told' = told \cup (IF Head(ctx[w].out) \in Announcements THEN {ctx[w].entry} ELSE {})
          /\ UNCHANGED lost
    BY DEF Publish
  <1>2. ASSUME NEW w \in Workers, WorkerStep(w), ~Publish(w)
        PROVE  told \subseteq told' /\ lost \subseteq lost'
    BY <1>2, FetchMoves, CheckMidMoves, RouteMoves, CreateMoves, LinkMoves, TouchMoves,
       UpdateMoves, RejoinMoves, RemoveMoves, RefreshMoves
       DEF WorkerStep, Receive, Abort, Crash, history
  <1> QED BY <1>1, <1>2, OneWorkerSteps DEF vars

(***************************************************************************)
(* No link is committed and forgotten by a running system: if nothing is   *)
(* told to Hermes about it, a request owes the message or has died.        *)
(***************************************************************************)
THEOREM NoneForgotten == Spec => []EveryLinkAnnounced
  <1>1. Init => EveryLinkAnnounced
    BY DEF Init, EveryLinkAnnounced
  <1>2. IndInv /\ EveryLinkAnnounced /\ [Next]_vars => EveryLinkAnnounced'
    <2> SUFFICES ASSUME IndInv, EveryLinkAnnounced, [Next]_vars,
                        NEW e \in EntryIds, entries'[e].state # "unused"
                 PROVE  \/ e \in told'
                        \/ \E p \in Announcements : Owing(e, p)' \/ <<e, p>> \in lost'
      BY DEF EveryLinkAnnounced
    <2>1. CASE entries[e].state = "unused"
      BY <2>1, NewLink
    <2>2. CASE entries[e].state # "unused"
      <3>1. CASE e \in told \/ \E p \in Announcements : <<e, p>> \in lost
        BY <3>1, HistoryStep
      <3>2. ASSUME NEW p \in Announcements, Owing(e, p)
            PROVE  e \in told' \/ Owing(e, p)' \/ <<e, p>> \in lost'
        BY <3>2, OwingStep, HistoryStep
      <3> QED BY <2>2, <3>1, <3>2 DEF EveryLinkAnnounced
    <2> QED BY <2>1, <2>2
  <1> QED BY <1>1, <1>2, Inductive, PTL DEF Spec

-----------------------------------------------------------------------------
(* Joins *)

(***************************************************************************)
(* A link that was there before a step and is waiting for its join after   *)
(* it was waiting already, or is being sent to join again.                 *)
(***************************************************************************)
LEMMA WaitingStep ==
  ASSUME IndInv, [Next]_vars, NEW e \in EntryIds, entries[e].state # "unused",
         entries'[e].state = "live", entries'[e].status = JOIN_ASYNC_IN_PROGRESS
  PROVE  \/ entries[e].state = "live" /\ entries[e].status = JOIN_ASYNC_IN_PROGRESS
         \/ \E w \in Workers : Rejoin(w) /\ ctx[w].entry = e
  <1>1. TablesOK
    BY IndInvTables
  <1>2. JOIN_ASYNC_IN_PROGRESS # ACTIVE
    BY DEF JOIN_ASYNC_IN_PROGRESS, ACTIVE
  <1>3. CASE entries'[e] = entries[e]
    BY <1>3
  <1>4. ASSUME NEW w \in Workers, CreateCard(w) \/ LinkCard(w) PROVE entries'[e] = entries[e]
    BY <1>1, <1>4 DEF CreateCard, LinkCard, InsertEntry, FreshEntry, TablesOK, Shaped
  <1>5. ASSUME NEW w \in Workers, UpdateLink(w)
        PROVE  entries'[e] = entries[e] \/ entries'[e].status = ACTIVE
    <2>1. CASE UNCHANGED entries
      BY <2>1
    <2>2. CASE entries' = [entries EXCEPT ![ctx[w].entry].status =
                             IF "activate" \in ctx[w].todo THEN ACTIVE ELSE @]
      BY <1>1, <2>2 DEF TablesOK, Shaped, EntryRow
    <2> QED BY <1>5, <2>1, <2>2 DEF UpdateLink, tables
  <1>6. ASSUME NEW w \in Workers, Rejoin(w), ctx[w].entry # e
        PROVE  entries'[e] = entries[e]
    BY <1>1, <1>6 DEF Rejoin, TablesOK, Shaped
  <1>7. ASSUME NEW w \in Workers, Remove(w)
        PROVE  entries'[e] = entries[e] \/ entries'[e].state = "gone"
    BY <1>1, <1>7 DEF Remove, TablesOK, Shaped, EntryRow
  <1>8. ASSUME NEW d \in EntryIds, NEW s \in HermesStatuses, HermesUpdates(d, s)
        PROVE  entries'[e] = entries[e] \/ entries'[e].status # JOIN_ASYNC_IN_PROGRESS
    BY <1>1, <1>8, HermesAssumption DEF HermesUpdates, TablesOK, Shaped, EntryRow
  <1>9. ASSUME NEW m, HermesHandles(m)
        PROVE  \/ entries'[e] = entries[e] \/ entries'[e].state = "gone"
               \/ entries'[e].status # JOIN_ASYNC_IN_PROGRESS
               \/ entries[e].state = "live" /\ entries[e].status = JOIN_ASYNC_IN_PROGRESS
    <2>1. CASE HermesRemovesLink(m.card, m.user)
      <3>1. entries'[e] = entries[e] \/ entries'[e] = [entries[e] EXCEPT !.state = "gone"]
        BY <2>1 DEF HermesRemovesLink
      <3> QED BY <1>1, <3>1 DEF TablesOK, Shaped, EntryRow
    <2>2. ASSUME NEW s \in HermesStatuses,
                 entries' = [entries EXCEPT ![m.entry].status =
                               IF entries[m.entry].state = "live" THEN s ELSE @]
          PROVE  \/ entries'[e] = entries[e]
                 \/ entries'[e].status # JOIN_ASYNC_IN_PROGRESS
                 \/ entries'[e].state = entries[e].state /\ entries'[e].status = entries[e].status
      BY <1>1, <2>2, HermesAssumption DEF TablesOK, Shaped, EntryRow
    <2> QED BY <1>9, <2>1, <2>2 DEF HermesHandles, tables
  <1>10. ASSUME NEW w \in Workers,
                \/ Receive(w) \/ Fetch(w) \/ CheckMid(w) \/ Route(w) \/ TouchCard(w)
                \/ Refresh(w) \/ Publish(w) \/ Abort(w) \/ Crash(w)
         PROVE  entries'[e] = entries[e]
    BY <1>10, FetchMoves, CheckMidMoves, RouteMoves, RefreshMoves, PublishMoves
       DEF Receive, TouchCard, Abort, Crash, tables
  <1>11. CASE Hermes
    BY <1>3, <1>8, <1>9, <1>11 DEF Hermes
  <1>12. ASSUME NEW w \in Workers, WorkerStep(w)
         PROVE  \/ entries'[e] = entries[e] \/ entries'[e].state = "gone"
                \/ entries'[e].status = ACTIVE
                \/ Rejoin(w) /\ ctx[w].entry = e
    BY <1>4, <1>5, <1>6, <1>7, <1>10, <1>12 DEF WorkerStep
  <1> QED BY <1>2, <1>3, <1>11, <1>12, OneWorkerSteps DEF vars

(***************************************************************************)
(* A message leaves the queue only when Hermes handles it.                 *)
(***************************************************************************)
LEMMA QueueKept ==
  ASSUME IndInv, [Next]_vars, NEW m \in BagToSet(bus)
  PROVE  m \in BagToSet(bus)' \/ HermesHandles(m)
  <1>1. IsABag(bus)
    BY DEF IndInv, TypeOK
  <1>2. ASSUME NEW w \in Workers, WorkerStep(w) PROVE m \in BagToSet(bus)'
    <2>1. CASE Publish(w)
      BY <2>1, PublishMoves
    <2>2. CASE ~Publish(w)
      <3>1. UNCHANGED bus
        BY <1>2, <2>2, FetchMoves, CheckMidMoves, RouteMoves, CreateMoves, LinkMoves,
           TouchMoves, UpdateMoves, RejoinMoves, RemoveMoves, RefreshMoves
           DEF WorkerStep, Receive, Abort, Crash
      <3> QED BY <3>1
    <2> QED BY <2>1, <2>2
  <1>3. CASE Hermes
    <2>1. ASSUME NEW n \in BagToSet(bus), HermesHandles(n), n # m PROVE m \in BagToSet(bus)'
      <3>1. bus' = bus (-) SetToBag({n})
        BY <2>1 DEF HermesHandles
      <3>2. BagToSet(bus) \ {n} \subseteq BagToSet(bus (-) SetToBag({n}))
        BY <1>1, BagRemove
      <3> QED BY <2>1, <3>1, <3>2
    <2>2. ASSUME NEW d \in EntryIds, NEW s \in HermesStatuses, HermesUpdates(d, s)
          PROVE  m \in BagToSet(bus)'
      BY <2>2 DEF HermesUpdates
    <2> QED BY <1>3, <2>1, <2>2 DEF Hermes
  <1> QED BY <1>2, <1>3, OneWorkerSteps DEF vars

(***************************************************************************)
(* A link waiting for its join has its message in the queue, about to be   *)
(* sent, or lost with the request that owed it: nothing else can leave it  *)
(* in the state no endpoint releases.                                      *)
(***************************************************************************)
THEOREM JoinsAccounted == Spec => []JoinAccountedFor
  <1>1. Init => JoinAccountedFor
    BY TablesAssumption DEF Init, JoinAccountedFor
  <1>2. IndInv /\ JoinAccountedFor /\ [Next]_vars => JoinAccountedFor'
    <2> SUFFICES ASSUME IndInv, JoinAccountedFor, [Next]_vars, NEW e \in EntryIds,
                        entries'[e].state = "live",
                        entries'[e].status = JOIN_ASYNC_IN_PROGRESS
                 PROVE  \/ JoinQueued(e)'
                        \/ Owing(e, "loyalty_card_join")'
                        \/ <<e, "loyalty_card_join">> \in lost'
      BY DEF JoinAccountedFor
    <2>1. CASE entries[e].state = "unused"
      BY <2>1, NewLink
    <2>2. ASSUME NEW w \in Workers, Rejoin(w), ctx[w].entry = e
          PROVE  Owing(e, "loyalty_card_join")'
      <3> DEFINE z == Spent(ctx[w], "refresh", <<"loyalty_card_join">>)
      <3>1. ctx[w] \in Request /\ ctx \in [Workers -> Request]
        BY Current DEF IndInv, TypeOK
      <3>2. z.entry = e /\ z.out = <<"loyalty_card_join">>
        BY <2>2, <3>1 DEF Spent, Request
      <3>3. ctx'[w] = z
        <4>1. ctx' = [ctx EXCEPT ![w] = z]
          BY <2>2 DEF Rejoin, Goto
        <4> HIDE DEF z
        <4> QED BY <3>1, <4>1
      <3>4. <<e, "loyalty_card_join">> \in Owed(z)
        <4>1. "loyalty_card_join" \in Announcements
          BY DEF Announcements
        <4>2. \E i \in DOMAIN z.out : z.out[i] = "loyalty_card_join"
          BY <3>2
        <4> HIDE DEF z
        <4> QED BY <3>2, <4>1, <4>2, OwedIff
      <3> QED BY <3>3, <3>4 DEF Owing
    <2>3. CASE entries[e].state = "live" /\ entries[e].status = JOIN_ASYNC_IN_PROGRESS
      <3>1. CASE JoinQueued(e)
        <4>1. PICK m \in BagToSet(bus) : m.path = "loyalty_card_join" /\ m.entry = e
          BY <3>1 DEF JoinQueued
        <4>2. ~HermesHandles(m)
          <5>1. ASSUME HermesHandles(m)
                PROVE  \E s \in HermesStatuses :
                         entries' = [entries EXCEPT ![e].status = s]
            BY <2>3, <4>1, <5>1 DEF HermesHandles
          <5>2. entries \in [EntryIds -> EntryRow]
            BY IndInvTables DEF TablesOK, Shaped
          <5> QED BY <5>1, <5>2, HermesAssumption DEF EntryRow
        <4> QED BY <4>1, <4>2, QueueKept DEF JoinQueued
      <3>2. CASE Owing(e, "loyalty_card_join")
        <4>1. ASSUME NEW w \in Workers, Publish(w), ctx[w].entry = e,
                     Head(ctx[w].out) = "loyalty_card_join"
              PROVE  JoinQueued(e)'
          <5> DEFINE m == MessageOf(ctx[w])
          <5>1. m.path = "loyalty_card_join" /\ m.entry = e
            BY <4>1 DEF MessageOf
          <5>2. m \in BagToSet(bus)'
            BY <4>1, PublishMoves
          <5> HIDE DEF m
          <5> QED BY <5>1, <5>2 DEF JoinQueued
        <4> QED BY <3>2, <4>1, OwingStep
      <3>3. CASE <<e, "loyalty_card_join">> \in lost
        BY <3>3, HistoryStep
      <3> QED BY <2>3, <3>1, <3>2, <3>3 DEF JoinAccountedFor
    <2> QED BY <2>1, <2>2, <2>3, WaitingStep
  <1> QED BY <1>1, <1>2, Inductive, PTL DEF Spec
=============================================================================
