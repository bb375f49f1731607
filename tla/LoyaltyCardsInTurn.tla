------------------------- MODULE LoyaltyCardsInTurn -------------------------
(***************************************************************************)
(* Proofs of the invariants of LoyaltyCards that hold while requests are   *)
(* served one after another: what a query has found is still so when the   *)
(* request writes.  Hermes acts at any moment all the same.                *)
(***************************************************************************)
EXTENDS LoyaltyCardsRows

OneWorker == \A v, w \in Workers : v = w

(***************************************************************************)
(* An update by a trusted channel leaves the user's own link out of its    *)
(* search, and so gives a second card the key credential of the first.     *)
(***************************************************************************)
InTurn == OneWorker /\ "trusted_update" \notin Ops

(***************************************************************************)
(* What request x has found: no card with the key credential it is about   *)
(* to insert, and none with its merchant identifier and another key.       *)
(***************************************************************************)
KeyIsFree(x) == \A e \in EntryIds : Visible(e) => CardOf(e).key # x.key
MidAgrees(x) == \A e \in EntryIds : Visible(e) /\ CardOf(e).mid = x.mid => CardOf(e).key = x.key

SearchHolds(x) ==
    /\ x.mid # None => x.op = "trusted_add" /\ x.pc # "fetch"
    /\ x.pc = "create" /\ x.key # None => KeyIsFree(x)
    /\ x.pc \in {"lookup", "create"} /\ x.mid # None => MidAgrees(x)

SearchesHold == \A w \in Workers : SearchHolds(ctx[w])

(***************************************************************************)
(* A link whose join message is on its way, from the commit to Hermes, is  *)
(* still waiting, or has gone.                                             *)
(***************************************************************************)
Keyless(c) == cards[c].key = None
Waiting(e) == entries[e].state = "live" => entries[e].status = JOIN_ASYNC_IN_PROGRESS

JoinsQueued ==
    \A m \in BagToSet(bus) :
        m.path = "loyalty_card_join" /\ Keyless(m.card) => bus[m] = 1 /\ Waiting(m.entry)

JoinHolds(x) ==
    /\ IsTrusted(x) /\ x.pc \in {"fetch", "mid", "lookup"} => x.key # None
    /\ x.pc = "update" => ~Keyless(x.card)
    /\ x.pc = "rejoin" /\ Keyless(x.card) => ~JoinQueued(x.entry)
    /\ \A i \in DOMAIN x.out : x.out[i] = "loyalty_card_join" =>
          /\ x.out = <<"loyalty_card_join">>
          /\ Keyless(x.card) => ~JoinQueued(x.entry) /\ Waiting(x.entry)

JoinsHold == \A w \in Workers : JoinHolds(ctx[w])

-----------------------------------------------------------------------------
(* What the queries see after a step *)

CardKept(c) ==
    /\ cards'[c].key = cards[c].key /\ cards'[c].mid = cards[c].mid
    /\ cards'[c].state = "live" => cards[c].state = "live"

(***************************************************************************)
(* No step but an insert gives a card a key credential or a merchant       *)
(* identifier, or brings it back.                                          *)
(***************************************************************************)
LEMMA AlteredKept ==
  ASSUME cards \in [CardIds -> CardRow],
         \/ UNCHANGED cards
         \/ \E f : cards' = [cards EXCEPT ![f].state = "deleted"]
         \/ \E f, b : cards' = [cards EXCEPT ![f].dated = b]
  PROVE  \A c \in CardIds : CardKept(c)
  <1> SUFFICES ASSUME NEW c \in CardIds PROVE CardKept(c)
    OBVIOUS
  <1>1. cards[c] \in CardRow
    OBVIOUS
  <1>2. ASSUME NEW f, cards' = [cards EXCEPT ![f].state = "deleted"] PROVE CardKept(c)
    <2>1. cards'[c] = cards[c] \/ cards'[c] = [cards[c] EXCEPT !.state = "deleted"]
      BY <1>2
    <2> QED BY <1>1, <2>1 DEF CardKept, CardRow
  <1>3. ASSUME NEW f, NEW b, cards' = [cards EXCEPT ![f].dated = b] PROVE CardKept(c)
    <2>1. cards'[c] = cards[c] \/ cards'[c] = [cards[c] EXCEPT !.dated = b]
      BY <1>3
    <2> QED BY <1>1, <2>1 DEF CardKept, CardRow
  <1> QED BY <1>2, <1>3 DEF CardKept

LEMMA CardsKept ==
  ASSUME IndInv, [Next]_vars
  PROVE  \/ \A c \in CardIds : CardKept(c)
         \/ \E w \in Workers : CreateCard(w)
  <1>1. cards \in [CardIds -> CardRow]
    BY IndInvTables DEF TablesOK, Shaped
  <1>2. ASSUME NEW w \in Workers, WorkerStep(w), ~CreateCard(w)
        PROVE  \A c \in CardIds : CardKept(c)
    <2>1. CASE TouchCard(w)
      BY <1>1, <2>1, AlteredKept DEF TouchCard
    <2>2. CASE UpdateLink(w)
      <3>1. \/ UNCHANGED cards
            \/ \E f, b : cards' = [cards EXCEPT ![f].dated = b]
        BY <2>2 DEF UpdateLink, tables
      <3> QED BY <1>1, <3>1, AlteredKept
    <2>3. CASE Remove(w)
      BY <1>1, <2>3, AlteredKept DEF Remove
    <2>4. CASE \/ Receive(w) \/ Fetch(w) \/ CheckMid(w) \/ Route(w) \/ LinkCard(w) \/ Rejoin(w)
               \/ Refresh(w) \/ Publish(w) \/ Abort(w) \/ Crash(w)
      <3>1. UNCHANGED cards
        BY <2>4, FetchMoves, CheckMidMoves, RouteMoves, RefreshMoves, PublishMoves
           DEF Receive, LinkCard, Rejoin, Abort, Crash, tables
      <3> QED BY <1>1, <3>1, AlteredKept
    <2> QED BY <1>2, <2>1, <2>2, <2>3, <2>4 DEF WorkerStep
  <1>3. CASE Hermes
    <2>1. UNCHANGED cards \/ \E f : cards' = [cards EXCEPT ![f].state = "deleted"]
      BY <1>3 DEF Hermes, HermesHandles, HermesUpdates, HermesRemovesLink, tables
    <2> QED BY <1>1, <2>1, AlteredKept
  <1>4. CASE UNCHANGED vars
    BY <1>1, <1>4, AlteredKept DEF vars
  <1> QED BY <1>2, <1>3, <1>4, OneWorkerSteps

(***************************************************************************)
(* A link made by a step is to a new card, or to one that was there.       *)
(***************************************************************************)
LEMMA LinkCardRows ==
  ASSUME IndInv, NEW w \in Workers, LinkCard(w)
  PROVE  \A e \in EntryIds : entries'[e] # entries[e] => entries'[e].card = ctx[w].card
  <1>1. entries \in [EntryIds -> EntryRow]
    BY IndInvTables DEF TablesOK, Shaped
  <1>2. CASE UNCHANGED entries
    BY <1>2
  <1>3. ASSUME NEW d \in EntryIds, InsertEntry(d, ctx[w].card, ctx[w])
        PROVE  \A e \in EntryIds : entries'[e] # entries[e] => entries'[e].card = ctx[w].card
    BY <1>1, <1>3 DEF InsertEntry
  <1> QED BY <1>2, <1>3 DEF LinkCard

(***************************************************************************)
(* The tables are well formed after a step as well.                        *)
(***************************************************************************)
LEMMA TablesStep == IndInv /\ [Next]_vars => TablesOK'
  <1>1. IndInv => TablesOK
    BY IndInvTables
  <1>2. IndInv /\ [Next]_vars => IndInv'
    BY StepInd
  <1> QED BY <1>1, <1>2, PTL

(***************************************************************************)
(* A link that can be seen after a step was there before, or is to a card  *)
(* that could be seen before by another, or to the card just inserted.     *)
(***************************************************************************)
SeenBefore(e) ==
    \E d \in EntryIds :
        /\ Visible(d) /\ entries[d].card = entries'[e].card
        /\ CardOf(d).key = cards'[entries'[e].card].key
        /\ CardOf(d).mid = cards'[entries'[e].card].mid

JustMade(w, e) ==
    /\ CreateCard(w) /\ FreshEntry(e)
    /\ cards'[entries'[e].card].key = ctx[w].key
    /\ cards'[entries'[e].card].mid = ctx[w].mid

LEMMA SeenOrMade ==
  ASSUME IndInv, NoOrphanCards, [Next]_vars, NEW e \in EntryIds, Visible(e)'
  PROVE  SeenBefore(e) \/ \E w \in Workers : JustMade(w, e)
  <1>1. /\ entries \in [EntryIds -> EntryRow] /\ cards \in [CardIds -> CardRow] /\ TablesOK
        /\ ctx \in [Workers -> Request] /\ TablesOK'
    BY IndInvTables, TablesStep DEF TablesOK, Shaped, IndInv, TypeOK
  <1>2. /\ entries'[e].state = "live" /\ cards'[entries'[e].card].state = "live"
        /\ entries'[e].card \in CardIds
    BY <1>1 DEF Visible, TablesOK, Anchored
  <1>3. ASSUME CardKept(entries'[e].card), entries'[e].card = entries[e].card,
               entries[e].state = "live"
        PROVE  SeenBefore(e)
    BY <1>2, <1>3 DEF SeenBefore, CardKept, Visible, CardOf
  <1>4. ASSUME NEW w \in Workers, CreateCard(w)
        PROVE  SeenBefore(e) \/ JustMade(w, e)
    <2>1. PICK c \in CardIds, d \in EntryIds :
            /\ FreshCard(c) /\ FreshEntry(d) /\ InsertEntry(d, c, ctx[w])
            /\ cards' = [cards EXCEPT ![c] =
                 [state |-> "live", key |-> ctx[w].key, mid |-> ctx[w].mid,
                  dated |-> IsTrusted(ctx[w])]]
      BY <1>4 DEF CreateCard
    <2>2. CASE e = d
      <3>1. entries'[e].card = c /\ cards'[c].key = ctx[w].key /\ cards'[c].mid = ctx[w].mid
        BY <1>1, <2>1, <2>2 DEF InsertEntry
      <3> QED BY <1>4, <2>1, <2>2, <3>1 DEF JustMade
    <2>3. CASE e # d
      <3>1. entries'[e] = entries[e]
        BY <1>1, <2>1, <2>3 DEF InsertEntry
      <3>2. entries[e].card # c
        BY <1>1, <1>2, <2>1, <3>1 DEF FreshCard, TablesOK, Anchored
      <3>3. CardKept(entries'[e].card)
        BY <1>1, <1>2, <2>1, <3>1, <3>2 DEF CardKept
      <3> QED BY <1>2, <1>3, <3>1, <3>3
    <2> QED BY <2>2, <2>3
  <1>5. ASSUME \A c \in CardIds : CardKept(c) PROVE SeenBefore(e)
    <2>1. ASSUME entries[e].state # "live"
          PROVE  \E w \in Workers : LinkCard(w) /\ entries'[e] # entries[e]
      <3>1. \E w \in Workers : WorkerStep(w) /\ Inserted(w, e)
        <4>1. ~SameRow(e) /\ ~Removed(e) /\ \A d \in EntryIds : ~Removed(d) /\ ~(\A f \in EntryIds : SameRow(f))
          BY <1>2, <2>1 DEF SameRow, Removed
        <4>2. \A w \in Workers, d \in EntryIds : Inserted(w, d) => d = e
          BY <1>2, <2>1 DEF Inserted, SameRow
        <4>3. ~(UNCHANGED vars)
          BY <1>2, <2>1 DEF vars
        <4> QED BY <4>1, <4>2, <4>3, RowStep, HermesRowStep, OneWorkerSteps
      <3>2. PICK w \in Workers : WorkerStep(w) /\ Inserted(w, e)
        BY <3>1
      <3>3. entries' # entries /\ entries'[e] # entries[e]
        BY <1>2, <2>1
      <3>4. ~CreateCard(w)
        <4> SUFFICES ASSUME CreateCard(w) PROVE FALSE
          OBVIOUS
        <4>1. PICK c \in CardIds : FreshCard(c) /\ cards'[c].state = "live"
          BY <1>1 DEF CreateCard
        <4> QED BY <1>5, <4>1 DEF CardKept, FreshCard
      <3>5. ctx[w].pc \in {"create", "link"}
        BY <3>2 DEF Inserted
      <3>6. LinkCard(w)
        <4>1. CASE Route(w) \/ Fetch(w) \/ CheckMid(w) \/ Receive(w) \/ Refresh(w) \/ Publish(w)
                     \/ Abort(w) \/ Crash(w)
          BY <3>3, <4>1, FetchMoves, CheckMidMoves, RouteMoves, RefreshMoves, PublishMoves
             DEF Receive, Abort, Crash, tables
        <4> QED BY <3>2, <3>4, <3>5, <4>1 DEF WorkerStep, TouchCard, UpdateLink, Rejoin, Remove
      <3> QED BY <3>3, <3>6
    <2>2. CASE entries[e].state = "live"
      <3>1. entries'[e].card = entries[e].card
        BY <1>1, <2>2, StepInd DEF Grows
      <3> QED BY <1>2, <1>3, <1>5, <2>2, <3>1
    <2>3. CASE entries[e].state # "live"
      <3>1. PICK w \in Workers : LinkCard(w) /\ entries'[e] # entries[e]
        BY <2>1, <2>3
      <3>2. entries'[e].card = ctx[w].card
        BY <3>1, LinkCardRows
      <3>3. cards[entries'[e].card].state = "live"
        BY <1>2, <1>5 DEF CardKept
      <3>4. PICK d \in EntryIds : entries[d].state = "live" /\ entries[d].card = entries'[e].card
        BY <1>2, <3>3 DEF NoOrphanCards, Linked
      <3>5. Visible(d)
        BY <3>3, <3>4 DEF Visible
      <3> QED BY <1>2, <1>5, <3>4, <3>5 DEF SeenBefore, CardKept, CardOf
    <2> QED BY <2>2, <2>3
  <1> QED BY <1>4, <1>5, CardsKept

-----------------------------------------------------------------------------
(* What a request has found *)

(***************************************************************************)
(* A request that is past its search, or failing, has nothing to remember  *)
(* of it.                                                                  *)
(***************************************************************************)
PastSearch(y) ==
    /\ y.pc \notin {"fetch", "lookup", "create"}
    /\ y.mid # None => y.op = "trusted_add"

(***************************************************************************)
(* Such a request satisfies the invariant, whatever the tables.            *)
(***************************************************************************)
LEMMA PastSearchHolds ==
  ASSUME NEW y, PastSearch(y)
  PROVE  SearchHolds(y)
  BY DEF PastSearch, SearchHolds

(***************************************************************************)
(* A request that ends, or fails, is past its search.                      *)
(***************************************************************************)
LEMMA EndedIsPast ==
  ASSUME NEW x
  PROVE  PastSearch(Idle) /\ PastSearch(Failing(x))
  <1>1. PastSearch(Idle)
    BY DEF Idle, PastSearch
  <1>2. CASE x.op = "trusted_add" /\ x.pc # "failed"
    <2>1. Failing(x) =
            [pc |-> "failed", op |-> x.op, user |-> x.user, key |-> None, mid |-> None,
             card |-> x.card, old |-> 0, entry |-> 0, todo |-> {},
             out |-> <<"add_trusted_failed">>]
      BY <1>2 DEF Failing, Idle
    <2> QED BY <1>1, <2>1 DEF PastSearch
  <1> QED BY <1>1, <1>2 DEF Failing

(***************************************************************************)
(* A fetched link leads to no insert yet, and its request has brought no   *)
(* merchant identifier.                                                    *)
(***************************************************************************)
LEMMA FetchSearch ==
  ASSUME IndInv, NEW w \in Workers, SearchHolds(ctx[w]), Fetch(w)
  PROVE  ctx'[w].mid = None /\ ctx'[w].pc # "create"
  <1> DEFINE x == ctx[w]
  <1>1. /\ x \in Request /\ x.pc = "fetch" /\ x.mid = None
        /\ \A y : Goto(w, y) => ctx'[w] = y
    <2>1. ctx \in [Workers -> Request] /\ x.pc = "fetch"
      BY DEF IndInv, TypeOK, Fetch, NotFound, Fetches, Authorise, TrustedUpdate, Register,
             PutJoin, DeleteJoin, Delete
    <2> QED BY <2>1 DEF Goto, SearchHolds
  <1>2. Idle.mid = None /\ Idle.pc # "create"
    BY DEF Idle
  <1>3. CASE Finish(w)
    BY <1>1, <1>2, <1>3 DEF Finish
  <1>4. ASSUME NEW e, NEW out,
               Goto(w, Spent([x EXCEPT !.entry = e], "publish", out))
        PROVE  ctx'[w].mid = None /\ ctx'[w].pc # "create"
    <2>1. ctx'[w] = Spent([x EXCEPT !.entry = e], "publish", out)
      BY <1>1, <1>4
    <2> QED BY <1>1, <2>1 DEF Spent, Request
  <1>5. ASSUME NEW e, NEW pc, NEW old, pc # "create",
               \/ Goto(w, [[x EXCEPT !.entry = e] EXCEPT !.pc = pc, !.old = old])
               \/ Goto(w, [x EXCEPT !.pc = pc, !.entry = e, !.old = old])
               \/ Goto(w, [x EXCEPT !.entry = e, !.pc = pc])
        PROVE  ctx'[w].mid = None /\ ctx'[w].pc # "create"
    <2> HIDE DEF x
    <2>1. \/ ctx'[w] = [[x EXCEPT !.entry = e] EXCEPT !.pc = pc, !.old = old]
          \/ ctx'[w] = [x EXCEPT !.pc = pc, !.entry = e, !.old = old]
          \/ ctx'[w] = [x EXCEPT !.entry = e, !.pc = pc]
      BY <1>1, <1>5
    <2> QED BY <1>1, <1>5, <2>1 DEF Request
  <1>6. CASE NotFound(w)
    BY <1>3, <1>6 DEF NotFound
  <1>7. ASSUME NEW e \in EntryIds,
               Authorise(w, e) \/ TrustedUpdate(w, e) \/ Register(w, e)
                 \/ PutJoin(w, e) \/ DeleteJoin(w, e) \/ Delete(w, e)
        PROVE  ctx'[w].mid = None /\ ctx'[w].pc # "create"
    <2>1. \/ Finish(w)
          \/ \E out : Goto(w, Spent([ctx[w] EXCEPT !.entry = e], "publish", out))
          \/ \E pc, old : /\ pc # "create"
                          /\ \/ Goto(w, [[ctx[w] EXCEPT !.entry = e] EXCEPT !.pc = pc, !.old = old])
                             \/ Goto(w, [ctx[w] EXCEPT !.pc = pc, !.entry = e, !.old = old])
                             \/ Goto(w, [ctx[w] EXCEPT !.entry = e, !.pc = pc])
      BY <1>7 DEF Authorise, TrustedUpdate, Register, PutJoin, DeleteJoin, Delete
    <2> QED BY <1>3, <1>4, <1>5, <2>1
  <1> QED BY <1>6, <1>7 DEF Fetch

(***************************************************************************)
(* The two queries of a search say what they are remembered for.           *)
(***************************************************************************)
LEMMA QuerySearch ==
  ASSUME IndInv, InTurn, NEW w \in Workers, SearchHolds(ctx[w]), CheckMid(w) \/ NoCardRoute(w)
  PROVE  SearchHolds(ctx[w])'
  <1> DEFINE x == ctx[w]
  <1>1. /\ x \in Request /\ ctx \in [Workers -> Request]
        /\ UNCHANGED <<cards, entries>>
        /\ \A y : Goto(w, y) => ctx'[w] = y
    BY DEF IndInv, TypeOK, Goto, CheckMid, NoCardRoute, Reads, tables
  <1>2. Excluded(x) = {}
    BY <1>1 DEF Excluded, Request, InTurn
  <1>3. CASE Fail(w)
    <2>1. ctx'[w] = Failing(x)
      BY <1>1, <1>3 DEF Fail
    <2>2. PastSearch(ctx'[w])
      BY <2>1, EndedIsPast
    <2> QED BY <2>2 DEF PastSearch, SearchHolds
  <1>4. CASE CheckMid(w) /\ ~Fail(w)
    <2>1. x.pc = "mid" /\ {CardOf(e).key : e \in ByMid(x)} \subseteq {x.key}
      BY <1>4 DEF CheckMid
    <2>2. MidAgrees(x)
      BY <1>2, <2>1 DEF MidAgrees, ByMid
    <2>3. ctx'[w] = [x EXCEPT !.pc = "lookup"]
      BY <1>1, <1>4 DEF CheckMid
    <2> HIDE DEF x
    <2>4. /\ ctx'[w].pc = "lookup" /\ ctx'[w].key = x.key /\ ctx'[w].mid = x.mid
          /\ ctx'[w].op = x.op
      BY <1>1, <2>3 DEF Request
    <2>5. MidAgrees(ctx[w])'
      BY <1>1, <2>2, <2>4 DEF MidAgrees, Visible, CardOf
    <2>6. SearchHolds(x)
      BY DEF x
    <2> QED BY <2>4, <2>5, <2>6 DEF SearchHolds
  <1>5. CASE NoCardRoute(w)
    <2>1. x.pc = "lookup" /\ ByKey(x) = {}
      BY <1>5 DEF NoCardRoute
    <2>2. KeyIsFree(x)
      BY <1>2, <2>1 DEF KeyIsFree, ByKey
    <2>3. ctx'[w] = [x EXCEPT !.pc = "create"] /\ SearchHolds(x)
      BY <1>1, <1>5 DEF NoCardRoute
    <2> HIDE DEF x
    <2>4. /\ ctx'[w].pc = "create" /\ ctx'[w].key = x.key /\ ctx'[w].mid = x.mid
          /\ ctx'[w].op = x.op
      BY <1>1, <2>3 DEF Request
    <2>5. KeyIsFree(ctx[w])'
      BY <1>1, <2>2, <2>4 DEF KeyIsFree, Visible, CardOf
    <2>6. x.mid # None => MidAgrees(ctx[w])'
      BY <1>1, <2>1, <2>3, <2>4 DEF SearchHolds, MidAgrees, Visible, CardOf
    <2> QED BY <2>3, <2>4, <2>5, <2>6 DEF SearchHolds
  <1> QED BY <1>3, <1>4, <1>5

(***************************************************************************)
(* After its search a request searches no more.                            *)
(***************************************************************************)
LEMMA SpentIsPast ==
  ASSUME NEW x \in Request, NEW pc, pc \notin {"fetch", "lookup", "create"},
         NEW out, NEW c, NEW e, NEW t
  PROVE  /\ PastSearch(Spent(x, pc, out))
         /\ PastSearch(Spent([x EXCEPT !.entry = e], pc, out))
         /\ PastSearch(Spent([x EXCEPT !.card = c, !.entry = e], pc, out))
         /\ PastSearch(Spent([x EXCEPT !.card = c, !.entry = e, !.todo = t], pc, out))
  BY DEF Spent, Request, PastSearch

(***************************************************************************)
(* Nor does one that moves on with what it holds.                          *)
(***************************************************************************)
LEMMA MovedIsPast ==
  ASSUME NEW x \in Request, x.mid # None => x.op = "trusted_add",
         NEW pc, pc \notin {"fetch", "lookup", "create"}, NEW c, NEW e, NEW t, NEW out
  PROVE  /\ PastSearch([x EXCEPT !.pc = pc])
         /\ PastSearch([x EXCEPT !.pc = pc, !.card = c])
         /\ PastSearch([[x EXCEPT !.card = c, !.entry = e, !.todo = t] EXCEPT !.pc = pc])
         /\ x.pc = pc => PastSearch([x EXCEPT !.out = out])
  BY DEF Request, PastSearch

(***************************************************************************)
(* The steps after a search, and those that end a request, leave nothing   *)
(* of it to be remembered.                                                 *)
(***************************************************************************)
LEMMA AfterSearch ==
  ASSUME IndInv, NEW w \in Workers, SearchHolds(ctx[w]), WorkerStep(w),
         ~(Receive(w) \/ Fetch(w) \/ CheckMid(w) \/ NoCardRoute(w))
  PROVE  PastSearch(ctx'[w])
  <1> DEFINE x == ctx[w]
  <1>1. /\ x \in Request /\ ctx \in [Workers -> Request]
        /\ \A y : Goto(w, y) => ctx'[w] = y
        /\ x.mid # None => x.op = "trusted_add"
    BY DEF IndInv, TypeOK, Goto, SearchHolds
  <1>2. CASE Fail(w) \/ Finish(w) \/ \E y : Goto(w, Failing(y))
    BY <1>1, <1>2, EndedIsPast DEF Fail, Finish
  <1>3. ASSUME NEW y, Goto(w, y), PastSearch(y)
        PROVE  PastSearch(ctx'[w])
    BY <1>1, <1>3
  <1> HIDE DEF x
  <1>4. \A pc, out, c, e, t : pc \notin {"fetch", "lookup", "create"} =>
          /\ PastSearch(Spent(x, pc, out))
          /\ PastSearch(Spent([x EXCEPT !.entry = e], pc, out))
          /\ PastSearch(Spent([x EXCEPT !.card = c, !.entry = e], pc, out))
          /\ PastSearch(Spent([x EXCEPT !.card = c, !.entry = e, !.todo = t], pc, out))
    BY <1>1, SpentIsPast
  <1>5. \A pc, c, e, t, out : pc \notin {"fetch", "lookup", "create"} =>
          /\ PastSearch([x EXCEPT !.pc = pc])
          /\ PastSearch([x EXCEPT !.pc = pc, !.card = c])
          /\ PastSearch([[x EXCEPT !.card = c, !.entry = e, !.todo = t] EXCEPT !.pc = pc])
          /\ x.pc = pc => PastSearch([x EXCEPT !.out = out])
    BY <1>1, MovedIsPast
  <1>6. ASSUME NEW c \in CardIds,
               AddRoute(w, c) \/ AddAndAuthoriseRoute(w, c) \/ TrustedAddRoute(w, c)
        PROVE  PastSearch(ctx'[w])
    <2>1. \/ Fail(w) \/ Finish(w) \/ Goto(w, Failing([x EXCEPT !.card = c]))
          \/ Goto(w, [x EXCEPT !.pc = "link", !.card = c])
          \/ \E e, out : Goto(w, Spent([x EXCEPT !.card = c, !.entry = e], "publish", out))
          \/ \E e, t, out :
               \/ Goto(w, Spent([x EXCEPT !.card = c, !.entry = e, !.todo = t], "publish", out))
               \/ Goto(w, [[x EXCEPT !.card = c, !.entry = e, !.todo = t] EXCEPT !.pc = "update"])
      BY <1>6 DEF AddRoute, AddAndAuthoriseRoute, TrustedAddRoute, Unchanged, Finish, x
    <2>2. CASE Goto(w, [x EXCEPT !.pc = "link", !.card = c])
      <3> DEFINE y == [x EXCEPT !.pc = "link", !.card = c]
      <3>1. Goto(w, y) /\ PastSearch(y)
        BY <1>5, <2>2
      <3> HIDE DEF y
      <3> QED BY <1>3, <3>1
    <2>3. ASSUME NEW e, NEW out,
                 Goto(w, Spent([x EXCEPT !.card = c, !.entry = e], "publish", out))
          PROVE  PastSearch(ctx'[w])
      <3> DEFINE y == Spent([x EXCEPT !.card = c, !.entry = e], "publish", out)
      <3>1. Goto(w, y) /\ PastSearch(y)
        BY <1>4, <2>3
      <3> HIDE DEF y
      <3> QED BY <1>3, <3>1
    <2>4. ASSUME NEW e, NEW t, NEW out,
                 Goto(w, Spent([x EXCEPT !.card = c, !.entry = e, !.todo = t], "publish", out))
          PROVE  PastSearch(ctx'[w])
      <3> DEFINE y == Spent([x EXCEPT !.card = c, !.entry = e, !.todo = t], "publish", out)
      <3>1. Goto(w, y) /\ PastSearch(y)
        BY <1>4, <2>4
      <3> HIDE DEF y
      <3> QED BY <1>3, <3>1
    <2>5. ASSUME NEW e, NEW t,
                 Goto(w, [[x EXCEPT !.card = c, !.entry = e, !.todo = t] EXCEPT !.pc = "update"])
          PROVE  PastSearch(ctx'[w])
      <3> DEFINE y == [[x EXCEPT !.card = c, !.entry = e, !.todo = t] EXCEPT !.pc = "update"]
      <3>1. Goto(w, y) /\ PastSearch(y)
        BY <1>5, <2>5
      <3> HIDE DEF y
      <3> QED BY <1>3, <3>1
    <2> QED BY <1>2, <2>1, <2>2, <2>3, <2>4, <2>5
  <1>7. CASE CreateCard(w) \/ LinkCard(w) \/ UpdateLink(w) \/ Rejoin(w)
    <2>1. \/ Fail(w) \/ Finish(w)
          \/ \E pc \in {"touch", "refresh"} : \E c, e, out :
               \/ Goto(w, Spent(x, pc, out))
               \/ Goto(w, Spent([x EXCEPT !.entry = e], pc, out))
               \/ Goto(w, Spent([x EXCEPT !.card = c, !.entry = e], pc, out))
      BY <1>7 DEF CreateCard, LinkCard, UpdateLink, Rejoin, Unchanged, Finish, x
    <2>2. ASSUME NEW pc \in {"touch", "refresh"}, NEW c, NEW e, NEW out, NEW y,
                 \/ y = Spent(x, pc, out)
                 \/ y = Spent([x EXCEPT !.entry = e], pc, out)
                 \/ y = Spent([x EXCEPT !.card = c, !.entry = e], pc, out)
          PROVE  PastSearch(y)
      <3>1. /\ PastSearch(Spent(x, pc, out))
            /\ PastSearch(Spent([x EXCEPT !.entry = e], pc, out))
            /\ PastSearch(Spent([x EXCEPT !.card = c, !.entry = e], pc, out))
        BY <1>4
      <3> HIDE DEF PastSearch, Spent
      <3> QED BY <2>2, <3>1
    <2> HIDE DEF PastSearch, Spent
    <2> QED BY <1>2, <1>3, <2>1, <2>2
  <1>8. CASE TouchCard(w) \/ Refresh(w)
    <2>1. Fail(w) \/ \E pc \in {"refresh", "publish"} : Goto(w, [x EXCEPT !.pc = pc])
      BY <1>8 DEF TouchCard, Refresh, x
    <2> QED BY <1>2, <1>3, <1>5, <2>1
  <1>9. CASE Publish(w)
    <2>1. /\ x.pc \in {"publish", "failed"}
          /\ Finish(w) \/ \E out : Goto(w, [x EXCEPT !.out = out])
      BY <1>9 DEF Publish, Finish, x
    <2> QED BY <1>2, <1>3, <1>5, <2>1
  <1>10. CASE ManyCardsRoute(w) \/ Remove(w) \/ Abort(w) \/ Crash(w)
    BY <1>2, <1>10 DEF ManyCardsRoute, Remove, Abort, Crash
  <1> QED BY <1>6, <1>7, <1>8, <1>9, <1>10 DEF WorkerStep, Route

(***************************************************************************)
(* A request starts without having searched for anything.                  *)
(***************************************************************************)
LEMMA ReceiveSearch ==
  ASSUME IndInv, InTurn, NEW w \in Workers, Receive(w)
  PROVE  SearchHolds(ctx[w])'
  <1>1. ctx \in [Workers -> Request]
    BY DEF IndInv, TypeOK
  <1>2. PICK u \in Users, op \in Ops, k \in Keys \cup {None}, m \in Mids \cup {None},
             c \in CardIds \cup {0} :
               Admissible(op, k, m, c) /\ Goto(w, Started(op, u, k, m, c))
    BY DEF Receive
  <1>3. ctx'[w] = Started(op, u, k, m, c)
    BY <1>1, <1>2 DEF Goto
  <1>4. /\ ctx'[w].op = op /\ ctx'[w].key = k /\ ctx'[w].mid = m /\ ctx'[w].pc = FirstStep(op)
    BY <1>3 DEF Started
  <1>5. m # None => op = "trusted_add"
    BY <1>2 DEF Admissible, InTurn
  <1>6. k # None => op # "join"
    BY <1>2 DEF Admissible
  <1>7. /\ FirstStep("trusted_add") = "mid"
        /\ FirstStep(op) = "create" => op = "join"
    BY DEF FirstStep
  <1> QED BY <1>4, <1>5, <1>6, <1>7 DEF SearchHolds

(***************************************************************************)
(* What a request found stays so until it makes its card: its own steps    *)
(* are one at a time, and Hermes gives no card a key credential.           *)
(***************************************************************************)
LEMMA SearchStep ==
  ASSUME IndInv, NoOrphanCards, InTurn, SearchesHold, [Next]_vars
  PROVE  SearchesHold'
  <1>1. ASSUME NEW w \in Workers, WorkerStep(w) PROVE SearchesHold'
    <2>1. SearchHolds(ctx[w])
      BY DEF SearchesHold
    <2>2. SearchHolds(ctx[w])'
      <3>1. CASE Receive(w)
        BY <3>1, ReceiveSearch
      <3>2. CASE Fetch(w)
        BY <2>1, <3>2, FetchSearch DEF SearchHolds
      <3>3. CASE CheckMid(w) \/ NoCardRoute(w)
        BY <2>1, <3>3, QuerySearch
      <3>4. CASE ~(Receive(w) \/ Fetch(w) \/ CheckMid(w) \/ NoCardRoute(w))
        <4>1. PastSearch(ctx'[w])
          BY <1>1, <2>1, <3>4, AfterSearch
        <4> QED BY <4>1 DEF PastSearch, SearchHolds
      <3> QED BY <3>1, <3>2, <3>3, <3>4
    <2>3. \A v \in Workers : v = w
      BY DEF InTurn, OneWorker
    <2> QED BY <2>2, <2>3 DEF SearchesHold
  <1>2. CASE UNCHANGED ctx
    <2>1. ASSUME NEW w \in Workers PROVE ~CreateCard(w)
      <3>1. ctx \in [Workers -> Request]
        BY DEF IndInv, TypeOK
      <3> SUFFICES ASSUME CreateCard(w) PROVE FALSE
        OBVIOUS
      <3>2. PICK c, e : ctx'[w] = Spent([ctx[w] EXCEPT !.card = c, !.entry = e],
                                        "refresh", Onward(ctx[w].op))
        BY <3>1 DEF CreateCard, Goto
      <3>3. ctx'[w].pc = "refresh" /\ ctx[w].pc = "create"
        BY <3>1, <3>2 DEF Spent, Request, CreateCard
      <3> QED BY <1>2, <3>3
    <2>2. ASSUME NEW e \in EntryIds, Visible(e)' PROVE SeenBefore(e)
      BY <2>1, <2>2, SeenOrMade DEF JustMade
    <2>3. ASSUME NEW w \in Workers PROVE SearchHolds(ctx[w])'
      <3>1. KeyIsFree(ctx[w]) => KeyIsFree(ctx[w])'
        BY <1>2, <2>2 DEF KeyIsFree, SeenBefore, CardOf
      <3>2. MidAgrees(ctx[w]) => MidAgrees(ctx[w])'
        BY <1>2, <2>2 DEF MidAgrees, SeenBefore, CardOf
      <3> QED BY <1>2, <3>1, <3>2 DEF SearchesHold, SearchHolds
    <2> QED BY <2>3 DEF SearchesHold
  <1>3. CASE Hermes
    BY <1>2, <1>3 DEF Hermes, HermesHandles, HermesUpdates
  <1>4. CASE UNCHANGED vars
    BY <1>2, <1>4 DEF vars
  <1> QED BY <1>1, <1>3, <1>4, OneWorkerSteps

-----------------------------------------------------------------------------
(* Cards stay one for a key credential *)

(***************************************************************************)
(* A key credential that cards shared before identified one card; the card *)
(* just made has one that no other had.                                    *)
(***************************************************************************)
LEMMA KeyStep ==
  ASSUME IndInv, NoOrphanCards, SearchesHold, OneCardPerKey, [Next]_vars
  PROVE  OneCardPerKey'
  <1> SUFFICES ASSUME NEW d \in EntryIds, NEW e \in EntryIds, Visible(d)', Visible(e)',
                      cards'[entries'[d].card].key = cards'[entries'[e].card].key,
                      cards'[entries'[d].card].key # None
               PROVE  entries'[d].card = entries'[e].card
    BY DEF OneCardPerKey, CardOf
  <1>1. ASSUME NEW w \in Workers, NEW f \in EntryIds, NEW g \in EntryIds,
               JustMade(w, f), SeenBefore(g),
               cards'[entries'[f].card].key = cards'[entries'[g].card].key,
               cards'[entries'[f].card].key # None
        PROVE  FALSE
    <2>1. KeyIsFree(ctx[w])
      BY <1>1 DEF JustMade, CreateCard, SearchesHold, SearchHolds
    <2> QED BY <1>1, <2>1 DEF JustMade, SeenBefore, KeyIsFree
  <1>2. CASE SeenBefore(d) /\ SeenBefore(e)
    <2>1. PICK f \in EntryIds :
            /\ Visible(f) /\ entries[f].card = entries'[d].card
            /\ CardOf(f).key = cards'[entries'[d].card].key
      BY <1>2 DEF SeenBefore
    <2>2. PICK g \in EntryIds :
            /\ Visible(g) /\ entries[g].card = entries'[e].card
            /\ CardOf(g).key = cards'[entries'[e].card].key
      BY <1>2 DEF SeenBefore
    <2> QED BY <2>1, <2>2 DEF OneCardPerKey
  <1>3. CASE \E v, w \in Workers : JustMade(v, d) /\ JustMade(w, e)
    <2>1. d \in Int /\ e \in Int /\ d <= e /\ e <= d
      BY <1>3, BoundsAssumption DEF JustMade, FreshEntry, EntryIds
    <2>2. d = e
      BY <2>1
    <2> QED BY <2>2
  <1>4. SeenBefore(d) \/ \E w \in Workers : JustMade(w, d)
    BY SeenOrMade
  <1>5. SeenBefore(e) \/ \E w \in Workers : JustMade(w, e)
    BY SeenOrMade
  <1> HIDE DEF OneCardPerKey
  <1> QED BY <1>1, <1>2, <1>3, <1>4, <1>5

(***************************************************************************)
(* Cards that shared a merchant identifier before had one key credential;  *)
(* the card just made agrees with them.                                    *)
(***************************************************************************)
LEMMA MidStep ==
  ASSUME IndInv, NoOrphanCards, SearchesHold, OneKeyPerMid, [Next]_vars
  PROVE  OneKeyPerMid'
  <1> SUFFICES ASSUME NEW d \in EntryIds, NEW e \in EntryIds, Visible(d)', Visible(e)',
                      cards'[entries'[d].card].mid = cards'[entries'[e].card].mid,
                      cards'[entries'[d].card].mid # None
               PROVE  cards'[entries'[d].card].key = cards'[entries'[e].card].key
    BY DEF OneKeyPerMid, CardOf
  <1>1. ASSUME NEW w \in Workers, NEW f \in EntryIds, NEW g \in EntryIds,
               JustMade(w, f), SeenBefore(g),
               cards'[entries'[f].card].mid = cards'[entries'[g].card].mid,
               cards'[entries'[f].card].mid # None
        PROVE  cards'[entries'[f].card].key = cards'[entries'[g].card].key
    <2>1. MidAgrees(ctx[w])
      BY <1>1 DEF JustMade, CreateCard, SearchesHold, SearchHolds
    <2> QED BY <1>1, <2>1 DEF JustMade, SeenBefore, MidAgrees
  <1>2. CASE SeenBefore(d) /\ SeenBefore(e)
    <2>1. PICK f \in EntryIds :
            /\ Visible(f) /\ CardOf(f).mid = cards'[entries'[d].card].mid
            /\ CardOf(f).key = cards'[entries'[d].card].key
      BY <1>2 DEF SeenBefore
    <2>2. PICK g \in EntryIds :
            /\ Visible(g) /\ CardOf(g).mid = cards'[entries'[e].card].mid
            /\ CardOf(g).key = cards'[entries'[e].card].key
      BY <1>2 DEF SeenBefore
    <2> QED BY <2>1, <2>2 DEF OneKeyPerMid
  <1>3. CASE \E v, w \in Workers : JustMade(v, d) /\ JustMade(w, e)
    <2>1. d \in Int /\ e \in Int /\ d <= e /\ e <= d
      BY <1>3, BoundsAssumption DEF JustMade, FreshEntry, EntryIds
    <2>2. d = e
      BY <2>1
    <2> QED BY <2>2
  <1>4. SeenBefore(d) \/ \E w \in Workers : JustMade(w, d)
    BY SeenOrMade
  <1>5. SeenBefore(e) \/ \E w \in Workers : JustMade(w, e)
    BY SeenOrMade
  <1> HIDE DEF OneKeyPerMid
  <1> QED BY <1>1, <1>2, <1>3, <1>4, <1>5

(***************************************************************************)
(* At first no worker has searched for anything.                           *)
(***************************************************************************)
LEMMA NothingSearched == Init => SearchesHold
  BY DEF Init, SearchesHold, SearchHolds, Idle

(***************************************************************************)
(* While requests are served one after another, every search a request     *)
(* remembers still holds when it comes to insert its card.                 *)
(***************************************************************************)
LEMMA SearchesKept == InTurn /\ Spec => [](InTurn /\ SearchesHold)
  <1>1. InTurn => InTurn'
    BY DEF InTurn, OneWorker
  <1>2. IndInv /\ NoOrphanCards /\ InTurn /\ SearchesHold /\ [Next]_vars => SearchesHold'
    BY SearchStep
  <1> QED BY <1>1, <1>2, NothingSearched, Inductive, NoneOrphaned, PTL DEF Spec

(***************************************************************************)
(* One request after another, and no update by a trusted channel, a key    *)
(* credential that identified one card at first always does.               *)
(***************************************************************************)
THEOREM KeysIdentify == InTurn /\ Spec /\ OneCardPerKey => []OneCardPerKey
  <1>1. IndInv /\ NoOrphanCards /\ SearchesHold /\ OneCardPerKey /\ [Next]_vars => OneCardPerKey'
    BY KeyStep
  <1> QED BY <1>1, SearchesKept, Inductive, NoneOrphaned, PTL DEF Spec

(***************************************************************************)
(* Likewise the cards that share a merchant identifier always share their  *)
(* key credential, if they did at first.                                   *)
(***************************************************************************)
THEOREM MidsAgree == InTurn /\ Spec /\ OneKeyPerMid => []OneKeyPerMid
  <1>1. IndInv /\ NoOrphanCards /\ SearchesHold /\ OneKeyPerMid /\ [Next]_vars => OneKeyPerMid'
    BY MidStep
  <1> QED BY <1>1, SearchesKept, Inductive, NoneOrphaned, PTL DEF Spec

-----------------------------------------------------------------------------
(* Join messages *)

(***************************************************************************)
(* A card that was there keeps its key credential.                         *)
(***************************************************************************)
LEMMA KeyKept ==
  ASSUME IndInv, [Next]_vars, NEW c \in CardIds, cards[c].state # "unused"
  PROVE  Keyless(c)' <=> Keyless(c)
  <1>1. cards \in [CardIds -> CardRow]
    BY IndInvTables DEF TablesOK, Shaped
  <1>2. ASSUME NEW w \in Workers, CreateCard(w) PROVE cards'[c] = cards[c]
    BY <1>1, <1>2 DEF CreateCard, FreshCard
  <1> QED BY <1>2, CardsKept DEF CardKept, Keyless

(***************************************************************************)
(* A link without a key credential goes on waiting until Hermes takes its  *)
(* join message: a trusted add cannot find it.                             *)
(***************************************************************************)
LEMMA WaitingKept ==
  ASSUME IndInv, JoinsHold, [Next]_vars, NEW e \in EntryIds, entries[e].state # "unused",
         Keyless(entries[e].card), Waiting(e),
         \A m : HermesHandles(m) /\ m.path = "loyalty_card_join" => m.entry # e
  PROVE  Waiting(e)'
  <1>1. entries \in [EntryIds -> EntryRow] /\ entries[e] \in EntryRow
    BY IndInvTables DEF TablesOK, Shaped
  <1>2. ASSUME entries'[e] = entries[e] PROVE Waiting(e)'
    BY <1>2 DEF Waiting
  <1>3. ASSUME NEW w \in Workers, WorkerStep(w) PROVE Waiting(e)'
    <2>1. CASE CreateCard(w) \/ LinkCard(w)
      BY <1>1, <1>2, <2>1 DEF CreateCard, LinkCard, InsertEntry, FreshEntry
    <2>2. CASE UpdateLink(w)
      <3>1. ctx[w].entry # e
        BY <2>2, Holding DEF UpdateLink, HoldsLink, JoinsHold, JoinHolds
      <3> QED BY <1>1, <1>2, <2>2, <3>1 DEF UpdateLink, tables
    <2>3. CASE Rejoin(w)
      <3>1. entries'[e] = entries[e]
              \/ entries'[e] = [entries[e] EXCEPT !.status =
                                  IF entries[e].state = "live" THEN JOIN_ASYNC_IN_PROGRESS ELSE @]
        BY <1>1, <2>3 DEF Rejoin
      <3> QED BY <1>1, <1>2, <3>1 DEF Waiting, EntryRow
    <2>4. CASE Remove(w)
      <3>1. entries'[e] = entries[e] \/ entries'[e] = [entries[e] EXCEPT !.state = "gone"]
        BY <1>1, <2>4 DEF Remove
      <3> QED BY <1>1, <1>2, <3>1 DEF Waiting, EntryRow
    <2>5. CASE \/ Receive(w) \/ Fetch(w) \/ CheckMid(w) \/ Route(w) \/ TouchCard(w)
               \/ Refresh(w) \/ Publish(w) \/ Abort(w) \/ Crash(w)
      BY <1>2, <2>5, FetchMoves, CheckMidMoves, RouteMoves, RefreshMoves, PublishMoves
         DEF Receive, TouchCard, Abort, Crash, tables
    <2> QED BY <1>3, <2>1, <2>2, <2>3, <2>4, <2>5 DEF WorkerStep
  <1>4. ASSUME NEW m, HermesHandles(m) PROVE Waiting(e)'
    <2>1. CASE HermesRemovesLink(m.card, m.user)
      <3>1. entries'[e] = entries[e] \/ entries'[e] = [entries[e] EXCEPT !.state = "gone"]
        BY <2>1 DEF HermesRemovesLink
      <3> QED BY <1>1, <1>2, <3>1 DEF Waiting, EntryRow
    <2>2. CASE m.path = "loyalty_card_join"
      <3>1. m.entry # e /\ \E s : entries' = [entries EXCEPT ![m.entry].status = s]
        BY <1>4, <2>2 DEF HermesHandles
      <3> QED BY <1>1, <1>2, <3>1
    <2> QED BY <1>2, <1>4, <2>1, <2>2 DEF HermesHandles, tables
  <1>5. ASSUME NEW d \in EntryIds, NEW s \in HermesStatuses, HermesUpdates(d, s)
        PROVE  Waiting(e)'
    <2>1. CASE d = e
      <3>1. entries[e].state = "live" /\ entries[e].status # JOIN_ASYNC_IN_PROGRESS
        BY <1>5, <2>1 DEF HermesUpdates
      <3> QED BY <3>1 DEF Waiting
    <2>2. CASE d # e
      BY <1>1, <1>2, <1>5, <2>2 DEF HermesUpdates
    <2> QED BY <2>1, <2>2
  <1>6. CASE Hermes
    BY <1>4, <1>5, <1>6 DEF Hermes
  <1> QED BY <1>2, <1>3, <1>6, OneWorkerSteps DEF vars

(***************************************************************************)
(* There is one join message for a link.                                   *)
(***************************************************************************)
LEMMA OneMessage ==
  ASSUME IndInv, MessageIntegrity, NEW m \in BagToSet(bus), NEW n \in BagToSet(bus),
         m.path = "loyalty_card_join", n.path = "loyalty_card_join", m.entry = n.entry
  PROVE  m = n
  <1>1. m \in Message /\ n \in Message
    BY DEF IndInv, TypeOK
  <1>2. m.user = n.user /\ m.card = n.card
    BY DEF MessageIntegrity, NamesCommittedLink
  <1> QED BY <1>1, <1>2 DEF Message

(***************************************************************************)
(* What a join message in the queue is about.                              *)
(***************************************************************************)
LEMMA JoinNames ==
  ASSUME IndInv, MessageIntegrity, NEW m \in BagToSet(bus), m.path = "loyalty_card_join"
  PROVE  /\ m.entry \in EntryIds /\ entries[m.entry].state # "unused"
         /\ entries[m.entry].card = m.card
         /\ m.card \in CardIds /\ cards[m.card].state # "unused"
  <1>1. /\ m.entry \in EntryIds /\ entries[m.entry].state # "unused"
        /\ entries[m.entry].card = m.card
    BY DEF MessageIntegrity, NamesCommittedLink
  <1> QED BY <1>1, IndInvTables DEF TablesOK, Anchored

(***************************************************************************)
(* Adding a message that is not in the queue leaves one copy of it.        *)
(***************************************************************************)
LEMMA CountOfAdded ==
  ASSUME NEW B, IsABag(B), NEW m, m \notin BagToSet(B)
  PROVE  (B (+) SetToBag({m}))[m] = 1
  BY DEF IsABag, BagToSet, SetToBag, (+)

(***************************************************************************)
(* Taking the one copy of a message leaves none, and the others as they    *)
(* are.                                                                    *)
(***************************************************************************)
LEMMA CountOfTaken ==
  ASSUME NEW B, IsABag(B), NEW m \in BagToSet(B), NEW n
  PROVE  /\ B[m] = 1 => m \notin BagToSet(B (-) SetToBag({m}))
         /\ n \in BagToSet(B) /\ n # m => (B (-) SetToBag({m}))[n] = B[n]
  BY DEF IsABag, BagToSet, SetToBag, (-)

(***************************************************************************)
(* The join message about to be published is not in the queue yet.         *)
(***************************************************************************)
LEMMA JoinPublished ==
  ASSUME IndInv, MessageIntegrity, JoinsHold, NEW w \in Workers, Publish(w),
         NEW m, m = MessageOf(ctx[w]), m.path = "loyalty_card_join", Keyless(m.card)
  PROVE  m \notin BagToSet(bus) /\ Waiting(m.entry)
  <1> DEFINE x == ctx[w]
  <1>1. x \in Request /\ Sound(x, cards, entries) /\ x.pc \in {"publish", "failed"}
    BY Current DEF Publish
  <1>2. x.out \in Seq(Paths) /\ x.out # <<>> /\ JoinHolds(x)
    BY <1>1 DEF Sound, HasOut, Request, JoinsHold
  <1>3. m.path = Head(x.out) /\ m.entry = x.entry /\ m.card = x.card
    BY DEF MessageOf
  <1> HIDE DEF x
  <1>4. 1 \in DOMAIN x.out /\ x.out[1] = "loyalty_card_join"
    <2> DEFINE out == x.out
    <2>1. out \in Seq(Paths) /\ out # <<>> /\ Head(out) = "loyalty_card_join"
      BY <1>2, <1>3
    <2> HIDE DEF out
    <2>2. 1 \in DOMAIN out /\ out[1] = "loyalty_card_join"
      BY <2>1
    <2> QED BY <2>2 DEF out
  <1>5. ~JoinQueued(x.entry) /\ Waiting(x.entry)
    BY <1>2, <1>3, <1>4 DEF JoinHolds
  <1> QED BY <1>3, <1>5 DEF JoinQueued

(***************************************************************************)
(* A join message in the queue is the only one of its link, and the link   *)
(* waits for it.                                                           *)
(***************************************************************************)
LEMMA QueuedStep ==
  ASSUME IndInv, MessageIntegrity, JoinsQueued, JoinsHold, [Next]_vars
  PROVE  JoinsQueued'
  <1> SUFFICES ASSUME NEW m \in BagToSet(bus)', m.path = "loyalty_card_join", Keyless(m.card)'
               PROVE  bus'[m] = 1 /\ Waiting(m.entry)'
    BY DEF JoinsQueued
  <1>1. IsABag(bus)
    BY DEF IndInv, TypeOK
  <1>2. CASE m \in BagToSet(bus)
    <2>1. /\ m.entry \in EntryIds /\ entries[m.entry].state # "unused"
          /\ entries[m.entry].card = m.card
          /\ m.card \in CardIds /\ cards[m.card].state # "unused"
      BY <1>2, JoinNames
    <2>2. Keyless(m.card)
      BY <2>1, KeyKept
    <2>3. bus[m] = 1 /\ Waiting(m.entry)
      BY <1>2, <2>2 DEF JoinsQueued
    <2>4. ASSUME NEW n, HermesHandles(n) PROVE n # m
      BY <1>1, <1>2, <2>3, <2>4, CountOfTaken DEF HermesHandles
    <2>5. ASSUME NEW n, HermesHandles(n), n.path = "loyalty_card_join" PROVE n.entry # m.entry
      BY <1>2, <2>4, <2>5, OneMessage DEF HermesHandles
    <2>6. Waiting(m.entry)'
      BY <2>1, <2>2, <2>3, <2>5, WaitingKept
    <2>7. ASSUME NEW w \in Workers, WorkerStep(w) PROVE bus'[m] = 1
      <3>1. CASE Publish(w)
        <4>1. bus' = bus (+) SetToBag({MessageOf(ctx[w])})
          BY <3>1 DEF Publish
        <4>2. MessageOf(ctx[w]) # m
          BY <1>2, <2>2, <3>1, JoinPublished
        <4>3. ASSUME NEW n, n # m, bus' = bus (+) SetToBag({n}) PROVE bus'[m] = 1
          <5>1. (bus (+) SetToBag({n}))[m] = bus[m]
            BY <1>1, <1>2, <4>3 DEF IsABag, BagToSet, SetToBag, (+)
          <5> QED BY <2>3, <4>3, <5>1
        <4> HIDE DEF MessageOf
        <4> QED BY <4>1, <4>2, <4>3
      <3>2. CASE ~Publish(w)
        <4>1. UNCHANGED bus
          BY <2>7, <3>2, FetchMoves, CheckMidMoves, RouteMoves, CreateMoves, LinkMoves,
             TouchMoves, UpdateMoves, RejoinMoves, RemoveMoves, RefreshMoves
             DEF WorkerStep, Receive, Abort, Crash
        <4> QED BY <2>3, <4>1
      <3> QED BY <3>1, <3>2
    <2>8. ASSUME Hermes PROVE bus'[m] = 1
      <3>1. ASSUME NEW n \in BagToSet(bus), HermesHandles(n) PROVE bus'[m] = 1
        BY <1>1, <1>2, <2>3, <2>4, <3>1, CountOfTaken DEF HermesHandles
      <3> QED BY <2>3, <2>8, <3>1 DEF Hermes, HermesUpdates
    <2>9. bus'[m] = 1
      BY <2>3, <2>7, <2>8, OneWorkerSteps DEF vars
    <2> QED BY <2>6, <2>9
  <1>3. CASE m \notin BagToSet(bus)
    <2>1. PICK w \in Workers : Publish(w)
      BY <1>3, QueueStep
    <2>2. m = MessageOf(ctx[w]) /\ UNCHANGED <<cards, entries>>
      BY <1>3, <2>1, PublishMoves
    <2>3. Keyless(m.card)
      BY <2>2 DEF Keyless
    <2>4. Waiting(m.entry)
      BY <2>1, <2>2, <2>3, JoinPublished
    <2>5. bus' = bus (+) SetToBag({m})
      BY <2>1, <2>2 DEF Publish
    <2> QED BY <1>1, <1>3, <2>2, <2>4, <2>5, CountOfAdded DEF Waiting
  <1> QED BY <1>2, <1>3

-----------------------------------------------------------------------------
(* What a request knows of its join *)

(***************************************************************************)
(* A request with no join to send or to start over.                        *)
(***************************************************************************)
NoJoin(y) ==
    /\ \A i \in DOMAIN y.out : y.out[i] # "loyalty_card_join"
    /\ y.pc \notin {"update", "rejoin"}
    /\ IsTrusted(y) /\ y.pc \in {"fetch", "mid", "lookup"} => y.key # None

(***************************************************************************)
(* Such a request satisfies the invariant, whatever the tables and the     *)
(* queue.                                                                  *)
(***************************************************************************)
LEMMA NoJoinHolds ==
  ASSUME NEW w \in Workers, NoJoin(ctx'[w])
  PROVE  JoinHolds(ctx[w])'
  BY DEF NoJoin, JoinHolds, IsTrusted

(***************************************************************************)
(* A request that ends, or fails, has no join.                             *)
(***************************************************************************)
LEMMA EndedNoJoin ==
  ASSUME NEW x
  PROVE  NoJoin(Idle) /\ NoJoin(Failing(x))
  <1>1. NoJoin(Idle)
    BY DEF Idle, NoJoin
  <1>2. CASE x.op = "trusted_add" /\ x.pc # "failed"
    <2>1. Failing(x) =
            [pc |-> "failed", op |-> x.op, user |-> x.user, key |-> None, mid |-> None,
             card |-> x.card, old |-> 0, entry |-> 0, todo |-> {},
             out |-> <<"add_trusted_failed">>]
      BY <1>2 DEF Failing, Idle
    <2>2. Failing(x).pc = "failed" /\ Failing(x).out = <<"add_trusted_failed">>
      BY <2>1
    <2>3. ASSUME NEW y, y.pc = "failed", y.out = <<"add_trusted_failed">> PROVE NoJoin(y)
      BY <2>3 DEF NoJoin
    <2> QED BY <1>1, <2>2, <2>3
  <1> QED BY <1>1, <1>2 DEF Failing

(***************************************************************************)
(* Nor has one that is left with other messages.                           *)
(***************************************************************************)
LEMMA SpentNoJoin ==
  ASSUME NEW x \in Request, NEW c, NEW e, NEW t, NEW out,
         \A i \in DOMAIN out : out[i] # "loyalty_card_join",
         NEW pc \in {"publish", "refresh", "touch"}
  PROVE  /\ NoJoin(Spent(x, pc, out))
         /\ NoJoin(Spent([x EXCEPT !.entry = e], pc, out))
         /\ NoJoin(Spent([x EXCEPT !.card = c, !.entry = e], pc, out))
         /\ NoJoin(Spent([x EXCEPT !.card = c, !.entry = e, !.todo = t], pc, out))
  BY DEF Spent, Request, NoJoin

(***************************************************************************)
(* Only a join, and a join sent over again, publish a join message.        *)
(***************************************************************************)
LEMMA OtherOuts ==
  ASSUME NEW out,
         out \in {<<>>, <<"add_auth_request_event">>, <<"loyalty_card_register">>,
                  <<"delete_loyalty_card">>, <<"loyalty_card_trusted_add">>,
                  <<"add_auth_request_event", "add_auth_outcome_event">>,
                  <<"add_auth_request_event", "loyalty_card_add_auth">>}
                 \cup {Onward(op) : op \in AllOps \ {"join"}}
  PROVE  \A i \in DOMAIN out : out[i] # "loyalty_card_join"
  BY DEF Onward, AllOps

(***************************************************************************)
(* Nor has one that starts; a trusted channel gives a key credential.      *)
(***************************************************************************)
LEMMA ReceiveJoin ==
  ASSUME IndInv, NEW w \in Workers, Receive(w)
  PROVE  NoJoin(ctx'[w])
  <1>1. ctx \in [Workers -> Request]
    BY DEF IndInv, TypeOK
  <1>2. PICK u \in Users, op \in Ops, k \in Keys \cup {None}, m \in Mids \cup {None},
             c \in CardIds \cup {0} :
               Admissible(op, k, m, c) /\ Goto(w, Started(op, u, k, m, c))
    BY DEF Receive
  <1>3. ctx'[w] = Started(op, u, k, m, c)
    BY <1>1, <1>2 DEF Goto
  <1>4. /\ ctx'[w].op = op /\ ctx'[w].key = k /\ ctx'[w].pc = FirstStep(op)
        /\ ctx'[w].out = <<>>
    BY <1>3 DEF Started
  <1>5. op \in {"trusted_add", "trusted_update"} => k # None
    BY <1>2 DEF Admissible
  <1>6. FirstStep(op) \notin {"update", "rejoin"}
    BY DEF FirstStep
  <1> QED BY <1>4, <1>5, <1>6 DEF NoJoin, IsTrusted

(***************************************************************************)
(* A join is sent over again for a link that waits for none.               *)
(***************************************************************************)
LEMMA FetchJoin ==
  ASSUME IndInv, MessageIntegrity, JoinsQueued, JoinsHold, NEW w \in Workers, Fetch(w)
  PROVE  JoinHolds(ctx[w])'
  <1> DEFINE x == ctx[w]
  <1>1. /\ x \in Request /\ ctx \in [Workers -> Request] /\ JoinHolds(x)
        /\ \A y : Goto(w, y) => ctx'[w] = y
        /\ UNCHANGED <<cards, entries, bus>>
    BY Current, FetchMoves DEF IndInv, TypeOK, JoinsHold, Goto
  <1>2. CASE Finish(w)
    <2>1. NoJoin(ctx'[w])
      BY <1>1, <1>2, EndedNoJoin DEF Finish
    <2> QED BY <2>1, NoJoinHolds
  <1>3. CASE NotFound(w)
    BY <1>2, <1>3 DEF NotFound
  <1>4. ASSUME NEW e \in EntryIds, NEW op, Fetches(w, op, e)
        PROVE  /\ x.out = <<>> /\ x.pc = "fetch" /\ x.op = op
               /\ entries[e].card = x.card /\ entries[e].state = "live" /\ x.card \in CardIds
    <2>1. x.out = <<>> /\ x.pc = "fetch" /\ x.op = op
      BY <1>4, FetchedLink
    <2>2. entries[e].card = x.card /\ entries[e].state = "live"
      BY <1>4 DEF Fetches, Visible
    <2> QED BY <2>1, <2>2, IndInvTables DEF TablesOK, Anchored
  <1> HIDE DEF x
  <1>5. ASSUME NEW e \in EntryIds, NEW out, Goto(w, Spent([x EXCEPT !.entry = e], "publish", out)),
               out \in {<<"add_auth_request_event">>, <<"loyalty_card_register">>,
                        <<"delete_loyalty_card">>,
                        <<"add_auth_request_event", "add_auth_outcome_event">>,
                        <<"add_auth_request_event", "loyalty_card_add_auth">>}
        PROVE  JoinHolds(ctx[w])'
    <2>1. \A i \in DOMAIN out : out[i] # "loyalty_card_join"
      BY <1>5, OtherOuts
    <2>2. NoJoin(Spent([x EXCEPT !.entry = e], "publish", out))
      BY <1>1, <2>1, SpentNoJoin
    <2>3. ctx'[w] = Spent([x EXCEPT !.entry = e], "publish", out)
      BY <1>1, <1>5
    <2> QED BY <2>2, <2>3, NoJoinHolds
  <1>6. ASSUME NEW e \in EntryIds, NEW op, Fetches(w, op, e), NEW y,
               y.pc \in {"lookup", "mid", "remove"}, y.out = x.out, y.op = x.op, y.key = x.key,
               Goto(w, y)
        PROVE  JoinHolds(ctx[w])'
    <2>1. NoJoin(y)
      BY <1>1, <1>4, <1>6 DEF NoJoin, JoinHolds, IsTrusted
    <2>2. ctx'[w] = y
      BY <1>1, <1>6
    <2> QED BY <2>1, <2>2, NoJoinHolds
  <1>7. ASSUME NEW e \in EntryIds, Authorise(w, e) PROVE JoinHolds(ctx[w])'
    <2> DEFINE z == [x EXCEPT !.entry = e]
               y == [z EXCEPT !.pc = "lookup", !.old = z.card]
    <2>1. \/ \E matching \in BOOLEAN :
               Goto(w, Spent(z, "publish", <<"add_auth_request_event",
                   IF matching THEN "add_auth_outcome_event" ELSE "loyalty_card_add_auth">>))
          \/ Goto(w, y)
      BY <1>7 DEF Authorise, x
    <2>2. CASE Goto(w, y)
      <3>1. y.pc = "lookup" /\ y.out = x.out /\ y.op = x.op /\ y.key = x.key
        BY <1>1 DEF Request
      <3>2. Fetches(w, "authorise", e)
        BY <1>7 DEF Authorise
      <3> HIDE DEF y
      <3> QED BY <1>6, <2>2, <3>1, <3>2
    <2>3. ASSUME NEW matching \in BOOLEAN,
                 Goto(w, Spent(z, "publish", <<"add_auth_request_event",
                   IF matching THEN "add_auth_outcome_event" ELSE "loyalty_card_add_auth">>))
          PROVE  JoinHolds(ctx[w])'
      <3> DEFINE out == <<"add_auth_request_event",
                   IF matching THEN "add_auth_outcome_event" ELSE "loyalty_card_add_auth">>
      <3>1. out \in {<<"add_auth_request_event", "add_auth_outcome_event">>,
                     <<"add_auth_request_event", "loyalty_card_add_auth">>}
        OBVIOUS
      <3>2. Goto(w, Spent([x EXCEPT !.entry = e], "publish", out))
        BY <2>3
      <3> HIDE DEF out
      <3> QED BY <1>5, <3>1, <3>2
    <2> HIDE DEF y, z
    <2> QED BY <2>1, <2>2, <2>3
  <1>8. ASSUME NEW e \in EntryIds, TrustedUpdate(w, e) PROVE JoinHolds(ctx[w])'
    <2> DEFINE y == [x EXCEPT !.pc = "mid", !.entry = e, !.old = x.card]
    <2>1. Finish(w) \/ Goto(w, y)
      BY <1>8 DEF TrustedUpdate, x
    <2>2. y.pc = "mid" /\ y.out = x.out /\ y.op = x.op /\ y.key = x.key
      BY <1>1 DEF Request
    <2>3. Fetches(w, "trusted_update", e)
      BY <1>8 DEF TrustedUpdate
    <2> HIDE DEF y
    <2> QED BY <1>2, <1>6, <2>1, <2>2, <2>3
  <1>9. ASSUME NEW e \in EntryIds, Register(w, e) \/ Delete(w, e) PROVE JoinHolds(ctx[w])'
    <2>1. \/ Finish(w)
          \/ \E out \in {<<"loyalty_card_register">>, <<"delete_loyalty_card">>} :
               Goto(w, Spent([x EXCEPT !.entry = e], "publish", out))
      BY <1>9 DEF Register, Delete, x
    <2> QED BY <1>2, <1>5, <2>1
  <1>10. ASSUME NEW e \in EntryIds, DeleteJoin(w, e) PROVE JoinHolds(ctx[w])'
    <2> DEFINE y == [x EXCEPT !.entry = e, !.pc = "remove"]
    <2>1. Finish(w) \/ Goto(w, y)
      BY <1>10 DEF DeleteJoin, x
    <2>2. y.pc = "remove" /\ y.out = x.out /\ y.op = x.op /\ y.key = x.key
      BY <1>1 DEF Request
    <2>3. Fetches(w, "delete_join", e)
      BY <1>10 DEF DeleteJoin
    <2> HIDE DEF y
    <2> QED BY <1>2, <1>6, <2>1, <2>2, <2>3
  <1>11. ASSUME NEW e \in EntryIds, PutJoin(w, e) PROVE JoinHolds(ctx[w])'
    <2>1. \/ Finish(w)
          \/ /\ entries[e].status \in JOIN_FAILED_STATES \ JOIN_PENDING_STATES
             /\ Goto(w, [x EXCEPT !.entry = e, !.pc = "rejoin"])
      BY <1>11 DEF PutJoin, x
    <2>2. ASSUME entries[e].status \in JOIN_FAILED_STATES \ JOIN_PENDING_STATES,
                 Goto(w, [x EXCEPT !.entry = e, !.pc = "rejoin"])
          PROVE  JoinHolds(ctx[w])'
      <3>1. ctx'[w] = [x EXCEPT !.entry = e, !.pc = "rejoin"]
        BY <1>1, <2>2
      <3>2. /\ ctx'[w].pc = "rejoin" /\ ctx'[w].entry = e /\ ctx'[w].card = x.card
            /\ ctx'[w].out = x.out
        BY <1>1, <3>1 DEF Request
      <3>3. x.out = <<>> /\ entries[e].card = x.card /\ entries[e].state = "live"
        BY <1>4, <1>11 DEF PutJoin
      <3>4. ~Waiting(e)
        BY <2>2, <3>3 DEF Waiting, JOIN_PENDING_STATES
      <3>5. Keyless(x.card) => ~JoinQueued(e)
        BY <3>3, <3>4, JoinNames DEF JoinQueued, JoinsQueued
      <3>6. JoinQueued(e)' <=> JoinQueued(e)
        BY <1>1 DEF JoinQueued
      <3> QED BY <1>1, <3>2, <3>3, <3>5, <3>6 DEF JoinHolds, Keyless
    <2> QED BY <1>2, <2>1, <2>2
  <1> QED BY <1>3, <1>7, <1>8, <1>9, <1>10, <1>11 DEF Fetch

(***************************************************************************)
(* A link that a trusted add is to update is to a card found by its key    *)
(* credential.                                                             *)
(***************************************************************************)
LEMMA SearchJoin ==
  ASSUME IndInv, JoinsHold, NEW w \in Workers, CheckMid(w) \/ Route(w)
  PROVE  JoinHolds(ctx[w])'
  <1> DEFINE x == ctx[w]
  <1>1. /\ x \in Request /\ ctx \in [Workers -> Request] /\ JoinHolds(x)
        /\ \A y : Goto(w, y) => ctx'[w] = y
        /\ UNCHANGED <<cards, entries, bus>>
    BY Current, CheckMidMoves, RouteMoves DEF IndInv, TypeOK, JoinsHold, Goto
  <1>2. ASSUME NEW y, Goto(w, y), NoJoin(y) PROVE JoinHolds(ctx[w])'
    BY <1>1, <1>2, NoJoinHolds
  <1>3. CASE Fail(w) \/ Finish(w) \/ \E y : Goto(w, Failing(y))
    BY <1>2, <1>3, EndedNoJoin DEF Fail, Finish
  <1>4. x.pc \in {"mid", "lookup"} /\ x.out = <<>>
    <2>1. x.pc \in {"mid", "lookup"}
      BY DEF CheckMid, Route, NoCardRoute, ManyCardsRoute, AddRoute, AddAndAuthoriseRoute,
             TrustedAddRoute, SingleCard
    <2> QED BY <2>1, Current DEF Sound, HasOut
  <1> HIDE DEF x
  <1>5. ASSUME NEW y, Goto(w, y), y.pc \in {"lookup", "create", "link"}, y.out = x.out,
               y.op = x.op, y.key = x.key
        PROVE  JoinHolds(ctx[w])'
    BY <1>1, <1>2, <1>4, <1>5 DEF NoJoin, JoinHolds, IsTrusted
  <1>6. CASE CheckMid(w) \/ NoCardRoute(w)
    <2>1. Fail(w) \/ \E pc \in {"lookup", "create"} : Goto(w, [x EXCEPT !.pc = pc])
      BY <1>6 DEF CheckMid, NoCardRoute, x
    <2>2. ASSUME NEW pc \in {"lookup", "create"}, Goto(w, [x EXCEPT !.pc = pc])
          PROVE  JoinHolds(ctx[w])'
      <3> DEFINE y == [x EXCEPT !.pc = pc]
      <3>1. y.pc = pc /\ y.out = x.out /\ y.op = x.op /\ y.key = x.key /\ Goto(w, y)
        BY <1>1, <2>2 DEF Request
      <3> HIDE DEF y
      <3> QED BY <1>5, <3>1
    <2> QED BY <1>3, <2>1, <2>2
  <1>7. ASSUME NEW c, Goto(w, [x EXCEPT !.pc = "link", !.card = c]) PROVE JoinHolds(ctx[w])'
    <2> DEFINE y == [x EXCEPT !.pc = "link", !.card = c]
    <2>1. y.pc = "link" /\ y.out = x.out /\ y.op = x.op /\ y.key = x.key /\ Goto(w, y)
      BY <1>1, <1>7 DEF Request
    <2> HIDE DEF y
    <2> QED BY <1>5, <2>1
  <1>8. ASSUME NEW c, NEW e, NEW t, NEW out,
               out \in {<<"add_auth_request_event">>, <<"loyalty_card_trusted_add">>},
               \/ Goto(w, Spent([x EXCEPT !.card = c, !.entry = e], "publish", out))
               \/ Goto(w, Spent([x EXCEPT !.card = c, !.entry = e, !.todo = t], "publish", out))
        PROVE  JoinHolds(ctx[w])'
    <2>1. \A i \in DOMAIN out : out[i] # "loyalty_card_join"
      BY <1>8, OtherOuts
    <2>2. /\ NoJoin(Spent([x EXCEPT !.card = c, !.entry = e], "publish", out))
          /\ NoJoin(Spent([x EXCEPT !.card = c, !.entry = e, !.todo = t], "publish", out))
      BY <1>1, <2>1, SpentNoJoin
    <2> HIDE DEF Spent, NoJoin
    <2> QED BY <1>2, <1>8, <2>2
  <1>9. ASSUME NEW c \in CardIds, AddRoute(w, c) \/ AddAndAuthoriseRoute(w, c)
        PROVE  JoinHolds(ctx[w])'
    <2>1. \/ Fail(w) \/ Finish(w) \/ Goto(w, [x EXCEPT !.pc = "link", !.card = c])
          \/ \E e : Goto(w, Spent([x EXCEPT !.card = c, !.entry = e], "publish",
                                  <<"add_auth_request_event">>))
      BY <1>9 DEF AddRoute, AddAndAuthoriseRoute, x
    <2>2. ASSUME NEW e, Goto(w, Spent([x EXCEPT !.card = c, !.entry = e], "publish",
                                      <<"add_auth_request_event">>))
          PROVE  JoinHolds(ctx[w])'
      <3> DEFINE out == <<"add_auth_request_event">>
      <3>1. /\ out \in {<<"add_auth_request_event">>, <<"loyalty_card_trusted_add">>}
            /\ Goto(w, Spent([x EXCEPT !.card = c, !.entry = e], "publish", out))
        BY <2>2
      <3> HIDE DEF out
      <3> QED BY <1>8, <3>1
    <2> QED BY <1>3, <1>7, <2>1, <2>2
  <1>10. ASSUME NEW c \in CardIds, TrustedAddRoute(w, c) PROVE JoinHolds(ctx[w])'
    <2>1. IsTrusted(x) /\ x.pc = "lookup" /\ {entries[e].card : e \in ByKey(x)} = {c}
      BY <1>10 DEF TrustedAddRoute, SingleCard, IsTrusted, x
    <2>2. cards[c].key = x.key /\ x.key # None
      BY <1>1, <2>1 DEF ByKey, CardOf, JoinHolds
    <2>3. \/ Finish(w) \/ Goto(w, Failing([x EXCEPT !.card = c]))
          \/ Goto(w, [x EXCEPT !.pc = "link", !.card = c])
          \/ \E e, t :
               \/ Goto(w, Spent([x EXCEPT !.card = c, !.entry = e, !.todo = t], "publish",
                                <<"loyalty_card_trusted_add">>))
               \/ Goto(w, [[x EXCEPT !.card = c, !.entry = e, !.todo = t] EXCEPT !.pc = "update"])
      BY <1>10 DEF TrustedAddRoute, Unchanged, Finish, x
    <2>4. ASSUME NEW e, NEW t,
                 Goto(w, Spent([x EXCEPT !.card = c, !.entry = e, !.todo = t], "publish",
                               <<"loyalty_card_trusted_add">>))
          PROVE  JoinHolds(ctx[w])'
      <3> DEFINE out == <<"loyalty_card_trusted_add">>
      <3>1. /\ out \in {<<"add_auth_request_event">>, <<"loyalty_card_trusted_add">>}
            /\ Goto(w, Spent([x EXCEPT !.card = c, !.entry = e, !.todo = t], "publish", out))
        BY <2>4
      <3> HIDE DEF out
      <3> QED BY <1>8, <3>1
    <2>5. ASSUME NEW e, NEW t,
                 Goto(w, [[x EXCEPT !.card = c, !.entry = e, !.todo = t] EXCEPT !.pc = "update"])
          PROVE  JoinHolds(ctx[w])'
      <3>1. ctx'[w] = [[x EXCEPT !.card = c, !.entry = e, !.todo = t] EXCEPT !.pc = "update"]
        BY <1>1, <2>5
      <3>2. ctx'[w].pc = "update" /\ ctx'[w].card = c /\ ctx'[w].out = x.out
        BY <1>1, <3>1 DEF Request
      <3> QED BY <1>1, <1>4, <2>2, <3>2 DEF JoinHolds, Keyless
    <2> HIDE DEF Spent
    <2> QED BY <1>3, <1>7, <2>3, <2>4, <2>5
  <1>11. CASE ManyCardsRoute(w)
    BY <1>3, <1>11 DEF ManyCardsRoute
  <1> QED BY <1>6, <1>9, <1>10, <1>11 DEF Route

(***************************************************************************)
(* A link just made has no message in the queue.                           *)
(***************************************************************************)
LEMMA FreshNotQueued ==
  ASSUME IndInv, MessageIntegrity, NEW e \in EntryIds, entries[e].state = "unused"
  PROVE  ~JoinQueued(e)
  BY JoinNames DEF JoinQueued

(***************************************************************************)
(* A new link that waits for its join is about to have its message sent,   *)
(* for the first time.                                                     *)
(***************************************************************************)
LEMMA NewLinkJoin ==
  ASSUME IndInv, MessageIntegrity, NEW w \in Workers, CreateCard(w) \/ LinkCard(w)
  PROVE  JoinHolds(ctx[w])'
  <1> DEFINE x == ctx[w]
  <1>1. /\ x \in Request /\ ctx \in [Workers -> Request] /\ Sound(x, cards, entries)
        /\ entries \in [EntryIds -> EntryRow]
        /\ \A y : Goto(w, y) => ctx'[w] = y
    BY Current, IndInvTables DEF IndInv, TypeOK, Goto, TablesOK, Shaped
  <1>2. CASE Fail(w)
    <2>1. NoJoin(ctx'[w])
      BY <1>1, <1>2, EndedNoJoin DEF Fail
    <2> QED BY <2>1, NoJoinHolds
  <1>3. CASE \E c, e, pc :
               /\ e \in EntryIds /\ entries[e].state = "unused" /\ InsertEntry(e, c, x)
               /\ pc \in {"touch", "refresh"}
               /\ \/ Goto(w, Spent([x EXCEPT !.card = c, !.entry = e], pc, Onward(x.op)))
                  \/ Goto(w, Spent([x EXCEPT !.entry = e], pc, Onward(x.op)))
               /\ UNCHANGED bus
    <2>1. PICK c, e, pc :
               /\ e \in EntryIds /\ entries[e].state = "unused" /\ InsertEntry(e, c, x)
               /\ pc \in {"touch", "refresh"}
               /\ \/ Goto(w, Spent([x EXCEPT !.card = c, !.entry = e], pc, Onward(x.op)))
                  \/ Goto(w, Spent([x EXCEPT !.entry = e], pc, Onward(x.op)))
               /\ UNCHANGED bus
      BY <1>3
    <2>2. x.op \in AllOps
      <3>1. x.pc \in {"create", "link"}
        BY DEF CreateCard, LinkCard
      <3> QED BY <1>1, <3>1 DEF Sound, Linking, AllOps
    <2> HIDE DEF x
    <2>3. \/ ctx'[w] = Spent([x EXCEPT !.card = c, !.entry = e], pc, Onward(x.op))
          \/ ctx'[w] = Spent([x EXCEPT !.entry = e], pc, Onward(x.op))
      BY <1>1, <2>1
    <2>4. CASE x.op # "join"
      <3> DEFINE out == Onward(x.op)
      <3>1. \A i \in DOMAIN out : out[i] # "loyalty_card_join"
        BY <2>2, <2>4, OtherOuts
      <3> HIDE DEF out
      <3>2. /\ NoJoin(Spent([x EXCEPT !.entry = e], pc, out))
            /\ NoJoin(Spent([x EXCEPT !.card = c, !.entry = e], pc, out))
        BY <1>1, <2>1, <3>1, SpentNoJoin
      <3>3. NoJoin(ctx'[w])
        <4> HIDE DEF Spent, NoJoin
        <4> QED BY <2>3, <3>2 DEF out
      <3> QED BY <3>3, NoJoinHolds
    <2>5. CASE x.op = "join"
      <3>1. Onward(x.op) = <<"loyalty_card_join">> /\ NewStatus(x.op) = JOIN_ASYNC_IN_PROGRESS
        BY <2>5 DEF Onward, NewStatus
      <3>2. /\ ctx'[w].pc = pc /\ ctx'[w].entry = e /\ ctx'[w].out = <<"loyalty_card_join">>
        BY <1>1, <2>3, <3>1 DEF Spent, Request
      <3>3. Waiting(e)'
        BY <1>1, <2>1, <3>1 DEF Waiting, InsertEntry
      <3>4. ~JoinQueued(e)'
        BY <2>1, FreshNotQueued DEF JoinQueued
      <3> QED BY <2>1, <3>2, <3>3, <3>4 DEF JoinHolds
    <2> QED BY <2>4, <2>5
  <1>4. Fail(w) \/ \E c, e, pc :
               /\ e \in EntryIds /\ entries[e].state = "unused" /\ InsertEntry(e, c, x)
               /\ pc \in {"touch", "refresh"}
               /\ \/ Goto(w, Spent([x EXCEPT !.card = c, !.entry = e], pc, Onward(x.op)))
                  \/ Goto(w, Spent([x EXCEPT !.entry = e], pc, Onward(x.op)))
               /\ UNCHANGED bus
    <2>1. CASE CreateCard(w)
      BY <2>1 DEF CreateCard, FreshEntry
    <2>2. CASE LinkCard(w) /\ ~Fail(w)
      <3>1. PICK e \in EntryIds :
               /\ FreshEntry(e)
               /\ InsertEntry(e, ctx[w].card, ctx[w])
               /\ Goto(w, Spent([ctx[w] EXCEPT !.entry = e],
                                IF IsTrusted(ctx[w]) THEN "touch" ELSE "refresh",
                                Onward(ctx[w].op)))
               /\ UNCHANGED bus
        BY <2>2 DEF LinkCard
      <3> DEFINE pc == IF IsTrusted(ctx[w]) THEN "touch" ELSE "refresh"
      <3>2. pc \in {"touch", "refresh"}
        OBVIOUS
      <3>3. Goto(w, Spent([ctx[w] EXCEPT !.entry = e], pc, Onward(ctx[w].op)))
        BY <3>1
      <3> HIDE DEF pc
      <3> QED BY <3>1, <3>2, <3>3 DEF FreshEntry
    <2> QED BY <2>1, <2>2
  <1> QED BY <1>2, <1>3, <1>4

(***************************************************************************)
(* A link sent to join again waits for the message about to be sent.       *)
(***************************************************************************)
LEMMA RejoinJoin ==
  ASSUME IndInv, JoinsHold, NEW w \in Workers, Rejoin(w)
  PROVE  JoinHolds(ctx[w])'
  <1> DEFINE x == ctx[w]
  <1>1. /\ x \in Request /\ ctx \in [Workers -> Request]
        /\ entries \in [EntryIds -> EntryRow] /\ x.entry \in EntryIds
        /\ x.pc = "rejoin" /\ JoinHolds(x)
    BY Holding, IndInvTables DEF IndInv, TypeOK, Rejoin, TablesOK, Shaped, JoinsHold
  <1>2. /\ ctx'[w] = Spent(x, "refresh", <<"loyalty_card_join">>)
        /\ entries' = [entries EXCEPT ![x.entry].status =
             IF entries[x.entry].state = "live" THEN JOIN_ASYNC_IN_PROGRESS ELSE @]
        /\ UNCHANGED <<cards, bus>>
    BY <1>1 DEF Rejoin, Goto
  <1> HIDE DEF x
  <1>3. /\ ctx'[w].pc = "refresh" /\ ctx'[w].entry = x.entry /\ ctx'[w].card = x.card
        /\ ctx'[w].out = <<"loyalty_card_join">>
    BY <1>1, <1>2 DEF Spent, Request
  <1>4. ASSUME NEW e, e = x.entry, NEW c, c = x.card PROVE JoinHolds(ctx[w])'
    <2>1. e \in EntryIds /\ entries[e] \in EntryRow
          /\ entries' = [entries EXCEPT ![e].status =
               IF entries[e].state = "live" THEN JOIN_ASYNC_IN_PROGRESS ELSE @]
      BY <1>1, <1>2, <1>4
    <2>2. entries'[e] = [entries[e] EXCEPT !.status =
               IF entries[e].state = "live" THEN JOIN_ASYNC_IN_PROGRESS ELSE entries[e].status]
      BY <1>1, <2>1
    <2>3. Waiting(e)'
      BY <2>1, <2>2 DEF Waiting, EntryRow
    <2>4. Keyless(c) => ~JoinQueued(e)
      BY <1>1, <1>4 DEF JoinHolds
    <2>5. Keyless(c)' => ~JoinQueued(e)'
      BY <1>2, <2>4 DEF Keyless, JoinQueued
    <2>6. /\ ctx'[w].pc = "refresh" /\ ctx'[w].entry = e /\ ctx'[w].card = c
          /\ ctx'[w].out = <<"loyalty_card_join">>
      BY <1>3, <1>4
    <2> QED BY <2>3, <2>5, <2>6 DEF JoinHolds
  <1> QED BY <1>4

(***************************************************************************)
(* On the way to its message a request loses nothing it knows of its join. *)
(***************************************************************************)
LEMMA OnwardJoin ==
  ASSUME IndInv, JoinsHold, [Next]_vars, NEW w \in Workers, TouchCard(w) \/ (Refresh(w) /\ ~Fail(w))
  PROVE  JoinHolds(ctx[w])'
  <1> DEFINE x == ctx[w]
  <1>1. /\ x \in Request /\ ctx \in [Workers -> Request] /\ JoinHolds(x)
        /\ x.card \in CardIds /\ cards[x.card].state # "unused"
        /\ UNCHANGED <<entries, bus>>
    <2>1. x.pc \in {"touch", "refresh"}
      BY DEF TouchCard, Refresh
    <2>2. /\ x \in Request /\ ctx \in [Workers -> Request] /\ JoinHolds(x)
          /\ HoldsLink(x, entries) /\ x.card \in CardIds /\ TablesOK
      BY <2>1, Holding DEF IndInv, TypeOK, JoinsHold
    <2>3. cards[x.card].state # "unused"
      BY <2>2 DEF HoldsLink, TablesOK, Anchored
    <2> QED BY <2>2, <2>3, RefreshMoves DEF TouchCard
  <1>2. Keyless(x.card) <=> cards'[x.card].key = None
    <2>1. ASSUME NEW c, c = x.card PROVE Keyless(c) <=> cards'[c].key = None
      BY <1>1, <2>1, KeyKept DEF Keyless
    <2> QED BY <2>1
  <1>3. \E pc \in {"refresh", "publish"} : ctx'[w] = [x EXCEPT !.pc = pc]
    BY <1>1 DEF TouchCard, Refresh, Goto
  <1> HIDE DEF x
  <1>4. /\ ctx'[w].pc \in {"refresh", "publish"} /\ ctx'[w].out = x.out
        /\ ctx'[w].card = x.card /\ ctx'[w].entry = x.entry
    BY <1>1, <1>3 DEF Request
  <1>5. JoinQueued(x.entry) <=> \E m \in BagToSet(bus)' : m.path = "loyalty_card_join" /\ m.entry = x.entry
    BY <1>1 DEF JoinQueued
  <1>6. \A i \in DOMAIN x.out : x.out[i] = "loyalty_card_join" =>
          /\ x.out = <<"loyalty_card_join">>
          /\ Keyless(x.card) => ~JoinQueued(x.entry) /\ Waiting(x.entry)
    BY <1>1 DEF JoinHolds
  <1> QED BY <1>1, <1>2, <1>4, <1>5, <1>6 DEF JoinHolds, Keyless, JoinQueued, Waiting

(***************************************************************************)
(* The other steps leave the request with no join to send.                 *)
(***************************************************************************)
LEMMA EndJoin ==
  ASSUME IndInv, JoinsHold, NEW w \in Workers,
         \/ UpdateLink(w) \/ Remove(w) \/ Fail(w)
         \/ Publish(w) \/ Abort(w) \/ Crash(w)
  PROVE  JoinHolds(ctx[w])'
  <1> DEFINE x == ctx[w]
  <1>1. /\ x \in Request /\ ctx \in [Workers -> Request] /\ JoinHolds(x)
        /\ \A y : Goto(w, y) => ctx'[w] = y
        /\ Sound(x, cards, entries)
    BY Current DEF IndInv, TypeOK, JoinsHold, Goto
  <1>2. ASSUME NEW y, Goto(w, y), NoJoin(y) PROVE JoinHolds(ctx[w])'
    BY <1>1, <1>2, NoJoinHolds
  <1>3. CASE Fail(w) \/ Finish(w)
    BY <1>2, <1>3, EndedNoJoin DEF Fail, Finish
  <1>4. CASE UpdateLink(w)
    <2>1. Fail(w) \/ Finish(w) \/ Goto(w, Spent(x, "refresh", <<"loyalty_card_trusted_add">>))
      BY <1>4 DEF UpdateLink, Unchanged, Finish
    <2>2. CASE Goto(w, Spent(x, "refresh", <<"loyalty_card_trusted_add">>))
      <3> DEFINE out == <<"loyalty_card_trusted_add">>
      <3>1. \A i \in DOMAIN out : out[i] # "loyalty_card_join"
        BY OtherOuts
      <3>2. Goto(w, Spent(x, "refresh", out))
        BY <2>2
      <3> HIDE DEF out, x
      <3>3. NoJoin(Spent(x, "refresh", out))
        BY <1>1, <3>1, SpentNoJoin
      <3> QED BY <1>2, <3>2, <3>3
    <2> QED BY <1>3, <2>1, <2>2
  <1>5. CASE Publish(w)
    <2>1. /\ x.pc \in {"publish", "failed"} /\ x.out # <<>>
          /\ \/ Finish(w) /\ Len(x.out) = 1
             \/ Len(x.out) # 1 /\ Goto(w, [x EXCEPT !.out = Tail(x.out)])
      BY <1>1, <1>5 DEF Publish, Finish, Sound, HasOut
    <2>2. CASE Len(x.out) # 1 /\ Goto(w, [x EXCEPT !.out = Tail(x.out)])
      <3> DEFINE out == x.out
                 y == [x EXCEPT !.out = Tail(out)]
      <3>1. out \in Seq(Paths) /\ out # <<>> /\ Len(out) # 1
        BY <1>1, <2>1, <2>2 DEF Request
      <3>2. \A i \in DOMAIN out : out[i] = "loyalty_card_join" => out = <<"loyalty_card_join">>
        BY <1>1 DEF JoinHolds
      <3>3. Goto(w, y) /\ y.pc = x.pc /\ y.out = Tail(out)
        <4> HIDE DEF x
        <4> QED BY <1>1, <2>2 DEF Request
      <3> HIDE DEF out, x, y
      <3>4. out # <<"loyalty_card_join">>
        <4>1. Len(<<"loyalty_card_join">>) = 1
          OBVIOUS
        <4> QED BY <3>1, <4>1
      <3>5. ASSUME NEW i \in DOMAIN Tail(out) PROVE Tail(out)[i] # "loyalty_card_join"
        <4>1. i + 1 \in DOMAIN out /\ Tail(out)[i] = out[i + 1]
          BY <3>1
        <4> QED BY <3>2, <3>4, <4>1
      <3>6. NoJoin(y)
        BY <2>1, <3>3, <3>5 DEF NoJoin
      <3> QED BY <1>2, <3>3, <3>6
    <2> QED BY <1>3, <2>1, <2>2
  <1> QED BY <1>3, <1>4, <1>5 DEF Remove, Abort, Crash

(***************************************************************************)
(* Hermes leaves what a request knows of its join as it is: it moves the   *)
(* status of a link that waits only with its message.                      *)
(***************************************************************************)
LEMMA HermesJoin ==
  ASSUME IndInv, JoinsHold, [Next]_vars, Hermes \/ UNCHANGED vars, NEW w \in Workers
  PROVE  JoinHolds(ctx[w])'
  <1> DEFINE x == ctx[w]
  <1>1. /\ x \in Request /\ JoinHolds(x) /\ Sound(x, cards, entries)
        /\ ctx' = ctx /\ BagToSet(bus)' \subseteq BagToSet(bus)
    BY Current, HermesPreserves DEF JoinsHold, vars
  <1> SUFFICES ASSUME NEW e, e = x.entry, NEW c, c = x.card PROVE JoinHolds(ctx[w])'
    OBVIOUS
  <1>2. JoinQueued(e)' => JoinQueued(e)
    BY <1>1 DEF JoinQueued
  <1>3. ASSUME x.pc \in {"touch", "update", "rejoin", "remove", "refresh", "publish"}
        PROVE  /\ c \in CardIds /\ cards[c].state # "unused"
               /\ e \in EntryIds /\ entries[e].state # "unused" /\ entries[e].card = c
               /\ Keyless(c)' <=> Keyless(c)
    <2>1. c \in CardIds /\ e \in EntryIds /\ HoldsLink(x, entries) /\ TablesOK
      BY <1>3, Holding
    <2>2. entries[e].state # "unused" /\ entries[e].card = c /\ cards[c].state # "unused"
      BY <2>1 DEF HoldsLink, TablesOK, Anchored
    <2> QED BY <2>1, <2>2, KeyKept
  <1>4. ASSUME NEW i \in DOMAIN x.out, x.out[i] = "loyalty_card_join", Keyless(c)'
        PROVE  ~JoinQueued(e)' /\ Waiting(e)'
    <2>1. x.out = <<"loyalty_card_join">> /\ x.out # <<>>
      BY <1>1, <1>4 DEF JoinHolds
    <2>2. x.pc \in {"touch", "refresh", "publish"}
      <3>1. <<"loyalty_card_join">> # <<"add_trusted_failed">>
        <4>1. <<"loyalty_card_join">>[1] # <<"add_trusted_failed">>[1]
          OBVIOUS
        <4> QED BY <4>1
      <3> QED BY <1>1, <2>1, <3>1 DEF Sound, HasOut
    <2>3. Keyless(c) /\ ~JoinQueued(e) /\ Waiting(e)
      BY <1>1, <1>3, <1>4, <2>2 DEF JoinHolds
    <2>4. \A m : HermesHandles(m) /\ m.path = "loyalty_card_join" => m.entry # e
      BY <2>3 DEF HermesHandles, JoinQueued
    <2>5. Waiting(e)'
      BY <1>3, <2>2, <2>3, <2>4, WaitingKept
    <2> QED BY <1>2, <2>3, <2>5
  <1>5. x.pc = "update" => ~Keyless(c)'
    BY <1>1, <1>3 DEF JoinHolds
  <1>6. x.pc = "rejoin" /\ Keyless(c)' => ~JoinQueued(e)'
    BY <1>1, <1>2, <1>3 DEF JoinHolds
  <1>7. /\ IsTrusted(x) /\ x.pc \in {"fetch", "mid", "lookup"} => x.key # None
        /\ \A i \in DOMAIN x.out : x.out[i] = "loyalty_card_join" => x.out = <<"loyalty_card_join">>
    BY <1>1 DEF JoinHolds
  <1>8. ctx'[w] = x
    BY <1>1
  <1> HIDE DEF x
  <1> QED BY <1>4, <1>5, <1>6, <1>7, <1>8 DEF JoinHolds

(***************************************************************************)
(* While requests are served one after another, what they know of a join   *)
(* stays so.                                                               *)
(***************************************************************************)
LEMMA JoinStep ==
  ASSUME IndInv, MessageIntegrity, OneWorker, JoinsQueued, JoinsHold, [Next]_vars
  PROVE  JoinsHold'
  <1>1. ASSUME NEW w \in Workers, WorkerStep(w) PROVE JoinsHold'
    <2>1. CASE Receive(w)
      <3>1. JoinHolds(ctx[w])'
        BY <2>1, ReceiveJoin, NoJoinHolds
      <3> QED BY <3>1 DEF OneWorker, JoinsHold
    <2>2. CASE ~Receive(w)
      <3>1. JoinHolds(ctx[w])'
        BY <1>1, <2>2, FetchJoin, SearchJoin, NewLinkJoin, RejoinJoin, OnwardJoin, EndJoin
           DEF WorkerStep
      <3> QED BY <3>1 DEF OneWorker, JoinsHold
    <2> QED BY <2>1, <2>2
  <1>2. CASE Hermes \/ UNCHANGED vars
    BY <1>2, HermesJoin DEF JoinsHold
  <1> QED BY <1>1, <1>2, OneWorkerSteps

(***************************************************************************)
(* One request after another, Hermes never has two join messages of a link *)
(* whose card has no key credential: a link is sent to join again only     *)
(* after Hermes has taken the message of the join that failed.             *)
(***************************************************************************)
THEOREM JoinsOneByOne == OneWorker /\ Spec => []OneJoinInFlight
  <1>1. OneWorker => OneWorker'
    BY DEF OneWorker
  <1>2. Init => JoinsQueued /\ JoinsHold
    <2>1. Init => BagToSet(bus) = {}
      BY DEF Init, EmptyBag, IsABag, BagToSet, SetToBag
    <2>2. JoinHolds(Idle)
      BY DEF JoinHolds, Idle, IsTrusted
    <2> QED BY <2>1, <2>2 DEF Init, JoinsQueued, JoinsHold
  <1>3. IndInv /\ MessageIntegrity /\ OneWorker /\ JoinsQueued /\ JoinsHold /\ [Next]_vars
          => JoinsQueued' /\ JoinsHold'
    BY QueuedStep, JoinStep
  <1>4. JoinsQueued => OneJoinInFlight
    BY DEF JoinsQueued, OneJoinInFlight, Keyless
  <1> QED BY <1>1, <1>2, <1>3, <1>4, Inductive, Integrity, PTL DEF Spec

=============================================================================
