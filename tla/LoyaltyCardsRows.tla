--------------------------- MODULE LoyaltyCardsRows ---------------------------
(***************************************************************************)
(* Proofs of the invariants of LoyaltyCards that relate the two tables to  *)
(* each other and to the journeys under way.                               *)
(***************************************************************************)
EXTENDS LoyaltyCardsPromise

(***************************************************************************)
(* A live link to a card stays one, unless its row is removed.             *)
(***************************************************************************)
LEMMA LinkedStable ==
  ASSUME NEW c, Linked(c), \A e \in EntryIds : entries[e].card = c => SameRow(e)
  PROVE  Linked(c)'
  BY DEF Linked, SameRow

(***************************************************************************)
(* No live card is left without a link: a card is made with its first      *)
(* link, marked deleted with its link by delete_join, and by Hermes when   *)
(* the last link goes.                                                     *)
(***************************************************************************)
LEMMA OrphanStep ==
  ASSUME IndInv, NoOrphanCards, [Next]_vars
  PROVE  NoOrphanCards'
  <1>1. /\ entries \in [EntryIds -> EntryRow] /\ cards \in [CardIds -> CardRow] /\ TablesOK
        /\ ctx \in [Workers -> Request]
    BY IndInvTables DEF TablesOK, Shaped, IndInv, TypeOK
  <1>2. ASSUME \A e \in EntryIds : SameRow(e),
               \A c \in CardIds : cards'[c].state = "live" => cards[c].state = "live"
        PROVE  NoOrphanCards'
    BY <1>2, LinkedStable DEF NoOrphanCards
  <1>3. ASSUME NEW w \in Workers, CreateCard(w) PROVE NoOrphanCards'
    <2>1. PICK c \in CardIds, e \in EntryIds :
            /\ FreshEntry(e) /\ InsertEntry(e, c, ctx[w])
            /\ \E k, m, d : cards' = [cards EXCEPT ![c] =
                 [state |-> "live", key |-> k, mid |-> m, dated |-> d]]
      BY <1>3 DEF CreateCard
    <2>2. entries'[e].state = "live" /\ entries'[e].card = c
      BY <1>1, <2>1 DEF InsertEntry
    <2>3. \A d \in EntryIds \ {e} : SameRow(d)
      BY <1>1, <2>1 DEF InsertEntry, SameRow
    <2>4. \A d \in CardIds \ {c} : cards'[d] = cards[d]
      BY <1>1, <2>1
    <2>5. Linked(c)'
      BY <2>2 DEF Linked
    <2>6. ASSUME NEW d \in CardIds, d # c, cards'[d].state = "live" PROVE Linked(d)'
      BY <2>1, <2>3, <2>4, <2>6 DEF NoOrphanCards, Linked, SameRow, FreshEntry
    <2> QED BY <2>5, <2>6 DEF NoOrphanCards
  <1>4. ASSUME NEW w \in Workers, LinkCard(w) PROVE NoOrphanCards'
    <2>1. CASE UNCHANGED entries
      BY <1>2, <1>4, <2>1 DEF LinkCard, SameRow
    <2>2. CASE entries' # entries
      <3>1. PICK e \in EntryIds : FreshEntry(e) /\ InsertEntry(e, ctx[w].card, ctx[w])
        BY <1>4, <2>2 DEF LinkCard
      <3>2. \A d \in EntryIds : entries[d].state = "live" => entries'[d] = entries[d]
        BY <1>1, <3>1 DEF InsertEntry, FreshEntry
      <3> QED BY <1>4, <3>2 DEF LinkCard, NoOrphanCards, Linked
    <2> QED BY <2>1, <2>2
  <1>5. ASSUME NEW w \in Workers, TouchCard(w) PROVE NoOrphanCards'
    <2>1. \A e \in EntryIds : SameRow(e)
      BY <1>5 DEF TouchCard, SameRow
    <2>2. \A c \in CardIds : cards'[c].state = cards[c].state
      BY <1>1, <1>5 DEF TouchCard, CardRow
    <2> QED BY <1>2, <2>1, <2>2
  <1>6. ASSUME NEW w \in Workers, UpdateLink(w) \/ Rejoin(w) PROVE NoOrphanCards'
    <2>1. \A e \in EntryIds : SameRow(e)
      <3>1. \/ UNCHANGED entries
            \/ \E s : entries' = [entries EXCEPT ![ctx[w].entry].status = s]
        BY <1>6 DEF UpdateLink, Rejoin, tables
      <3>2. ASSUME NEW s, NEW f, entries' = [entries EXCEPT ![f].status = s], NEW e \in EntryIds
            PROVE  SameRow(e)
        <4>1. entries[e] \in EntryRow
          BY <1>1
        <4>2. entries'[e] = entries[e] \/ entries'[e] = [entries[e] EXCEPT !.status = s]
          BY <1>1, <3>2
        <4> QED BY <4>1, <4>2 DEF SameRow, EntryRow
      <3> QED BY <3>1, <3>2 DEF SameRow
    <2>2. \A c \in CardIds : cards'[c].state = cards[c].state
      <3>1. \/ UNCHANGED cards
            \/ \E b : cards' = [cards EXCEPT ![ctx[w].card].dated = b]
        BY <1>6 DEF UpdateLink, Rejoin, tables
      <3>2. ASSUME NEW b, NEW f, cards' = [cards EXCEPT ![f].dated = b], NEW c \in CardIds
            PROVE  cards'[c].state = cards[c].state
        <4>1. cards[c] \in CardRow
          BY <1>1
        <4>2. cards'[c] = cards[c] \/ cards'[c] = [cards[c] EXCEPT !.dated = b]
          BY <1>1, <3>2
        <4> QED BY <4>1, <4>2 DEF CardRow
      <3> QED BY <3>1, <3>2
    <2> QED BY <1>2, <2>1, <2>2
  <1>7. ASSUME NEW w \in Workers, Remove(w) PROVE NoOrphanCards'
    <2> DEFINE e == ctx[w].entry
               c == ctx[w].card
    <2>1. /\ e \in EntryIds /\ c \in CardIds /\ entries[e].card = c
          /\ entries' = [entries EXCEPT ![e].state = "gone"]
          /\ cards' = [cards EXCEPT ![c].state = "deleted"]
      BY <1>7, Holding DEF Remove, HoldsLink
    <2> HIDE DEF e, c
    <2>2. /\ cards'[c].state = "deleted"
          /\ \A d \in CardIds \ {c} : cards'[d] = cards[d]
          /\ \A d \in EntryIds \ {e} : entries'[d] = entries[d]
      BY <1>1, <2>1 DEF CardRow
    <2>3. ASSUME NEW d \in CardIds, cards'[d].state = "live" PROVE Linked(d)'
      <3>1. d # c /\ Linked(d)
        BY <2>2, <2>3 DEF NoOrphanCards
      <3> QED BY <2>1, <2>2, <3>1 DEF Linked
    <2> QED BY <2>3 DEF NoOrphanCards
  <1>8. ASSUME NEW w \in Workers,
               \/ Receive(w) \/ Fetch(w) \/ CheckMid(w) \/ Route(w)
               \/ Refresh(w) \/ Publish(w) \/ Abort(w) \/ Crash(w)
        PROVE  NoOrphanCards'
    <2>1. UNCHANGED <<cards, entries>>
      BY <1>8, FetchMoves, CheckMidMoves, RouteMoves, RefreshMoves, PublishMoves
         DEF Receive, Abort, Crash, tables
    <2> QED BY <2>1 DEF NoOrphanCards, Linked
  <1>9. ASSUME NEW c, NEW u, HermesRemovesLink(c, u) PROVE NoOrphanCards'
    <2> DEFINE own == {e \in EntryIds : /\ entries[e].state = "live"
                                        /\ entries[e].card = c /\ entries[e].user = u}
               others == {e \in EntryIds \ own : entries[e].state = "live" /\ entries[e].card = c}
    <2>1. /\ entries' = [e \in EntryIds |->
                           IF e \in own THEN [entries[e] EXCEPT !.state = "gone"] ELSE entries[e]]
          /\ cards' = IF others = {} THEN [cards EXCEPT ![c].state = "deleted"] ELSE cards
      BY <1>9 DEF HermesRemovesLink
    <2>2. /\ \A e \in own : entries[e].card = c
          /\ \A e \in others : e \in EntryIds \ own /\ entries[e].state = "live" /\ entries[e].card = c
      OBVIOUS
    <2>3. \A e \in EntryIds \ own : entries'[e] = entries[e]
      BY <2>1
    <2>4. ASSUME NEW d \in CardIds, cards'[d].state = "live" PROVE Linked(d)'
      <3>1. CASE d = c
        <4>1. others # {}
          <5> HIDE DEF own, others
          <5> QED BY <1>1, <2>1, <2>4, <3>1 DEF CardRow
        <4>2. PICK e \in others : TRUE
          BY <4>1
        <4> HIDE DEF own, others
        <4> QED BY <2>2, <2>3, <3>1, <4>2 DEF Linked
      <3>2. CASE d # c
        <4> HIDE DEF own, others
        <4>1. cards[d].state = "live"
          BY <1>1, <2>1, <2>4, <3>2
        <4>2. PICK e \in EntryIds : entries[e].state = "live" /\ entries[e].card = d
          BY <4>1 DEF NoOrphanCards, Linked
        <4>3. e \notin own
          BY <2>2, <3>2, <4>2
        <4> QED BY <2>3, <4>2, <4>3 DEF Linked
      <3> QED BY <3>1, <3>2
    <2> QED BY <2>4 DEF NoOrphanCards
  <1>10. CASE Hermes
    <2>1. CASE UNCHANGED <<cards, entries>>
      BY <2>1 DEF NoOrphanCards, Linked
    <2>2. ASSUME NEW f, NEW s, UNCHANGED cards, entries' = [entries EXCEPT ![f].status = s]
          PROVE  NoOrphanCards'
      <3>1. ASSUME NEW e \in EntryIds PROVE SameRow(e)
        <4>1. entries[e] \in EntryRow
          BY <1>1
        <4>2. entries'[e] = entries[e] \/ entries'[e] = [entries[e] EXCEPT !.status = s]
          BY <1>1, <2>2
        <4> QED BY <4>1, <4>2 DEF SameRow, EntryRow
      <3> QED BY <1>2, <2>2, <3>1
    <2>3. \/ UNCHANGED <<cards, entries>>
          \/ \E c, u : HermesRemovesLink(c, u)
          \/ UNCHANGED cards /\ \E f, s : entries' = [entries EXCEPT ![f].status = s]
      BY <1>10 DEF Hermes, HermesHandles, HermesUpdates, tables
    <2> QED BY <1>9, <2>1, <2>2, <2>3
  <1>11. CASE UNCHANGED vars
    BY <1>11 DEF vars, NoOrphanCards, Linked
  <1> QED BY <1>3, <1>4, <1>5, <1>6, <1>7, <1>8, <1>10, <1>11, OneWorkerSteps DEF WorkerStep

(***************************************************************************)
(* No live card is ever without a live link, whatever the requests and     *)
(* Hermes remove at the same time.                                         *)
(***************************************************************************)
THEOREM NoneOrphaned == Spec => []NoOrphanCards
  <1>1. Init => NoOrphanCards
    BY TablesAssumption DEF Init, NoOrphanCards, Linked
  <1>2. IndInv /\ NoOrphanCards /\ [Next]_vars => NoOrphanCards'
    BY OrphanStep
  <1> QED BY <1>1, <1>2, Inductive, PTL DEF Spec

-----------------------------------------------------------------------------
(* The link date of trusted cards *)

(***************************************************************************)
(* The strengthening: a trusted add is past the point where it dates its   *)
(* card, knows that it has to, or found the card dated already.            *)
(***************************************************************************)
DatedOrTodo(x, cs) ==
    x.op = "trusted_add" =>
      /\ x.pc \in {"refresh", "publish"} => cs[x.card].dated
      /\ x.pc = "update" => "date" \in x.todo \/ cs[x.card].dated
      /\ x.pc # "rejoin"

Dating == \A w \in Workers : DatedOrTodo(ctx[w], cards)

(***************************************************************************)
(* A card that is dated stays dated.                                       *)
(***************************************************************************)
LEMMA DatedStays ==
  ASSUME IndInv, [Next]_vars, NEW c \in CardIds, cards[c].state # "unused", cards[c].dated
  PROVE  cards'[c].dated
  <1>1. cards \in [CardIds -> CardRow] /\ cards[c] \in CardRow
    BY IndInvTables DEF TablesOK, Shaped
  <1>2. ASSUME NEW w \in Workers, CreateCard(w) PROVE cards'[c].dated
    <2>1. PICK d \in CardIds :
            FreshCard(d) /\ \E r : cards' = [cards EXCEPT ![d] = r]
      BY <1>2 DEF CreateCard
    <2> QED BY <1>1, <2>1 DEF FreshCard
  <1>3. ASSUME NEW f, cards' = [cards EXCEPT ![f].state = "deleted"] PROVE cards'[c].dated
    <2>1. cards'[c] = cards[c] \/ cards'[c] = [cards[c] EXCEPT !.state = "deleted"]
      BY <1>1, <1>3
    <2> QED BY <1>1, <2>1 DEF CardRow
  <1>4. ASSUME NEW f, cards' = [cards EXCEPT ![f].dated = TRUE] PROVE cards'[c].dated
    BY <1>1, <1>4 DEF CardRow
  <1>5. ASSUME NEW w \in Workers, UpdateLink(w) PROVE cards'[c].dated
    <2>1. CASE UNCHANGED cards
      BY <2>1
    <2>2. ASSUME NEW f, NEW b, cards' = [cards EXCEPT ![f].dated = @ \/ b] PROVE cards'[c].dated
      <3>1. cards'[c] = cards[c] \/ cards'[c] = [cards[c] EXCEPT !.dated = cards[c].dated \/ b]
        BY <1>1, <2>2
      <3>2. cards[c].dated \/ b
        OBVIOUS
      <3>3. cards'[c] = [cards[c] EXCEPT !.dated = cards[c].dated \/ b] => cards'[c].dated
        BY <1>1, <3>2 DEF CardRow
      <3> QED BY <3>1, <3>3
    <2> QED BY <1>5, <2>1, <2>2 DEF UpdateLink, tables
  <1>6. ASSUME NEW w \in Workers,
               \/ Receive(w) \/ Fetch(w) \/ CheckMid(w) \/ Route(w) \/ LinkCard(w) \/ Rejoin(w)
               \/ Refresh(w) \/ Publish(w) \/ Abort(w) \/ Crash(w)
        PROVE  UNCHANGED cards
    BY <1>6, FetchMoves, CheckMidMoves, RouteMoves, RefreshMoves, PublishMoves
       DEF Receive, LinkCard, Rejoin, Abort, Crash, tables
  <1>7. ASSUME NEW w \in Workers, WorkerStep(w) PROVE cards'[c].dated
    <2>1. CASE TouchCard(w)
      BY <1>4, <2>1 DEF TouchCard
    <2>2. CASE Remove(w)
      BY <1>3, <2>2 DEF Remove
    <2> QED BY <1>2, <1>5, <1>6, <1>7, <2>1, <2>2 DEF WorkerStep
  <1>8. CASE Hermes
    <2>1. UNCHANGED cards \/ \E f : cards' = [cards EXCEPT ![f].state = "deleted"]
      BY <1>8 DEF Hermes, HermesHandles, HermesUpdates, HermesRemovesLink, tables
    <2> QED BY <1>3, <2>1
  <1> QED BY <1>7, <1>8, OneWorkerSteps DEF vars

(***************************************************************************)
(* What the step of a trusted add makes of its own request.                *)
(***************************************************************************)
LEMMA DatingOwnStep ==
  ASSUME IndInv, NEW w \in Workers, WorkerStep(w), DatedOrTodo(ctx[w], cards)
  PROVE  DatedOrTodo(ctx'[w], cards')
  <1>1. /\ ctx \in [Workers -> Request] /\ ctx[w] \in Request
        /\ cards \in [CardIds -> CardRow] /\ Sound(ctx[w], cards, entries) /\ TablesOK
    BY Current, IndInvTables DEF TablesOK, Shaped, IndInv, TypeOK
  <1>2. ASSUME NEW x PROVE DatedOrTodo(Failing(x), cards') /\ DatedOrTodo(Idle, cards')
    <2>1. Failing(x).pc \in {"failed", "idle"} /\ Idle.pc = "idle"
      BY DEF Failing, Idle
    <2> QED BY <2>1 DEF DatedOrTodo
  <1>3. CASE Fail(w) \/ Finish(w)
    <2>1. ctx'[w] = Failing(ctx[w]) \/ ctx'[w] = Idle
      BY <1>1, <1>3 DEF Fail, Finish, Goto
    <2> QED BY <1>2, <2>1
  <1>4. CASE Receive(w)
    <2>1. PICK u, op, k, m, c : ctx'[w] = Started(op, u, k, m, c)
      BY <1>1, <1>4 DEF Receive, Goto
    <2>2. op = "trusted_add" => ctx'[w].pc = "mid"
      BY <2>1 DEF Started, FirstStep
    <2> QED BY <2>1, <2>2 DEF Started, DatedOrTodo
  <1>5. CASE Fetch(w)
    <2>1. ctx'[w] = Idle \/ ctx'[w].op # "trusted_add"
      <3>1. CASE NotFound(w)
        BY <1>1, <3>1 DEF NotFound, Finish, Goto
      <3>2. ASSUME NEW e \in EntryIds,
                   Authorise(w, e) \/ TrustedUpdate(w, e) \/ Register(w, e)
                     \/ PutJoin(w, e) \/ DeleteJoin(w, e) \/ Delete(w, e)
            PROVE  ctx'[w] = Idle \/ ctx'[w].op # "trusted_add"
        <4>1. ctx[w].op # "trusted_add"
          BY <3>2 DEF Authorise, TrustedUpdate, Register, PutJoin, DeleteJoin, Delete, Fetches
        <4>2. \/ Finish(w)
              \/ \E out : Goto(w, Spent([ctx[w] EXCEPT !.entry = e], "publish", out))
              \/ \E pc, old : Goto(w, [[ctx[w] EXCEPT !.entry = e] EXCEPT !.pc = pc, !.old = old])
              \/ \E pc, old : Goto(w, [ctx[w] EXCEPT !.pc = pc, !.entry = e, !.old = old])
              \/ \E pc : Goto(w, [ctx[w] EXCEPT !.entry = e, !.pc = pc])
          BY <3>2 DEF Authorise, TrustedUpdate, Register, PutJoin, DeleteJoin, Delete
        <4>3. CASE Finish(w)
          BY <1>1, <4>3 DEF Finish, Goto
        <4>4. CASE ~Finish(w)
          <5>1. ASSUME NEW y, Goto(w, y), y.op = ctx[w].op PROVE ctx'[w].op # "trusted_add"
            BY <1>1, <4>1, <5>1 DEF Goto
          <5>2. \A out : Spent([ctx[w] EXCEPT !.entry = e], "publish", out).op = ctx[w].op
            BY <1>1 DEF Spent, Request
          <5>3. \A pc, old :
                  /\ [[ctx[w] EXCEPT !.entry = e] EXCEPT !.pc = pc, !.old = old].op = ctx[w].op
                  /\ [ctx[w] EXCEPT !.pc = pc, !.entry = e, !.old = old].op = ctx[w].op
                  /\ [ctx[w] EXCEPT !.entry = e, !.pc = pc].op = ctx[w].op
            BY <1>1 DEF Request
          <5> QED BY <4>2, <4>4, <5>1, <5>2, <5>3
        <4> QED BY <4>3, <4>4
      <3> QED BY <1>5, <3>1, <3>2 DEF Fetch
    <2> QED BY <1>2, <2>1 DEF DatedOrTodo
  <1>6. CASE CheckMid(w)
    <2>1. CASE Goto(w, [ctx[w] EXCEPT !.pc = "lookup"])
      BY <1>1, <2>1 DEF Goto, Request, DatedOrTodo
    <2> QED BY <1>3, <1>6, <2>1 DEF CheckMid
  <1>7. CASE Route(w)
    <2>1. CASE NoCardRoute(w)
      BY <1>1, <2>1 DEF NoCardRoute, Goto, Request, DatedOrTodo
    <2>2. CASE ManyCardsRoute(w)
      BY <1>3, <2>2 DEF ManyCardsRoute
    <2>3. ASSUME NEW c \in CardIds, AddRoute(w, c) \/ AddAndAuthoriseRoute(w, c)
          PROVE  DatedOrTodo(ctx'[w], cards')
      <3>1. ctx[w].op # "trusted_add"
        BY <2>3 DEF AddRoute, AddAndAuthoriseRoute
      <3>2. \/ Fail(w) \/ Finish(w) \/ Goto(w, [ctx[w] EXCEPT !.pc = "link", !.card = c])
            \/ \E e, out : Goto(w, Spent([ctx[w] EXCEPT !.card = c, !.entry = e], "publish", out))
        BY <2>3 DEF AddRoute, AddAndAuthoriseRoute
      <3>3. CASE ~(Fail(w) \/ Finish(w))
        <4>1. ctx'[w].op = ctx[w].op
          <5>1. ASSUME NEW y, Goto(w, y), y.op = ctx[w].op PROVE ctx'[w].op = ctx[w].op
            BY <1>1, <5>1 DEF Goto
          <5>2. \A e, out : Spent([ctx[w] EXCEPT !.card = c, !.entry = e],
                                  "publish", out).op = ctx[w].op
            BY <1>1 DEF Spent, Request
          <5>3. [ctx[w] EXCEPT !.pc = "link", !.card = c].op = ctx[w].op
            BY <1>1 DEF Request
          <5>4. CASE Goto(w, [ctx[w] EXCEPT !.pc = "link", !.card = c])
            BY <5>1, <5>3, <5>4
          <5>5. ASSUME NEW e, NEW out,
                       Goto(w, Spent([ctx[w] EXCEPT !.card = c, !.entry = e], "publish", out))
                PROVE  ctx'[w].op = ctx[w].op
            <6> DEFINE y == Spent([ctx[w] EXCEPT !.card = c, !.entry = e], "publish", out)
            <6>1. Goto(w, y) /\ y.op = ctx[w].op
              BY <5>2, <5>5
            <6> HIDE DEF y
            <6> QED BY <5>1, <6>1
          <5> QED BY <3>2, <3>3, <5>4, <5>5
        <4> QED BY <3>1, <4>1 DEF DatedOrTodo
      <3> QED BY <1>3, <3>3
    <2>4. ASSUME NEW c \in CardIds, TrustedAddRoute(w, c)
          PROVE  DatedOrTodo(ctx'[w], cards')
      <3>1. UNCHANGED cards
        BY <2>4 DEF TrustedAddRoute, Reads, tables
      <3>2. CASE Goto(w, Failing([ctx[w] EXCEPT !.card = c]))
        <4>1. ctx'[w] = Failing([ctx[w] EXCEPT !.card = c])
          BY <1>1, <3>2 DEF Goto
        <4> QED BY <1>2, <4>1
      <3>3. CASE Goto(w, [ctx[w] EXCEPT !.pc = "link", !.card = c])
        BY <1>1, <3>3 DEF Goto, Request, DatedOrTodo
      <3>4. ASSUME NEW e \in Own(ctx[w]), NEW x,
                   x = [ctx[w] EXCEPT !.card = c, !.entry = e, !.todo = Todo(e, c)],
                   Goto(w, IF x.todo = {} THEN Unchanged(x, "publish")
                                          ELSE [x EXCEPT !.pc = "update"])
            PROVE  DatedOrTodo(ctx'[w], cards')
        <4>1. /\ x.card = c /\ x.todo = Todo(e, c) /\ x.op = ctx[w].op
              /\ "date" \in x.todo <=> ~cards[c].dated
          BY <1>1, <3>4 DEF Request, Todo
        <4>2. CASE x.todo = {}
          <5>1. ctx'[w] = Unchanged(x, "publish")
            BY <1>1, <3>4, <4>2 DEF Goto
          <5>2. ctx'[w] = Idle \/ (ctx'[w].pc = "publish" /\ ctx'[w].card = c)
            BY <1>1, <3>4, <4>1, <5>1 DEF Unchanged, Spent, Request
          <5> QED BY <1>2, <3>1, <4>1, <4>2, <5>2 DEF DatedOrTodo
        <4>3. CASE x.todo # {}
          <5>1. ctx'[w] = [x EXCEPT !.pc = "update"]
            BY <1>1, <3>4, <4>3 DEF Goto
          <5>2. ctx'[w].pc = "update" /\ ctx'[w].card = c /\ ctx'[w].todo = x.todo
            BY <1>1, <3>4, <4>1, <5>1 DEF Request
          <5> QED BY <3>1, <4>1, <5>2 DEF DatedOrTodo
        <4> QED BY <4>2, <4>3
      <3>5. \/ Goto(w, Failing([ctx[w] EXCEPT !.card = c]))
            \/ Goto(w, [ctx[w] EXCEPT !.pc = "link", !.card = c])
            \/ \E e \in Own(ctx[w]) :
                 LET x == [ctx[w] EXCEPT !.card = c, !.entry = e, !.todo = Todo(e, c)]
                 IN Goto(w, IF x.todo = {} THEN Unchanged(x, "publish")
                                           ELSE [x EXCEPT !.pc = "update"])
        BY <2>4 DEF TrustedAddRoute
      <3> QED BY <3>2, <3>3, <3>4, <3>5
    <2> QED BY <1>7, <2>1, <2>2, <2>3, <2>4 DEF Route
  <1>8. CASE CreateCard(w)
    <2>1. PICK c \in CardIds, e \in EntryIds :
            /\ cards' = [cards EXCEPT ![c] =
                 [state |-> "live", key |-> ctx[w].key, mid |-> ctx[w].mid,
                  dated |-> IsTrusted(ctx[w])]]
            /\ Goto(w, Spent([ctx[w] EXCEPT !.card = c, !.entry = e],
                             "refresh", Onward(ctx[w].op)))
      BY <1>8 DEF CreateCard
    <2>2. /\ ctx'[w].op = ctx[w].op /\ ctx'[w].card = c /\ ctx'[w].pc = "refresh"
      BY <1>1, <2>1 DEF Goto, Spent, Request
    <2>3. ctx[w].op = "trusted_add" => cards'[c].dated
      BY <1>1, <2>1 DEF IsTrusted
    <2> QED BY <2>2, <2>3 DEF DatedOrTodo
  <1>9. CASE LinkCard(w)
    <2>1. ASSUME NEW e,
                 Goto(w, Spent([ctx[w] EXCEPT !.entry = e],
                               IF IsTrusted(ctx[w]) THEN "touch" ELSE "refresh",
                               Onward(ctx[w].op)))
          PROVE  DatedOrTodo(ctx'[w], cards')
      <3>1. /\ ctx'[w].op = ctx[w].op
            /\ ctx'[w].pc = IF IsTrusted(ctx[w]) THEN "touch" ELSE "refresh"
        BY <1>1, <2>1 DEF Goto, Spent, Request
      <3> QED BY <3>1 DEF DatedOrTodo, IsTrusted
    <2> QED BY <1>3, <1>9, <2>1 DEF LinkCard
  <1>10. CASE TouchCard(w)
    <2>1. ctx[w].card \in CardIds /\ cards' = [cards EXCEPT ![ctx[w].card].dated = TRUE]
      BY <1>10, Holding DEF TouchCard
    <2>2. cards'[ctx[w].card].dated
      BY <1>1, <2>1 DEF CardRow
    <2>3. ctx'[w].pc = "refresh" /\ ctx'[w].card = ctx[w].card
      BY <1>1, <1>10 DEF TouchCard, Goto, Request
    <2> QED BY <2>2, <2>3 DEF DatedOrTodo
  <1>11. CASE UpdateLink(w) /\ ~Fail(w)
    <2> DEFINE c == ctx[w].card
    <2>1. c \in CardIds /\ ctx[w].pc = "update"
      BY <1>11, Holding DEF UpdateLink
    <2>2. /\ cards' = [cards EXCEPT ![c].dated = @ \/ "date" \in ctx[w].todo]
          /\ Goto(w, Unchanged(ctx[w], "refresh"))
      BY <1>11 DEF UpdateLink
    <2>3. cards'[c].dated = (cards[c].dated \/ "date" \in ctx[w].todo)
      <3> HIDE DEF c
      <3>1. cards[c] \in CardRow
        BY <1>1, <2>1
      <3>2. cards'[c] = [cards[c] EXCEPT !.dated = cards[c].dated \/ "date" \in ctx[w].todo]
        BY <1>1, <2>1, <2>2
      <3> QED BY <3>1, <3>2 DEF CardRow
    <2>4. \/ ctx'[w] = Idle
          \/ ctx[w].op = "trusted_add" /\ ctx'[w].pc = "refresh" /\ ctx'[w].card = c
      BY <1>1, <2>2 DEF Goto, Unchanged, Spent, Request
    <2>5. ctx[w].op = "trusted_add" => cards'[c].dated
      BY <2>1, <2>3 DEF DatedOrTodo
    <2> QED BY <1>2, <2>4, <2>5 DEF DatedOrTodo
  <1>12. CASE Rejoin(w)
    <2>1. ctx'[w].op = ctx[w].op
      BY <1>1, <1>12 DEF Rejoin, Goto, Spent, Request
    <2>2. ctx[w].op # "trusted_add"
      BY <1>12 DEF Rejoin, DatedOrTodo
    <2> QED BY <2>1, <2>2 DEF DatedOrTodo
  <1>13. CASE Refresh(w) /\ ~Fail(w)
    <2>1. /\ UNCHANGED cards /\ ctx[w].pc = "refresh"
          /\ ctx'[w] = [ctx[w] EXCEPT !.pc = "publish"]
      BY <1>1, <1>13 DEF Refresh, Goto, tables
    <2> QED BY <1>1, <2>1 DEF DatedOrTodo, Request
  <1>14. CASE Publish(w)
    <2>1. UNCHANGED cards
      BY <1>14 DEF Publish, tables
    <2>2. ctx'[w] = Idle \/ ctx'[w] = [ctx[w] EXCEPT !.out = Tail(@)]
      BY <1>1, <1>14 DEF Publish, Goto
    <2>3. ctx'[w] = [ctx[w] EXCEPT !.out = Tail(@)] =>
            /\ ctx'[w].op = ctx[w].op /\ ctx'[w].pc = ctx[w].pc /\ ctx'[w].card = ctx[w].card
            /\ ctx'[w].todo = ctx[w].todo
      BY <1>1 DEF Request
    <2> QED BY <1>2, <2>1, <2>2, <2>3 DEF DatedOrTodo
  <1>15. CASE Remove(w) \/ Abort(w) \/ Crash(w)
    BY <1>3, <1>15 DEF Remove, Abort, Crash
  <1> QED BY <1>3, <1>4, <1>5, <1>6, <1>7, <1>8, <1>9, <1>10, <1>11, <1>12, <1>13, <1>14, <1>15
          DEF WorkerStep

(***************************************************************************)
(* What a trusted add relies on holds whatever the other workers and       *)
(* Hermes do between its steps.                                            *)
(***************************************************************************)
LEMMA DatingStep ==
  ASSUME IndInv, Dating, [Next]_vars
  PROVE  Dating'
  <1>1. ASSUME NEW v \in Workers, ctx'[v] = ctx[v] PROVE DatedOrTodo(ctx'[v], cards')
    <2>1. DatedOrTodo(ctx[v], cards)
      BY DEF Dating
    <2>2. CASE ctx[v].pc \in {"refresh", "publish", "update"}
      <3>1. ctx[v].card \in CardIds /\ cards[ctx[v].card].state # "unused"
        BY <2>2, Holding DEF HoldsLink, TablesOK, Anchored
      <3>2. cards[ctx[v].card].dated => cards'[ctx[v].card].dated
        BY <3>1, DatedStays
      <3> QED BY <1>1, <2>1, <3>2 DEF DatedOrTodo
    <2>3. CASE ctx[v].pc \notin {"refresh", "publish", "update"}
      BY <1>1, <2>1, <2>3 DEF DatedOrTodo
    <2> QED BY <2>2, <2>3
  <1>2. ASSUME NEW w \in Workers, WorkerStep(w) PROVE DatedOrTodo(ctx'[w], cards')
    BY <1>2, DatingOwnStep DEF Dating
  <1>3. \/ \E w \in Workers : WorkerStep(w) /\ \A v \in Workers \ {w} : ctx'[v] = ctx[v]
        \/ UNCHANGED ctx
    BY OneWorkerSteps DEF vars
  <1> QED BY <1>1, <1>2, <1>3 DEF Dating

(***************************************************************************)
(* A trusted add that gets as far as its messages has dated its card,      *)
(* though the date is a transaction of its own.                            *)
(***************************************************************************)
THEOREM TrustedDated == Spec => []TrustedCardsDated
  <1>1. Init => Dating
    <2> SUFFICES ASSUME Init PROVE Dating
      OBVIOUS
    <2>1. \A w \in Workers : ctx[w] = Idle
      BY DEF Init
    <2> QED BY <2>1 DEF Dating, DatedOrTodo, Idle
  <1>2. IndInv /\ Dating /\ [Next]_vars => Dating'
    BY DatingStep
  <1>3. Dating => TrustedCardsDated
    BY DEF Dating, DatedOrTodo, TrustedCardsDated
  <1> QED BY <1>1, <1>2, <1>3, Inductive, PTL DEF Spec
=============================================================================
