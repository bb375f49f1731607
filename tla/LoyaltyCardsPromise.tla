------------------------- MODULE LoyaltyCardsPromise -------------------------
(***************************************************************************)
(* The proof that the loyalty card journeys implement WalletLinks: initial *)
(* states map to initial states, and every step of a worker, a fault or    *)
(* Hermes maps to a step of one link or to none.                           *)
(***************************************************************************)
EXTENDS LoyaltyCardsProofs

(***************************************************************************)
(* The strengthening: Hermes is told only of links that exist.             *)
(***************************************************************************)
ToldExist == \A e \in told : e \in EntryIds /\ entries[e].state # "unused"

PInv == IndInv /\ ToldExist

(***************************************************************************)
(* A published announcement was owed, and told is all that grows by it.    *)
(***************************************************************************)
LEMMA PublishOwes ==
  ASSUME IndInv, NEW w \in Workers, Publish(w)
  PROVE  \/ told' = told
         \/ /\ told' = told \cup {ctx[w].entry} /\ ctx[w].pc = "publish"
            /\ \E p \in Announcements : <<ctx[w].entry, p>> \in Owed(ctx[w])
  <1> DEFINE x == ctx[w]
  <1>1. x \in Request /\ Sound(x, cards, entries) /\ x.pc \in {"publish", "failed"}
    BY Current DEF Publish
  <1>2. x.out \in Seq(Paths) /\ x.out # <<>>
    BY <1>1 DEF Sound, HasOut, Request
  <1>3. told' = told \cup (IF Head(x.out) \in Announcements THEN {x.entry} ELSE {})
    BY DEF Publish
  <1>4. CASE Head(x.out) \in Announcements
    <2>1. <<x.entry, Head(x.out)>> \in Owed(x)
      <3> HIDE DEF x
      <3>1. 1 \in DOMAIN x.out /\ x.out[1] = Head(x.out)
        BY <1>2
      <3> QED BY <1>4, <3>1, OwedIff
    <2>2. x.pc = "publish"
      <3>1. x.pc = "failed" => Head(x.out) = "add_trusted_failed"
        <4>1. x.pc = "failed" => x.out = <<"add_trusted_failed">>
          BY <1>1 DEF Sound
        <4> HIDE DEF x
        <4> QED BY <4>1
      <3> QED BY <1>1, <1>4, <3>1 DEF Announcements
    <2> HIDE DEF x
    <2>3. told' = told \cup {x.entry}
      BY <1>3, <1>4
    <2> QED BY <1>4, <2>1, <2>2, <2>3 DEF x
  <1>5. CASE Head(x.out) \notin Announcements
    BY <1>3, <1>5
  <1> QED BY <1>4, <1>5

(***************************************************************************)
(* Only a publication adds to what was told.                               *)
(***************************************************************************)
LEMMA ToldStep ==
  ASSUME IndInv, [Next]_vars
  PROVE  \/ told' = told
         \/ \E w \in Workers :
              /\ Publish(w) /\ told' = told \cup {ctx[w].entry} /\ ctx[w].pc = "publish"
              /\ \E p \in Announcements : <<ctx[w].entry, p>> \in Owed(ctx[w])
  <1>1. ASSUME NEW w \in Workers, WorkerStep(w), ~Publish(w)
        PROVE  told' = told
    BY <1>1, FetchMoves, CheckMidMoves, RouteMoves, CreateMoves, LinkMoves, TouchMoves,
       UpdateMoves, RejoinMoves, RemoveMoves, RefreshMoves
       DEF WorkerStep, Receive, Abort, Crash, history
  <1> QED BY <1>1, PublishOwes, OneWorkerSteps DEF vars

(***************************************************************************)
(* What was told names links that exist.                                   *)
(***************************************************************************)
LEMMA ToldExistStep ==
  ASSUME PInv, [Next]_vars
  PROVE  PInv'
  <1>1. IndInv' /\ Grows(cards, entries, cards', entries')
    BY StepInd DEF PInv
  <1>2. ASSUME NEW w \in Workers, ctx[w].pc = "publish"
        PROVE  ctx[w].entry \in EntryIds /\ entries[ctx[w].entry].state # "unused"
    BY <1>2, Holding DEF PInv, HoldsLink
  <1>3. \A e \in told' : e \in EntryIds /\ entries[e].state # "unused"
    BY <1>2, ToldStep DEF PInv, ToldExist
  <1> QED BY <1>1, <1>3 DEF PInv, ToldExist, Grows

(***************************************************************************)
(* The strengthened invariant of the specification.                        *)
(***************************************************************************)
LEMMA PromiseInd == Spec => []PInv
  <1>1. Init => PInv
    <2> SUFFICES ASSUME Init PROVE PInv
      OBVIOUS
    <2>1. \E t \in InitialTables :
            entries = t.entries /\ told = {e \in EntryIds : t.entries[e].state # "unused"}
      BY DEF Init
    <2> QED BY <2>1, InitInd DEF PInv, ToldExist
  <1> QED BY <1>1, ToldExistStep, PTL DEF Spec

-----------------------------------------------------------------------------
(* What becomes of the word owed of a link *)

(***************************************************************************)
(* A link's word goes only the ways WalletLinks lets it.                   *)
(***************************************************************************)
LEMMA WordStep ==
  ASSUME PInv, [Next]_vars, NEW e \in EntryIds, entries[e].state # "unused"
  PROVE  /\ Word(e) \in {"told", "owed", "lost"}
         /\ Word(e)' \in {"told", "owed", "lost"}
         /\ Word(e) = "told" => Word(e)' = "told"
         /\ Word(e) = "lost" => Word(e)' \in {"lost", "owed"}
  <1>1. entries'[e].state # "unused"
    BY StepInd DEF PInv, Grows
  <1>2. e \in told => e \in told'
    BY ToldStep DEF PInv
  <1>3. e \notin told /\ e \in told' => \E p \in Announcements : Owing(e, p)
    BY ToldStep DEF PInv, Owing
  <1> QED BY <1>1, <1>2, <1>3 DEF Word

(***************************************************************************)
(* A link nobody made yet is not owed word of.                             *)
(***************************************************************************)
LEMMA NoneYet ==
  ASSUME PInv, NEW e \in EntryIds
  PROVE  /\ entries[e].state = "unused" <=> Word(e) = "none"
         /\ entries[e].state = "unused" => e \notin told
  BY DEF Word, PInv, ToldExist

(***************************************************************************)
(* An idle or failing request owes no announcement.                        *)
(***************************************************************************)
LEMMA FailingOwes ==
  ASSUME NEW x
  PROVE  Owed(Idle) = {} /\ Owed(Failing(x)) = {}
  <1>1. Owed(Idle) = {}
    <2>1. Idle.out = <<>>
      BY DEF Idle
    <2>2. DOMAIN Idle.out = {}
      BY <2>1
    <2> QED BY <2>2 DEF Owed
  <1>2. CASE x.op = "trusted_add" /\ x.pc # "failed"
    <2> DEFINE y == Failing(x)
    <2>1. y.out = <<"add_trusted_failed">>
      BY <1>2 DEF Failing, Idle
    <2>2. "add_trusted_failed" \notin Announcements
      BY DEF Announcements
    <2> HIDE DEF y
    <2>3. \A i \in DOMAIN y.out : y.out[i] = "add_trusted_failed"
      BY <2>1
    <2>4. Owed(y) = {}
      BY <2>2, <2>3 DEF Owed
    <2> QED BY <1>1, <2>4 DEF y
  <1>3. CASE ~(x.op = "trusted_add" /\ x.pc # "failed")
    BY <1>1, <1>3 DEF Failing
  <1> QED BY <1>1, <1>2, <1>3

(***************************************************************************)
(* What is owed or told of links other than f stays as it is.              *)
(***************************************************************************)
OthersKeepTheirWord(f) ==
    \A e \in EntryIds \ {f} :
        /\ \A p : Owing(e, p)' <=> Owing(e, p)
        /\ e \in told' <=> e \in told

(***************************************************************************)
(* A request that owes word of a link goes on with that link or ends.      *)
(***************************************************************************)
LEMMA LateStep ==
  ASSUME IndInv, NEW w \in Workers, WorkerStep(w),
         ctx[w].pc \in {"touch", "refresh", "publish"}
  PROVE  ctx'[w].entry = ctx[w].entry \/ Owed(ctx'[w]) = {}
  <1>1. ctx \in [Workers -> Request] /\ ctx[w] \in Request
    BY DEF IndInv, TypeOK
  <1>2. CASE TouchCard(w)
    BY <1>1, <1>2 DEF TouchCard, Goto, Request
  <1>3. CASE Fail(w) \/ Finish(w)
    <2>1. ctx'[w] = Failing(ctx[w]) \/ ctx'[w] = Idle
      BY <1>1, <1>3 DEF Fail, Finish, Goto
    <2> QED BY <2>1, FailingOwes
  <1>4. CASE Refresh(w)
    BY <1>1, <1>3, <1>4 DEF Refresh, Goto, Request
  <1>5. CASE Publish(w)
    <2>1. CASE Len(ctx[w].out) = 1
      BY <1>3, <1>5, <2>1 DEF Publish, Finish
    <2>2. CASE Len(ctx[w].out) # 1
      BY <1>1, <1>5, <2>2 DEF Publish, Goto, Request
    <2> QED BY <2>1, <2>2
  <1>6. CASE Abort(w) \/ Crash(w)
    BY <1>3, <1>6 DEF Abort, Crash
  <1> QED BY <1>2, <1>4, <1>5, <1>6, EarlySteps DEF WorkerStep

(***************************************************************************)
(* A step of a worker concerns the word of one link at most: the one its   *)
(* request holds, or the one it has just made.                             *)
(***************************************************************************)
LEMMA FocusStep ==
  ASSUME IndInv, NEW w \in Workers, WorkerStep(w), [Next]_vars,
         \A v \in Workers \ {w} : ctx'[v] = ctx[v]
  PROVE  /\ \E f : OthersKeepTheirWord(f)
         /\ ctx[w].pc \notin {"touch", "refresh", "publish"} =>
              OthersKeepTheirWord(ctx'[w].entry) /\ told' = told
  <1>1. \A f : (\A e \in EntryIds \ {f} : \A p : <<e, p>> \in Owed(ctx'[w]) <=> <<e, p>> \in Owed(ctx[w]))
                 => \A e \in EntryIds \ {f} : \A p : Owing(e, p)' <=> Owing(e, p)
    BY DEF Owing
  <1>2. \/ told' = told
        \/ told' = told \cup {ctx[w].entry} /\ ctx[w].pc = "publish"
    <2>1. CASE Publish(w)
      BY <2>1, PublishOwes
    <2>2. CASE ~Publish(w)
      BY <2>2, FetchMoves, CheckMidMoves, RouteMoves, CreateMoves, LinkMoves, TouchMoves,
         UpdateMoves, RejoinMoves, RemoveMoves, RefreshMoves
         DEF WorkerStep, Receive, Abort, Crash, history
    <2> QED BY <2>1, <2>2
  <1>3. CASE ctx[w].pc \in {"touch", "refresh", "publish"}
    <2>1. \A e \in EntryIds \ {ctx[w].entry} : \A p :
             <<e, p>> \notin Owed(ctx[w]) /\ <<e, p>> \notin Owed(ctx'[w])
      BY <1>3, LateStep, OwedIff
    <2>2. OthersKeepTheirWord(ctx[w].entry)
      BY <1>1, <1>2, <2>1 DEF OthersKeepTheirWord
    <2> QED BY <1>3, <2>2
  <1>4. CASE ctx[w].pc \notin {"touch", "refresh", "publish"}
    <2>1. Owed(ctx[w]) = {}
      BY <1>4, OwedTyped
    <2>2. \A e \in EntryIds \ {ctx'[w].entry} : \A p :
             <<e, p>> \notin Owed(ctx[w]) /\ <<e, p>> \notin Owed(ctx'[w])
      BY <2>1, OwedIff
    <2>3. OthersKeepTheirWord(ctx'[w].entry) /\ told' = told
      BY <1>1, <1>2, <1>4, <2>2 DEF OthersKeepTheirWord
    <2> QED BY <2>3
  <1> QED BY <1>3, <1>4

-----------------------------------------------------------------------------
(* What becomes of the rows *)

SameRow(e) == /\ entries'[e].state = entries[e].state
              /\ entries'[e].user = entries[e].user
              /\ entries'[e].card = entries[e].card

Inserted(w, e) ==
    /\ entries[e].state = "unused" /\ entries'[e].state = "live"
    /\ entries'[e].user \in Users /\ entries'[e].card \in CardIds
    /\ \A d \in EntryIds : entries[d].state = "live" =>
         ~(entries[d].card = entries'[e].card /\ entries[d].user = entries'[e].user)
    /\ \A d \in EntryIds \ {e} : SameRow(d)
    /\ ctx[w].pc \in {"create", "link"} /\ ctx'[w].entry = e

Removed(e) ==
    /\ entries[e].state = "live" /\ entries'[e].state = "gone"
    /\ entries'[e].user = entries[e].user /\ entries'[e].card = entries[e].card
    /\ \A d \in EntryIds \ {e} : SameRow(d)

(***************************************************************************)
(* A step of a worker makes one link, removes one, or neither.             *)
(***************************************************************************)
LEMMA RowStep ==
  ASSUME IndInv, NEW w \in Workers, WorkerStep(w)
  PROVE  \/ \A e \in EntryIds : SameRow(e)
         \/ \E e \in EntryIds : Inserted(w, e)
         \/ \E e \in EntryIds : Removed(e) /\ Remove(w)
  <1>1. /\ entries \in [EntryIds -> EntryRow] /\ TablesOK
        /\ ctx \in [Workers -> Request] /\ ctx[w] \in Request
    BY IndInvTables DEF TablesOK, Shaped, IndInv, TypeOK
  <1>2. ASSUME NEW e \in EntryIds, NEW c \in CardIds, InsertEntry(e, c, ctx[w]),
               entries[e].state = "unused", ctx[w].pc \in {"create", "link"},
               ctx'[w].entry = e,
               \A d \in EntryIds : entries[d].state = "live" =>
                  ~(entries[d].card = c /\ entries[d].user = ctx[w].user)
        PROVE  Inserted(w, e)
    <2>1. ctx[w].user \in Users
      BY <1>2, Current DEF Sound
    <2>2. entries'[e] = [state |-> "live", card |-> c, user |-> ctx[w].user,
                         status |-> NewStatus(ctx[w].op)]
      BY <1>1, <1>2 DEF InsertEntry
    <2>3. \A d \in EntryIds \ {e} : entries'[d] = entries[d]
      BY <1>1, <1>2 DEF InsertEntry
    <2> QED BY <1>2, <2>1, <2>2, <2>3 DEF Inserted, SameRow
  <1>3. CASE CreateCard(w)
    <2>1. PICK c \in CardIds, e \in EntryIds :
            /\ FreshCard(c) /\ FreshEntry(e) /\ InsertEntry(e, c, ctx[w])
            /\ Goto(w, Spent([ctx[w] EXCEPT !.card = c, !.entry = e],
                             "refresh", Onward(ctx[w].op)))
      BY <1>3 DEF CreateCard
    <2>2. ctx'[w].entry = e
      BY <1>1, <2>1 DEF Goto, Spent, Request
    <2>3. \A d \in EntryIds : entries[d].state = "live" => entries[d].card # c
      BY <1>1, <2>1 DEF TablesOK, Anchored, FreshCard
    <2> QED BY <1>2, <1>3, <2>1, <2>2, <2>3 DEF FreshEntry, CreateCard
  <1>4. CASE LinkCard(w)
    <2>1. CASE UNCHANGED entries
      BY <2>1 DEF SameRow
    <2>2. CASE entries' # entries
      <3>1. PICK e \in EntryIds :
              /\ ~AlreadyLinked(ctx[w]) /\ FreshEntry(e) /\ InsertEntry(e, ctx[w].card, ctx[w])
              /\ Goto(w, Spent([ctx[w] EXCEPT !.entry = e],
                               IF IsTrusted(ctx[w]) THEN "touch" ELSE "refresh",
                               Onward(ctx[w].op)))
        BY <1>4, <2>2 DEF LinkCard
      <3>2. ctx'[w].entry = e
        BY <1>1, <3>1 DEF Goto, Spent, Request
      <3>3. ctx[w].card \in CardIds /\ ctx[w].pc = "link"
        BY <1>4, Current DEF LinkCard, Sound
      <3> QED BY <1>2, <3>1, <3>2, <3>3 DEF FreshEntry, AlreadyLinked
    <2> QED BY <2>1, <2>2
  <1>5. CASE UpdateLink(w) \/ Rejoin(w)
    <2>1. \/ UNCHANGED entries
          \/ \E s : entries' = [entries EXCEPT ![ctx[w].entry].status = s]
      BY <1>5 DEF UpdateLink, Rejoin, tables
    <2>2. ASSUME NEW s, NEW f, entries' = [entries EXCEPT ![f].status = s], NEW e \in EntryIds
          PROVE  SameRow(e)
      <3>1. entries[e] \in EntryRow
        BY <1>1
      <3>2. entries'[e] = entries[e] \/ entries'[e] = [entries[e] EXCEPT !.status = s]
        BY <1>1, <2>2
      <3> QED BY <3>1, <3>2 DEF SameRow, EntryRow
    <2>3. UNCHANGED entries => \A e \in EntryIds : SameRow(e)
      BY DEF SameRow
    <2>4. \A e \in EntryIds : SameRow(e)
      BY <2>1, <2>2, <2>3
    <2> QED BY <2>4
  <1>6. CASE Remove(w)
    <2> DEFINE e == ctx[w].entry
    <2>1. /\ e \in EntryIds /\ entries[e].state # "unused"
          /\ entries' = [entries EXCEPT ![e].state = "gone"]
      BY <1>6, Holding DEF Remove, HoldsLink
    <2> HIDE DEF e
    <2>2. /\ entries'[e].state = "gone" /\ entries'[e].user = entries[e].user
          /\ entries'[e].card = entries[e].card /\ \A d \in EntryIds \ {e} : SameRow(d)
      BY <1>1, <2>1 DEF SameRow, EntryRow
    <2>3. entries[e].state \in {"live", "gone"}
      BY <1>1, <2>1 DEF EntryRow
    <2> QED BY <1>6, <2>1, <2>2, <2>3 DEF SameRow, Removed
  <1>7. CASE \/ Receive(w) \/ Fetch(w) \/ CheckMid(w) \/ Route(w) \/ TouchCard(w)
             \/ Refresh(w) \/ Publish(w) \/ Abort(w) \/ Crash(w)
    <2>1. UNCHANGED entries
      BY <1>7, FetchMoves, CheckMidMoves, RouteMoves, RefreshMoves, PublishMoves
         DEF Receive, TouchCard, Abort, Crash, tables
    <2> QED BY <2>1 DEF SameRow
  <1> QED BY <1>3, <1>4, <1>5, <1>6, <1>7 DEF WorkerStep

(***************************************************************************)
(* Hermes removes one link at most in a step: a user has one to a card.    *)
(***************************************************************************)
LEMMA HermesRowStep ==
  ASSUME IndInv, Hermes
  PROVE  (\A e \in EntryIds : SameRow(e)) \/ \E e \in EntryIds : Removed(e)
  <1>1. entries \in [EntryIds -> EntryRow] /\ TablesOK
    BY IndInvTables DEF TablesOK, Shaped
  <1>2. CASE \E e, s : entries' = [entries EXCEPT ![e].status = s]
    BY <1>1, <1>2 DEF SameRow, EntryRow
  <1>3. ASSUME NEW c, NEW u, HermesRemovesLink(c, u)
        PROVE  (\A e \in EntryIds : SameRow(e)) \/ \E e \in EntryIds : Removed(e)
    <2> DEFINE own == {e \in EntryIds : /\ entries[e].state = "live"
                                        /\ entries[e].card = c /\ entries[e].user = u}
    <2>1. entries' = [e \in EntryIds |->
                        IF e \in own THEN [entries[e] EXCEPT !.state = "gone"] ELSE entries[e]]
      BY <1>3 DEF HermesRemovesLink
    <2>2. \A d, e \in own : d = e
      BY <1>1 DEF TablesOK, Distinct
    <2>3. \A e \in own : entries[e].state = "live" /\ e \in EntryIds
      OBVIOUS
    <2> HIDE DEF own
    <2>4. \A e \in EntryIds \ own : SameRow(e)
      BY <2>1 DEF SameRow
    <2>5. ASSUME NEW e \in own PROVE Removed(e)
      <3>1. entries'[e] = [entries[e] EXCEPT !.state = "gone"] /\ entries[e] \in EntryRow
        BY <1>1, <2>1, <2>3, <2>5
      <3>2. \A d \in EntryIds \ {e} : SameRow(d)
        BY <2>2, <2>4, <2>5
      <3> QED BY <2>3, <2>5, <3>1, <3>2 DEF Removed, EntryRow
    <2> QED BY <2>3, <2>4, <2>5
  <1>4. CASE UNCHANGED entries
    BY <1>4 DEF SameRow
  <1> QED BY <1>2, <1>3, <1>4 DEF Hermes, HermesHandles, HermesUpdates, tables

-----------------------------------------------------------------------------
(* Each step is a step of one link, or of none *)

Lives == [e \in EntryIds |-> Life(e)]

(***************************************************************************)
(* A row and a word that stay as they are make a link that does.           *)
(***************************************************************************)
LEMMA SameLife ==
  ASSUME NEW e \in EntryIds, SameRow(e),
         \A p : Owing(e, p)' <=> Owing(e, p), e \in told' <=> e \in told
  PROVE  Life(e)' = Life(e)
  <1>1. Word(e)' = Word(e)
    BY DEF Word, SameRow
  <1> QED BY <1>1 DEF Life, SameRow

(***************************************************************************)
(* A change of one link's record is a change of the function at that link. *)
(***************************************************************************)
LEMMA OneLife ==
  ASSUME NEW e \in EntryIds, \A d \in EntryIds \ {e} : Life(d)' = Life(d)
  PROVE  Lives' = [Lives EXCEPT ![e] = Life(e)']
  BY DEF Lives

(***************************************************************************)
(* Only the word of e changes: it is told, lost or owed again.             *)
(***************************************************************************)
LEMMA WordChange ==
  ASSUME PInv, [Next]_vars, NEW e \in EntryIds, SameRow(e),
         \A d \in EntryIds \ {e} : Life(d)' = Life(d)
  PROVE  Lives' = Lives \/ Promise!Step(e)
  <1>1. CASE entries[e].state = "unused"
    <2>1. entries'[e].state = "unused"
      BY <1>1 DEF SameRow
    <2>2. Word(e)' = Word(e)
      BY <1>1, <2>1 DEF Word
    <2>3. Life(e)' = Life(e)
      BY <2>2 DEF Life, SameRow
    <2> QED BY <2>3 DEF Lives
  <1>2. CASE entries[e].state # "unused"
    <2>1. /\ Word(e) \in {"told", "owed", "lost"} /\ Word(e)' \in {"told", "owed", "lost"}
          /\ Word(e) = "told" => Word(e)' = "told"
          /\ Word(e) = "lost" => Word(e)' \in {"lost", "owed"}
      BY <1>2, WordStep
    <2>2. Life(e)' = [Life(e) EXCEPT !.word = Word(e)']
      BY DEF Life, SameRow
    <2>3. Lives' = [Lives EXCEPT ![e].word = Word(e)']
      BY <2>2, OneLife DEF Lives
    <2>4. Lives[e].word = Word(e)
      BY DEF Lives, Life
    <2>5. CASE Word(e)' = Word(e)
      <3>1. Life(e)' = Life(e)
        BY <2>5 DEF Life, SameRow
      <3> QED BY <3>1 DEF Lives
    <2>6. CASE Word(e) = "owed" /\ Word(e)' = "told"
      BY <2>3, <2>4, <2>6 DEF Promise!Step, Promise!Tell, Lives
    <2>7. CASE Word(e) = "owed" /\ Word(e)' = "lost"
      BY <2>3, <2>4, <2>7 DEF Promise!Step, Promise!Lose, Lives
    <2>8. CASE Word(e) = "lost" /\ Word(e)' = "owed"
      BY <2>3, <2>4, <2>8 DEF Promise!Step, Promise!OweAgain, Lives
    <2> QED BY <2>1, <2>5, <2>6, <2>7, <2>8
  <1> QED BY <1>1, <1>2

(***************************************************************************)
(* A row goes while no word changes: the link is closed.                   *)
(***************************************************************************)
LEMMA RemovedCloses ==
  ASSUME PInv, [Next]_vars, NEW e \in EntryIds, Removed(e),
         \A d \in EntryIds : /\ \A p : Owing(d, p)' <=> Owing(d, p)
                             /\ d \in told' <=> d \in told
  PROVE  Promise!Step(e)
  <1>1. \A d \in EntryIds \ {e} : Life(d)' = Life(d)
    BY SameLife DEF Removed
  <1>2. Word(e)' = Word(e)
    BY DEF Word, Removed
  <1>3. Life(e)' = [Life(e) EXCEPT !.state = "closed"]
    BY <1>2 DEF Life, Removed, EntryState
  <1>4. Lives' = [Lives EXCEPT ![e].state = "closed"]
    BY <1>1, <1>3, OneLife DEF Lives
  <1>5. Lives[e].state = "open"
    BY DEF Lives, Life, Removed, EntryState
  <1> QED BY <1>4, <1>5 DEF Promise!Step, Promise!Close, Lives

(***************************************************************************)
(* A row is inserted: the link is opened, and word of it is owed.          *)
(***************************************************************************)
LEMMA InsertedOpens ==
  ASSUME PInv, [Next]_vars, NEW w \in Workers, NEW e \in EntryIds, Inserted(w, e),
         OthersKeepTheirWord(e), told' = told
  PROVE  Promise!Step(e)
  <1>1. \A d \in EntryIds \ {e} : Life(d)' = Life(d)
    BY SameLife DEF Inserted, OthersKeepTheirWord
  <1>2. e \notin told' /\ \E p \in Announcements : Owing(e, p)'
    BY NoneYet, NewLink DEF Inserted, PInv
  <1>3. Word(e)' = "owed"
    BY <1>2 DEF Word, Inserted
  <1> DEFINE u == entries'[e].user
             c == entries'[e].card
  <1>4. Life(e)' = [state |-> "open", user |-> u, card |-> c, word |-> "owed"]
    BY <1>3 DEF Life, Inserted, EntryState
  <1>5. Lives' = [Lives EXCEPT ![e] = [state |-> "open", user |-> u, card |-> c, word |-> "owed"]]
    BY <1>1, <1>4, OneLife
  <1>6. Lives[e].state = "unused"
    BY DEF Lives, Life, Inserted, EntryState
  <1>7. \A d \in EntryIds : ~(Lives[d].state = "open" /\ Lives[d].user = u /\ Lives[d].card = c)
    <2> TAKE d \in EntryIds
    <2>1. entries[d].state \in {"unused", "live", "gone"}
      BY IndInvTables DEF PInv, TablesOK, Shaped, EntryRow
    <2>2. Lives[d].state = "open" => entries[d].state = "live"
      BY <2>1 DEF Lives, Life, EntryState
    <2> QED BY <2>2 DEF Lives, Life, Inserted
  <1>8. u \in Users /\ c \in CardIds
    BY DEF Inserted
  <1> HIDE DEF u, c
  <1> QED BY <1>5, <1>6, <1>7, <1>8 DEF Promise!Step, Promise!Open, Promise!OpenLink, Lives

-----------------------------------------------------------------------------
(* The refinement *)

(***************************************************************************)
(* The links the program finds are known to Hermes.                        *)
(***************************************************************************)
LEMMA InitPromise == Init => Promise!Init
  <1> SUFFICES ASSUME Init PROVE Promise!Init
    OBVIOUS
  <1>1. \E t \in InitialTables :
          entries = t.entries /\ told = {e \in EntryIds : t.entries[e].state # "unused"}
    BY DEF Init
  <1>2. entries \in [EntryIds -> EntryRow]
    BY InitInd, IndInvTables DEF TablesOK, Shaped
  <1>3. ASSUME NEW e \in EntryIds
        PROVE  /\ Life(e) \in Promise!Link
               /\ Life(e).word = IF Life(e).state = "unused" THEN "none" ELSE "told"
    <2>1. entries[e] \in EntryRow /\ (e \in told <=> entries[e].state # "unused")
      BY <1>1, <1>2
    <2>2. Word(e) = IF entries[e].state = "unused" THEN "none" ELSE "told"
      BY <2>1 DEF Word
    <2>3. /\ EntryState[entries[e].state] \in {"unused", "open", "closed"}
          /\ EntryState[entries[e].state] = "unused" <=> entries[e].state = "unused"
      BY <2>1 DEF EntryRow, EntryState
    <2>4. Life(e) \in Promise!Link
      BY <2>1, <2>2, <2>3 DEF Life, EntryRow, Promise!Link
    <2> QED BY <2>2, <2>3, <2>4 DEF Life
  <1>4. Lives \in [EntryIds -> Promise!Link]
    BY <1>3 DEF Lives
  <1> QED BY <1>3, <1>4 DEF Promise!Init, Lives

(***************************************************************************)
(* Every step is a step of one link or of none.                            *)
(***************************************************************************)
LEMMA StepPromise ==
  ASSUME PInv, [Next]_vars
  PROVE  [Promise!Next]_Lives
  <1>1. CASE UNCHANGED vars
    BY <1>1, SameLife DEF vars, Lives, SameRow, Owing
  <1>2. CASE Hermes /\ UNCHANGED <<ctx, told, lost>>
    <2>1. \A d \in EntryIds : /\ \A p : Owing(d, p)' <=> Owing(d, p)
                              /\ d \in told' <=> d \in told
      BY <1>2 DEF Owing
    <2>2. CASE \A e \in EntryIds : SameRow(e)
      BY <2>1, <2>2, SameLife DEF Lives
    <2>3. ASSUME NEW e \in EntryIds, Removed(e) PROVE Promise!Step(e)
      BY <2>1, <2>3, RemovedCloses
    <2> QED BY <1>2, <2>2, <2>3, HermesRowStep DEF PInv, Promise!Next
  <1>3. ASSUME NEW w \in Workers, WorkerStep(w), \A v \in Workers \ {w} : ctx'[v] = ctx[v]
        PROVE  Lives' = Lives \/ \E e \in EntryIds : Promise!Step(e)
    <2>1. /\ \E f : OthersKeepTheirWord(f)
          /\ ctx[w].pc \notin {"touch", "refresh", "publish"} =>
               OthersKeepTheirWord(ctx'[w].entry) /\ told' = told
      BY <1>3, FocusStep DEF PInv
    <2>2. CASE \A e \in EntryIds : SameRow(e)
      <3>1. PICK f : OthersKeepTheirWord(f)
        BY <2>1
      <3>2. \A d \in EntryIds \ {f} : Life(d)' = Life(d)
        BY <2>2, <3>1, SameLife DEF OthersKeepTheirWord
      <3>3. CASE f \in EntryIds
        BY <2>2, <3>2, <3>3, WordChange
      <3>4. CASE f \notin EntryIds
        BY <3>2, <3>4 DEF Lives
      <3> QED BY <3>3, <3>4
    <2>3. ASSUME NEW e \in EntryIds, Inserted(w, e) PROVE Promise!Step(e)
      BY <2>1, <2>3, InsertedOpens DEF Inserted
    <2>4. ASSUME NEW e \in EntryIds, Removed(e), Remove(w) PROVE Promise!Step(e)
      <3>1. ctx'[w] = Idle /\ ctx[w].pc = "remove"
        BY <2>4 DEF Remove, Finish, Goto, PInv, IndInv, TypeOK
      <3>2. told' = told /\ Owed(ctx[w]) = {} /\ Owed(ctx'[w]) = {}
        BY <2>1, <3>1, FailingOwes, OwedTyped DEF PInv
      <3>3. \A d \in EntryIds : \A p : Owing(d, p)' <=> Owing(d, p)
        BY <1>3, <3>2 DEF Owing
      <3> QED BY <2>4, <3>2, <3>3, RemovedCloses
    <2> QED BY <1>3, <2>2, <2>3, <2>4, RowStep DEF PInv
  <1> QED BY <1>1, <1>2, <1>3, OneWorkerSteps DEF PInv, Promise!Next

(***************************************************************************)
(* The journeys implement WalletLinks, for any users, workers, endpoints   *)
(* and bounds, with or without faults: no step of any of them reuses or    *)
(* changes a link, opens a second one for a user and a card, or leaves     *)
(* word of one neither owed, told nor seen to be lost.                     *)
(***************************************************************************)
THEOREM PromiseKept == Spec => KeepsPromise
  <1>1. PInv /\ [Next]_vars => [Promise!Next]_Lives
    BY StepPromise
  <1> QED BY <1>1, InitPromise, PromiseInd, PTL DEF Spec, KeepsPromise, Promise!Spec, Lives
=============================================================================
