--------------------------- MODULE WalletsProofs ---------------------------
(***************************************************************************)
(* Proofs, for any workers, requests, bounds and starting databases, of    *)
(* invariants of Sessions and Wallets.                                     *)
(***************************************************************************)
EXTENDS Wallets, TLAPS, FiniteSetTheorems

-----------------------------------------------------------------------------
(* The inductive invariant *)

(***************************************************************************)
(* The steps of a request, by the operations that take them.               *)
(***************************************************************************)
LookUps == {"find_user", "check_new_email", "insert_user", "reselect"}
LoginSteps == LookUps \cup {"insert_consent"}
TrustedSteps == {"check_mid", "find_card", "insert_card", "insert_link", "touch", "decide"}
PaymentSteps == {"find_payment", "insert_payment", "insert_owner"}
EmailSteps == {"check_email", "update_email", "report"}

Steps == LoginSteps \cup TrustedSteps \cup PaymentSteps \cup EmailSteps
            \cup {"idle", "find_own", "publish", "respond"}

Contexts ==
    [pc : Steps, req : Requests \cup {None}, user : Nat, card : Nat, payment : Nat,
     todo : SUBSET {"date", "activate"}, newUser : BOOLEAN, newCard : BOOLEAN,
     newPayment : BOOLEAN, made : SUBSET Nat, status : Nat]

(***************************************************************************)
(* The sessions: the rows are well formed and break no unique index, also  *)
(* those that are flushed, and no row is at two places.                    *)
(***************************************************************************)
Good(rows, next) ==
    /\ \A r \in rows : IsRow(r) /\ r.id \in 1..(next - 1)
    /\ \A r, s \in rows : r.id = s.id \/ Clash(r, s) => r = s

Rows == db \cup UNION {tx[w] : w \in Workers}

Apart(w) ==
    \A r \in tx[w] : /\ \A s \in db : s.id # r.id
                     /\ \A v \in Workers \ {w} : \A s \in tx[v] : s.id # r.id

Lists ==
    /\ queue \in [Workers -> Seq(Events)]
    /\ committing \subseteq Workers
    /\ \A w \in committing : queue[w] # <<>> /\ tx[w] = {}

Orderly ==
    /\ serial \in Nat \ {0}
    /\ tx = [w \in Workers |-> tx[w]]
    /\ Good(Rows, serial)
    /\ \A w \in Workers : Apart(w)
    /\ Lists

(***************************************************************************)
(* The creation of every row, committed or flushed, is known or about to   *)
(* be.                                                                     *)
(***************************************************************************)
Heard(e) == e \in sent \cup lost \/ Pending(e)

AllTold == \A r \in Rows : r.table \in Watched => Heard(Created(r))

(***************************************************************************)
(* A worker's record fits its step: the operation is one that comes there, *)
(* the ids name rows it sees, and nothing is flushed without what has to   *)
(* go with it.                                                             *)
(***************************************************************************)
FitsOperation(x) ==
    /\ x.pc # "idle" => x.req \in Requests
    /\ x.pc \in LoginSteps => x.req.op \in {"token", "create_trusted"}
    /\ x.pc \in TrustedSteps => x.req.op = "create_trusted"
    /\ x.pc \in PaymentSteps => x.req.op \in {"create_trusted", "add_payment"}
    /\ x.pc \in EmailSteps => x.req.op = "email_update"
    /\ x.pc = "find_own" => x.req.op \in {"update_payment", "delete_payment"}

FitsStep(x) ==
    /\ x.pc = "idle" => x = Idle
    /\ x.pc \in LookUps => x.user = 0 /\ x.card = 0 /\ x.payment = 0 /\ x.todo = {}
    /\ x.pc \in {"insert_link", "touch"} => x.card # 0
    /\ x.pc \in {"check_email", "update_email"} => x.user # 0
    /\ x.pc = "find_own" => x.payment # 0

SeesRows(w) ==
    LET x == ctx[w] IN
    /\ x.pc # "respond" => /\ Names(w, x.user, "user")
                           /\ Names(w, x.card, "card")
                           /\ Names(w, x.payment, "payment")
    /\ x.pc = "touch" /\ "activate" \in x.todo =>
         \E l \in Visible(w) : l.table = "link" /\ l.card = x.card /\ l.user = x.user

ConsentsFlushed(w) ==
    LET x == ctx[w] IN
    \A u \in In(tx[w], "user") :
        \/ x.pc = "respond"
        \/ x.pc = "insert_consent" /\ x.user = u.id
        \/ \E c \in In(tx[w], "consent") : c.user = u.id

OwnersDecided(w) ==
    LET x == ctx[w] IN
    \A o \in In(tx[w], "owner") :
        \/ x.pc = "respond"
        \/ x.pc = "decide" /\ o.user = x.user /\ o.payment = x.payment

Fits(w) ==
    /\ FitsOperation(ctx[w])
    /\ FitsStep(ctx[w])
    /\ SeesRows(w)
    /\ ctx[w].pc = "idle" => tx[w] = {} /\ w \notin committing
    /\ tx[w] # {} => Trusted(ctx[w]) \/ ctx[w].pc \in {"insert_owner", "respond"}
    /\ ConsentsFlushed(w)
    /\ OwnersDecided(w)

(***************************************************************************)
(* A user without consent belongs to a login in its second transaction.    *)
(***************************************************************************)
Consented(u) ==
    \/ \E c \in In(db, "consent") : c.user = u.id
    \/ Consent(u.id) \in lost
    \/ \E w \in Workers :
         ctx[w].pc = "insert_consent" /\ ctx[w].user = u.id /\ ~Trusted(ctx[w])

AllConsented == \A u \in In(db, "user") : Consented(u)

IInv ==
    /\ Orderly
    /\ ctx \in [Workers -> Contexts]
    /\ served \in 0..MaxRequests
    /\ AllTold
    /\ \A w \in Workers : Fits(w)
    /\ AllConsented
    /\ PaymentAnnounced
-----------------------------------------------------------------------------
(* Lists of events *)

Among(e, q) == \E i \in DOMAIN q : q[i] = e

(***************************************************************************)
(* What is in a list is its head or in its tail.                           *)
(***************************************************************************)
LEMMA HeadAndTail ==
  ASSUME NEW q \in Seq(Events), q # <<>>
  PROVE  /\ Head(q) \in Events /\ Tail(q) \in Seq(Events)
         /\ Tail(q) = <<>> => Len(q) = 1
         /\ \A e : Among(e, q) => e = Head(q) \/ Among(e, Tail(q))
  <1>1. Head(q) \in Events /\ Tail(q) \in Seq(Events) /\ Len(q) \in Nat \ {0} /\ DOMAIN q = 1..Len(q)
    OBVIOUS
  <1>2. Len(Tail(q)) = Len(q) - 1 /\ \A j \in 1..(Len(q) - 1) : Tail(q)[j] = q[j + 1]
    OBVIOUS
  <1>3. Tail(q) = <<>> => Len(q) = 1
    <2>1. Len(<<>>) = 0
      OBVIOUS
    <2>2. ASSUME Tail(q) = <<>> PROVE Len(Tail(q)) = 0
      BY <2>1, <2>2, Zenon
    <2>3. Len(Tail(q)) = Len(q) - 1
      BY <1>2
    <2>4. ASSUME NEW n \in Nat \ {0}, n - 1 = 0 PROVE n = 1
      BY <2>4
    <2> QED BY <1>1, <2>2, <2>3, <2>4
  <1>4. ASSUME NEW i \in DOMAIN q, i # 1
        PROVE  \E j \in DOMAIN Tail(q) : Tail(q)[j] = q[i]
    <2>1. i - 1 \in 1..(Len(q) - 1) /\ Tail(q)[i - 1] = q[(i - 1) + 1]
      BY <1>1, <1>2, <1>4
    <2>2. DOMAIN Tail(q) = 1..(Len(q) - 1)
      BY <1>1, <1>2
    <2> QED BY <1>1, <1>4, <2>1, <2>2
  <1>5. q[1] = Head(q)
    OBVIOUS
  <1>6. ASSUME NEW e, Among(e, q) PROVE e = Head(q) \/ Among(e, Tail(q))
    <2>1. PICK i \in DOMAIN q : q[i] = e
      BY <1>6 DEF Among
    <2> QED BY <1>4, <1>5, <2>1 DEF Among
  <1> QED BY <1>1, <1>3, <1>6

(***************************************************************************)
(* What is in one of two lists is in the list of both.                     *)
(***************************************************************************)
LEMMA Joined ==
  ASSUME NEW p \in Seq(Events), NEW q \in Seq(Events)
  PROVE  /\ p \o q \in Seq(Events)
         /\ p # <<>> => p \o q # <<>>
         /\ \A e : Among(e, p) \/ Among(e, q) => Among(e, p \o q)
  <1>1. /\ p \o q \in Seq(Events) /\ Len(p \o q) = Len(p) + Len(q)
        /\ Len(p) \in Nat /\ Len(q) \in Nat
        /\ DOMAIN (p \o q) = 1..(Len(p) + Len(q))
        /\ DOMAIN p = 1..Len(p) /\ DOMAIN q = 1..Len(q)
    OBVIOUS
  <1>2. \A i \in 1..Len(p) : (p \o q)[i] = p[i]
    OBVIOUS
  <1>3. \A j \in 1..Len(q) : (p \o q)[Len(p) + j] = q[j]
    OBVIOUS
  <1>4. p # <<>> => p \o q # <<>>
    BY <1>1
  <1>5. \A i \in DOMAIN p : i \in DOMAIN (p \o q)
    BY <1>1
  <1>6. \A j \in DOMAIN q : Len(p) + j \in DOMAIN (p \o q)
    BY <1>1
  <1>7. ASSUME NEW e, Among(e, p) PROVE Among(e, p \o q)
    BY <1>1, <1>2, <1>5, <1>7 DEF Among
  <1>8. ASSUME NEW e, Among(e, q) PROVE Among(e, p \o q)
    BY <1>1, <1>3, <1>6, <1>8 DEF Among
  <1> QED BY <1>1, <1>4, <1>7, <1>8

(***************************************************************************)
(* Putting the head of a list at its end keeps what is in it.              *)
(***************************************************************************)
LEMMA Rotated ==
  ASSUME NEW q \in Seq(Events), q # <<>>
  PROVE  /\ Append(Tail(q), Head(q)) \in Seq(Events) /\ Append(Tail(q), Head(q)) # <<>>
         /\ \A e : Among(e, q) => Among(e, Append(Tail(q), Head(q)))
  <1>1. \A t \in Seq(Events), h \in Events :
            /\ Append(t, h) \in Seq(Events) /\ Append(t, h) # <<>>
            /\ Among(h, Append(t, h))
            /\ \A e : Among(e, t) => Among(e, Append(t, h))
    <2> TAKE t \in Seq(Events), h \in Events
    <2>1. /\ Append(t, h) \in Seq(Events) /\ Len(Append(t, h)) = Len(t) + 1 /\ Len(t) \in Nat
          /\ DOMAIN Append(t, h) = 1..(Len(t) + 1) /\ DOMAIN t = 1..Len(t)
          /\ Append(t, h)[Len(t) + 1] = h
      OBVIOUS
    <2>2. \A j \in 1..Len(t) : Append(t, h)[j] = t[j] /\ j \in 1..(Len(t) + 1)
      OBVIOUS
    <2>3. Append(t, h) # <<>>
      BY <2>1
    <2>4. Len(t) + 1 \in 1..(Len(t) + 1)
      BY <2>1
    <2>5. Among(h, Append(t, h))
      BY <2>1, <2>4 DEF Among
    <2>6. ASSUME NEW e, Among(e, t) PROVE Among(e, Append(t, h))
      BY <2>1, <2>2, <2>6 DEF Among
    <2> QED BY <2>1, <2>3, <2>5, <2>6
  <1>2. Head(q) \in Events /\ Tail(q) \in Seq(Events)
    BY HeadAndTail
  <1> QED BY <1>1, <1>2, HeadAndTail

-----------------------------------------------------------------------------
(* Rows *)

\* A unique index does not care which of the two rows came first.
LEMMA ClashBothWays ==
  ASSUME NEW r, NEW s, Clash(r, s)
  PROVE  Clash(s, r)
  BY DEF Clash

(***************************************************************************)
(* A fresh row that clashes with none goes with the others.                *)
(***************************************************************************)
LEMMA Added ==
  ASSUME NEW rows, NEW n \in Nat \ {0}, Good(rows, n),
         NEW r, IsRow(r), r.id = n, \A s \in rows : ~Clash(r, s)
  PROVE  Good(rows \cup {r}, n + 1)
  <1>1. \A s \in rows : s.id \in 1..(n - 1) /\ IsRow(s)
    BY DEF Good
  <1>2. \A s \in rows : s.id # r.id
    BY <1>1
  <1>3. \A s \in rows \cup {r} : IsRow(s) /\ s.id \in 1..((n + 1) - 1)
    BY <1>1
  <1>4. \A s, t \in rows : s.id = t.id \/ Clash(s, t) => s = t
    BY DEF Good
  <1>5. \A s \in rows : ~Clash(s, r)
    BY ClashBothWays
  <1>6. \A s, t \in rows \cup {r} : s.id = t.id \/ Clash(s, t) => s = t
    BY <1>2, <1>4, <1>5
  <1> QED BY <1>3, <1>6 DEF Good

(***************************************************************************)
(* s is r with columns altered that no unique index reads, or with the     *)
(* payment account deleted.                                                *)
(***************************************************************************)
Kept(r, s) ==
    /\ IsRow(s) /\ s.table = r.table /\ s.id = r.id
    /\ r.table = "user" => s.ext = r.ext /\ s.email = r.email
    /\ r.table = "consent" => s.user = r.user
    /\ r.table = "link" => s.card = r.card /\ s.user = r.user
    /\ r.table = "payment" => s.print = r.print /\ (s.live => r.live)
    /\ r.table = "owner" => s = r

\* A row that is not altered is kept.
LEMMA KeptItself ==
  ASSUME NEW r, IsRow(r)
  PROVE  Kept(r, r)
  BY DEF Kept

\* Altering rows in this way makes no new clash.
LEMMA ClashKept ==
  ASSUME NEW r, NEW s, NEW t, NEW u, Kept(r, s), Kept(t, u), Clash(s, u)
  PROVE  Clash(r, t)
  BY DEF Kept, Clash

(***************************************************************************)
(* Rows that are altered in this way go together as they did.              *)
(***************************************************************************)
LEMMA AlteredGood ==
  ASSUME NEW rows, NEW n \in Nat \ {0}, Good(rows, n), NEW new,
         \A s \in new : \E r \in rows : Kept(r, s),
         \A s, t \in new : s.id = t.id => s = t
  PROVE  Good(new, n)
  <1>1. \A s \in new : IsRow(s) /\ s.id \in 1..(n - 1)
    BY DEF Good, Kept
  <1>2. ASSUME NEW s \in new, NEW u \in new, Clash(s, u)
        PROVE  s = u
    <2>1. PICK r \in rows : Kept(r, s)
      OBVIOUS
    <2>2. PICK t \in rows : Kept(t, u)
      OBVIOUS
    <2>3. Clash(r, t)
      BY <1>2, <2>1, <2>2, ClashKept
    <2>4. r = t
      BY <2>3 DEF Good
    <2>5. s.id = u.id
      BY <2>1, <2>2, <2>4 DEF Kept
    <2> QED BY <2>5
  <1> QED BY <1>1, <1>2 DEF Good

\* Taking rows away breaks no index.
LEMMA FewerGood ==
  ASSUME NEW rows, NEW n \in Nat \ {0}, Good(rows, n), NEW fewer \in SUBSET rows
  PROVE  Good(fewer, n)
  BY DEF Good

(***************************************************************************)
(* The columns of a row can be assigned to.                                *)
(***************************************************************************)
LEMMA Dated ==
  ASSUME NEW r, IsRow(r), r.table = "card"
  PROVE  Kept(r, [r EXCEPT !.dated = TRUE])
  BY DEF Kept, IsRow, Columns

\* The same for the activation of a link.
LEMMA Activated ==
  ASSUME NEW r, IsRow(r), r.table = "link"
  PROVE  Kept(r, [r EXCEPT !.active = TRUE])
  BY DEF Kept, IsRow, Columns

\* The same for Hermes linking a payment account.
LEMMA Linked ==
  ASSUME NEW r, IsRow(r), r.table = "payment"
  PROVE  Kept(r, [r EXCEPT !.pll = TRUE])
  BY DEF Kept, IsRow, Columns

\* The same for Hermes deleting one.
LEMMA ClosedKept ==
  ASSUME NEW r, IsRow(r), r.table = "payment"
  PROVE  Kept(r, Closed(r))
  BY DEF Kept, IsRow, Columns, Closed

\* A user with another address is a user with the same id.
LEMMA Renamed ==
  ASSUME NEW r, NEW e, IsRow(r), r.table = "user"
  PROVE  LET s == [r EXCEPT !.email = e] IN IsRow(s) /\ s.table = "user" /\ s.id = r.id
  BY DEF IsRow, Columns

-----------------------------------------------------------------------------
(* What the operations of a session preserve *)

\* A row is committed or flushed by some worker.
LEMMA InRows == \A r : r \in Rows <=> r \in db \/ \E w \in Workers : r \in tx[w]
  BY DEF Rows

\* The same of the next state.
LEMMA InRowsNext == \A r : r \in Rows' <=> r \in db' \/ \E w \in Workers : r \in tx'[w]
  BY DEF Rows

(***************************************************************************)
(* s is where r was: the same row, possibly altered.                       *)
(***************************************************************************)
Stays(r, s) ==
    /\ s.table = r.table /\ s.id = r.id
    /\ r.table \in {"consent", "link"} => s.user = r.user
    /\ r.table = "link" => s.card = r.card

\* No row disappears but those that put an account into a wallet.
Grown == \A r \in db : r.table # "owner" => \E s \in db' : Stays(r, s)

\* A step of the session of w, seen by the others.
OthersKept(w) ==
    /\ \A v \in Workers \ {w} : tx'[v] = tx[v] /\ (v \in committing' => v \in committing)
    /\ lost \subseteq lost'
    /\ Grown

\* Nothing that was heard of is forgotten.
HeardStays == \A e \in Events : Heard(e) => Heard(e)'

\* The operations that change no rows.
RowsKept == db' = db /\ serial' = serial

\* Where no row changes, none disappears.
LEMMA GrownIfKept ==
  ASSUME RowsKept
  PROVE  Grown
  BY DEF RowsKept, Grown, Stays

(***************************************************************************)
(* A list that is replaced by one with the same events, or whose events    *)
(* are sent or lost, forgets none.                                         *)
(***************************************************************************)
LEMMA ListReplaced ==
  ASSUME Lists, NEW w \in Workers, NEW q, queue' = [queue EXCEPT ![w] = q],
         \A e \in Events : e \in sent \cup lost => e \in sent' \cup lost',
         \A e \in Events : Among(e, queue[w]) => e \in sent' \cup lost' \/ Among(e, q)
  PROVE  HeardStays
  <1>1. queue'[w] = q /\ \A v \in Workers \ {w} : queue'[v] = queue[v]
    BY DEF Lists
  <1>2. \A e : Pending(e) <=> \E v \in Workers : Among(e, queue[v])
    BY DEF Pending, Among
  <1>3. \A e : Pending(e)' <=> \E v \in Workers : Among(e, queue'[v])
    BY DEF Pending, Among
  <1>4. ASSUME NEW e \in Events, Heard(e) PROVE Heard(e)'
    <2>1. CASE e \in sent \cup lost
      BY <2>1 DEF Heard
    <2>2. ASSUME NEW v \in Workers, Among(e, queue[v]) PROVE Heard(e)'
      BY <1>1, <1>3, <2>2 DEF Heard
    <2> QED BY <1>2, <1>4, <2>1, <2>2 DEF Heard
  <1> QED BY <1>4 DEF HeardStays

(***************************************************************************)
(* A list that is only made longer.                                        *)
(***************************************************************************)
LEMMA ListLonger ==
  ASSUME Lists, NEW w \in Workers, NEW more \in Seq(Events),
         queue' = [queue EXCEPT ![w] = @ \o more], sent' = sent, lost' = lost
  PROVE  /\ HeardStays
         /\ queue' \in [Workers -> Seq(Events)]
         /\ \A v \in Workers : queue[v] # <<>> => queue'[v] # <<>>
         /\ \A e : Among(e, more) => Heard(e)'
  <1>1. queue[w] \in Seq(Events)
    BY DEF Lists
  <1>2. /\ queue[w] \o more \in Seq(Events)
        /\ queue[w] # <<>> => queue[w] \o more # <<>>
        /\ \A e : Among(e, queue[w]) \/ Among(e, more) => Among(e, queue[w] \o more)
    BY <1>1, Joined
  <1>3. queue'[w] = queue[w] \o more /\ \A v \in Workers \ {w} : queue'[v] = queue[v]
    BY DEF Lists
  <1>4. queue' \in [Workers -> Seq(Events)]
    BY <1>2 DEF Lists
  <1>5. HeardStays
    BY <1>2, ListReplaced
  <1>6. \A e : Among(e, more) => Heard(e)'
    <2>1. \A e : Among(e, queue'[w]) => Pending(e)'
      BY DEF Pending, Among
    <2> QED BY <1>2, <1>3, <2>1 DEF Heard
  <1>7. \A v \in Workers : queue[v] # <<>> => queue'[v] # <<>>
    BY <1>2, <1>3
  <1> QED BY <1>4, <1>5, <1>6, <1>7

(***************************************************************************)
(* Events are events.                                                      *)
(***************************************************************************)
LEMMA NotedEvents ==
  ASSUME NEW kind \in {"create", "update"}, NEW r, r.id \in Nat
  PROVE  /\ Noted(kind, r) \in Seq(Events)
         /\ r.table \in Watched => [kind |-> kind, row |-> r.id] \in Events
         /\ r.table \in Watched => Among([kind |-> kind, row |-> r.id], Noted(kind, r))
  <1>1. [kind |-> kind, row |-> r.id] \in Events
    BY DEF Events
  <1>2. ASSUME NEW e \in Events
        PROVE  <<e>> \in Seq(Events) /\ <<>> \in Seq(Events) /\ Among(e, <<e>>)
    BY DEF Among
  <1> QED BY <1>1, <1>2 DEF Noted

(***************************************************************************)
(* The creations of the rows stay known if those of new rows are noted.    *)
(***************************************************************************)
LEMMA ToldStays ==
  ASSUME Orderly, AllTold, HeardStays,
         \A s \in Rows' : \/ \E r \in Rows : r.table = s.table /\ r.id = s.id
                          \/ s.table \in Watched => Heard(Created(s))'
  PROVE  AllTold'
  <1> SUFFICES ASSUME NEW s \in Rows', s.table \in Watched
               PROVE  Heard(Created(s))'
    BY DEF AllTold, Created
  <1>1. ASSUME NEW r \in Rows, r.table = s.table, r.id = s.id
        PROVE  Heard(Created(s))'
    <2>1. Heard(Created(r))
      BY <1>1 DEF AllTold
    <2>2. Created(r) \in Events
      BY DEF Orderly, Good, Created, Events
    <2>3. Created(s) = Created(r)
      BY <1>1 DEF Created
    <2>4. Heard(Created(r))'
      BY <2>1, <2>2 DEF HeardStays, Created
    <2> QED BY <2>3, <2>4 DEF Created
  <1> QED BY <1>1

SessionKept(w) == Orderly' /\ AllTold' /\ OthersKept(w)

(***************************************************************************)
(* Nothing happens to the rows and the lists; messages may be sent.        *)
(***************************************************************************)
LEMMA QuietKeeps ==
  ASSUME Orderly, AllTold, NEW w \in Workers, RowsKept, UNCHANGED <<tx, queue, committing>>,
         sent \subseteq sent', lost \subseteq lost'
  PROVE  SessionKept(w)
  <1>1. Rows' = Rows
    BY DEF RowsKept, Rows
  <1>2. Orderly'
    BY <1>1 DEF Orderly, RowsKept, Apart, Lists
  <1>3. HeardStays
    BY DEF HeardStays, Heard, Pending
  <1>4. AllTold'
    BY <1>1, <1>3, ToldStays
  <1>5. OthersKept(w)
    BY GrownIfKept DEF OthersKept
  <1> QED BY <1>2, <1>4, <1>5 DEF SessionKept

(***************************************************************************)
(* The transaction is given up.                                            *)
(***************************************************************************)
LEMMA DropKeeps ==
  ASSUME Orderly, AllTold, NEW w \in Workers, RowsKept, tx' = [tx EXCEPT ![w] = {}],
         HeardStays, lost \subseteq lost',
         queue' \in [Workers -> Seq(Events)],
         committing' \subseteq committing, \A v \in committing' : queue'[v] # <<>>
  PROVE  SessionKept(w)
  <1>1. tx'[w] = {} /\ \A v \in Workers \ {w} : tx'[v] = tx[v]
    BY DEF Orderly
  <1>2. \A r : r \in Rows' => r \in Rows
    BY <1>1, InRows, InRowsNext DEF RowsKept
  <1>3. Good(Rows', serial')
    BY <1>2, FewerGood DEF Orderly, RowsKept
  <1>4. \A v \in Workers : Apart(v)'
    BY <1>1 DEF Orderly, Apart, RowsKept
  <1>5. tx' = [v \in Workers |-> tx'[v]]
    BY DEF Orderly
  <1>6. Lists'
    BY <1>1 DEF Orderly, Lists
  <1>7. Orderly'
    BY <1>3, <1>4, <1>5, <1>6 DEF Orderly, RowsKept
  <1>8. AllTold'
    BY <1>2, ToldStays
  <1>9. OthersKept(w)
    BY <1>1, GrownIfKept DEF OthersKept
  <1> QED BY <1>7, <1>8, <1>9 DEF SessionKept

\* A rollback keeps the sessions in order.
LEMMA DiscardKeeps ==
  ASSUME Orderly, AllTold, NEW w \in Workers, Discard(w)
  PROVE  SessionKept(w) /\ tx'[w] = {} /\ RowsKept
  <1>1. RowsKept /\ UNCHANGED <<queue, committing, sent, lost>> /\ tx' = [tx EXCEPT ![w] = {}]
    BY DEF Discard, RowsKept
  <1>2. HeardStays
    BY <1>1 DEF HeardStays, Heard, Pending
  <1>3. /\ queue' \in [Workers -> Seq(Events)] /\ committing' \subseteq committing
        /\ \A v \in committing' : queue'[v] # <<>>
    BY <1>1 DEF Orderly, Lists
  <1>4. SessionKept(w)
    BY <1>1, <1>2, <1>3, DropKeeps
  <1> QED BY <1>1, <1>4 DEF Orderly

(***************************************************************************)
(* A turn of the listener, and its exception.                              *)
(***************************************************************************)
LEMMA ListenerKeeps ==
  ASSUME Orderly, AllTold, NEW w \in Workers, NEW owed,
         Send(w) \/ Requeue(w) \/ DispatchRaises(w, owed)
  PROVE  SessionKept(w) /\ RowsKept /\ tx' = tx
  <1> DEFINE q == queue[w]
  <1>1. /\ w \in committing /\ q # <<>> /\ q \in Seq(Events) /\ tx[w] = {}
        /\ RowsKept /\ tx' = tx /\ committing' \subseteq committing
        /\ sent \subseteq sent' /\ lost \subseteq lost'
    BY DEF Orderly, Lists, Send, Requeue, DispatchRaises, RowsKept
  <1>2. /\ Head(q) \in Events /\ Tail(q) \in Seq(Events) /\ (Tail(q) = <<>> => Len(q) = 1)
        /\ \A e : Among(e, q) => e = Head(q) \/ Among(e, Tail(q))
    BY <1>1, HeadAndTail
  <1>3. /\ Append(Tail(q), Head(q)) \in Seq(Events) /\ Append(Tail(q), Head(q)) # <<>>
        /\ \A e : Among(e, q) => Among(e, Append(Tail(q), Head(q)))
    BY <1>1, Rotated
  <1> HIDE DEF q
  <1>4. PICK p \in Seq(Events) :
          /\ queue' = [queue EXCEPT ![w] = p]
          /\ \A e \in Events : Among(e, q) => e \in sent' \cup lost' \/ Among(e, p)
          /\ w \in committing' => p # <<>>
    <2>1. CASE Send(w)
      <3>1. /\ queue' = [queue EXCEPT ![w] = Tail(q)] /\ sent' = sent \cup {Head(q)}
            /\ committing' = IF Len(q) = 1 THEN committing \ {w} ELSE committing
        BY <2>1 DEF Send, q
      <3> QED BY <1>2, <3>1
    <2>2. CASE Requeue(w)
      <3>1. queue' = [queue EXCEPT ![w] = Append(Tail(q), Head(q))]
        BY <2>2 DEF Requeue, q
      <3> QED BY <1>3, <3>1
    <2>3. CASE DispatchRaises(w, owed)
      <3>1. /\ queue' = [queue EXCEPT ![w] = Tail(q)] /\ lost' = lost \cup {Head(q)} \cup owed
            /\ committing' = committing \ {w}
        BY <2>3 DEF DispatchRaises, q
      <3> QED BY <1>2, <3>1
    <2> QED BY <2>1, <2>2, <2>3
  <1>5. /\ queue' \in [Workers -> Seq(Events)]
        /\ queue'[w] = p /\ \A v \in Workers \ {w} : queue'[v] = queue[v]
    BY <1>4 DEF Orderly, Lists
  <1>6. \A v \in committing' : queue'[v] # <<>>
    BY <1>1, <1>4, <1>5 DEF Orderly, Lists
  <1>7. HeardStays
    BY <1>1, <1>4, ListReplaced DEF Orderly, q
  <1>8. tx' = [tx EXCEPT ![w] = {}]
    BY <1>1 DEF Orderly
  <1>9. SessionKept(w)
    BY <1>1, <1>5, <1>6, <1>7, <1>8, DropKeeps
  <1> QED BY <1>1, <1>9

\* So does the end of a process; what was in its list is lost.
LEMMA DieKeeps ==
  ASSUME Orderly, AllTold, NEW w \in Workers, NEW owed, Die(w, owed)
  PROVE  /\ SessionKept(w) /\ RowsKept /\ tx'[w] = {} /\ w \notin committing'
         /\ sent' = sent /\ lost \cup owed \subseteq lost'
  <1>1. /\ RowsKept /\ tx' = [tx EXCEPT ![w] = {}] /\ queue' = [queue EXCEPT ![w] = <<>>]
        /\ committing' = committing \ {w} /\ sent' = sent
        /\ lost' = lost \cup {queue[w][i] : i \in DOMAIN queue[w]} \cup owed
    BY DEF Die, RowsKept
  <1>2. HeardStays
    <2>1. \A e \in Events : Among(e, queue[w]) => e \in lost'
      BY <1>1 DEF Among
    <2>2. \A e \in Events : e \in sent \cup lost => e \in sent' \cup lost'
      BY <1>1
    <2> QED BY <1>1, <2>1, <2>2, ListReplaced DEF Orderly
  <1>3. /\ queue' \in [Workers -> Seq(Events)]
        /\ \A v \in Workers \ {w} : queue'[v] = queue[v]
    BY <1>1 DEF Orderly, Lists
  <1>4. \A v \in committing' : queue'[v] # <<>>
    BY <1>1, <1>3 DEF Orderly, Lists
  <1>5. SessionKept(w)
    BY <1>1, <1>2, <1>3, <1>4, DropKeeps
  <1> QED BY <1>1, <1>5 DEF Orderly

(***************************************************************************)
(* A row is flushed.                                                       *)
(***************************************************************************)
Fresh(w, r) == IsRow(r) /\ r.id = serial /\ ~Waits(w, r) /\ ~Taken(w, r)

\* A row with the next id that clashes with none goes with all rows.
LEMMA FreshGood ==
  ASSUME Orderly, NEW w \in Workers, NEW r, Fresh(w, r)
  PROVE  Good(Rows \cup {r}, serial + 1) /\ \A s \in Rows : s.id # r.id
  <1>1. \A s \in Rows : ~Clash(r, s)
    BY InRows DEF Fresh, Waits, Taken, Visible
  <1>2. Good(Rows \cup {r}, serial + 1)
    BY <1>1, Added DEF Orderly, Fresh
  <1>3. \A s \in Rows : s.id # r.id
    BY DEF Orderly, Good, Fresh
  <1> QED BY <1>2, <1>3

\* Flushing such a row keeps the sessions in order, and its history is noted.
LEMMA FlushKeeps ==
  ASSUME Orderly, AllTold, NEW w \in Workers, w \notin committing,
         NEW r, Fresh(w, r), Flush(w, r)
  PROVE  SessionKept(w) /\ tx'[w] = tx[w] \cup {r} /\ db' = db
  <1>1. /\ db' = db /\ serial' = serial + 1 /\ UNCHANGED <<committing, sent, lost>>
        /\ tx' = [tx EXCEPT ![w] = @ \cup {r}]
        /\ queue' = [queue EXCEPT ![w] = @ \o Noted("create", r)]
    BY DEF Flush
  <1>2. tx'[w] = tx[w] \cup {r} /\ \A v \in Workers \ {w} : tx'[v] = tx[v]
    BY <1>1 DEF Orderly
  <1>3. \A s : s \in Rows' <=> s \in Rows \cup {r}
    BY <1>1, <1>2, InRows, InRowsNext
  <1>4. Rows' = Rows \cup {r}
    BY <1>3
  <1>5. Good(Rows', serial') /\ \A s \in Rows : s.id # r.id
    BY <1>1, <1>4, FreshGood
  <1>6. \A v \in Workers : Apart(v)'
    <2> SUFFICES ASSUME NEW v \in Workers, NEW t \in tx'[v]
                 PROVE  /\ \A s \in db' : s.id # t.id
                        /\ \A u \in Workers \ {v} : \A s \in tx'[u] : s.id # t.id
      BY DEF Apart
    <2>1. CASE t \in tx[v]
      <3>1. t \in Rows
        BY <2>1, InRows
      <3> QED BY <1>1, <1>2, <1>5, <2>1, <3>1 DEF Orderly, Apart
    <2>2. CASE v = w /\ t = r
      BY <1>1, <1>2, <1>5, <2>2, InRows
    <2> QED BY <1>2, <2>1, <2>2
  <1>7. Noted("create", r) \in Seq(Events)
        /\ (r.table \in Watched => Among(Created(r), Noted("create", r)))
    BY NotedEvents DEF Orderly, Fresh, Created
  <1>8. /\ HeardStays /\ queue' \in [Workers -> Seq(Events)]
        /\ \A v \in Workers : queue[v] # <<>> => queue'[v] # <<>>
        /\ \A e : Among(e, Noted("create", r)) => Heard(e)'
    BY <1>1, <1>7, ListLonger DEF Orderly
  <1>9. Orderly'
    <2>1. Lists'
      BY <1>1, <1>2, <1>8 DEF Orderly, Lists
    <2>2. tx' = [v \in Workers |-> tx'[v]]
      BY <1>1 DEF Orderly
    <2>3. serial' \in Nat \ {0}
      BY <1>1 DEF Orderly
    <2> QED BY <1>5, <1>6, <2>1, <2>2, <2>3 DEF Orderly
  <1>10. AllTold'
    <2>1. r.table \in Watched => Heard(Created(r))'
      BY <1>7, <1>8 DEF Created
    <2> QED BY <1>4, <1>8, <2>1, ToldStays
  <1>11. OthersKept(w)
    BY <1>1, <1>2 DEF OthersKept, Grown, Stays
  <1> QED BY <1>1, <1>2, <1>9, <1>10, <1>11 DEF SessionKept

(***************************************************************************)
(* A commit that leaves the rows in good order.                            *)
(***************************************************************************)
LEMMA CommitKeeps ==
  ASSUME Orderly, AllTold, NEW w \in Workers, w \notin committing,
         NEW rows, NEW new, NEW events \in Seq(Events), Commit(w, rows, new, events),
         serial' \in Nat \ {0}, Good(Rows', serial'),
         \A v \in Workers \ {w} : \A r \in tx[v] : \A s \in rows \cup new : s.id # r.id,
         \A s \in rows : \E r \in Rows : r.table = s.table /\ r.id = s.id,
         \A s \in new : s.table \in Watched => Among(Created(s), events),
         \A r \in db : r.table # "owner" => \E s \in rows : Stays(r, s)
  PROVE  SessionKept(w) /\ tx'[w] = {} /\ db' = rows \cup tx[w] \cup new /\ lost' = lost
  <1>1. /\ db' = rows \cup tx[w] \cup new /\ tx' = [tx EXCEPT ![w] = {}]
        /\ queue' = [queue EXCEPT ![w] = @ \o events] /\ UNCHANGED <<sent, lost>>
        /\ committing' = IF queue'[w] = <<>> THEN committing ELSE committing \cup {w}
    BY DEF Commit
  <1>2. tx'[w] = {} /\ \A v \in Workers \ {w} : tx'[v] = tx[v]
    BY <1>1 DEF Orderly
  <1>3. \A v \in Workers : Apart(v)'
    <2> SUFFICES ASSUME NEW v \in Workers, NEW t \in tx'[v]
                 PROVE  /\ \A s \in db' : s.id # t.id
                        /\ \A u \in Workers \ {v} : \A s \in tx'[u] : s.id # t.id
      BY DEF Apart
    <2>1. v # w /\ t \in tx[v]
      BY <1>2
    <2>2. /\ \A s \in tx[w] : s.id # t.id
          /\ \A u \in Workers \ {v} : \A s \in tx[u] : s.id # t.id
      BY <2>1 DEF Orderly, Apart
    <2>3. \A s \in rows \cup new : s.id # t.id
      BY <2>1
    <2> QED BY <1>1, <1>2, <2>2, <2>3
  <1>4. /\ HeardStays /\ queue' \in [Workers -> Seq(Events)]
        /\ \A v \in Workers : queue[v] # <<>> => queue'[v] # <<>>
        /\ \A e : Among(e, events) => Heard(e)'
    BY <1>1, ListLonger DEF Orderly
  <1>5. Lists'
    BY <1>1, <1>2, <1>4 DEF Orderly, Lists
  <1>6. tx' = [v \in Workers |-> tx'[v]]
    BY <1>1 DEF Orderly
  <1>7. Orderly'
    BY <1>3, <1>5, <1>6 DEF Orderly
  <1>8. AllTold'
    <2>1. \A s \in new : s.table \in Watched => Heard(Created(s))'
      BY <1>4 DEF Created
    <2>2. \A s \in Rows' : s \in rows \/ s \in new \/ s \in Rows
      BY <1>1, <1>2, InRows, InRowsNext
    <2> QED BY <1>4, <2>1, <2>2, ToldStays
  <1>9. OthersKept(w)
    BY <1>1, <1>2 DEF OthersKept, Grown
  <1> QED BY <1>1, <1>2, <1>7, <1>8, <1>9 DEF SessionKept

(***************************************************************************)
(* A commit with a new row, and nothing altered.                           *)
(***************************************************************************)
LEMMA CommitNew ==
  ASSUME Orderly, AllTold, NEW w \in Workers, w \notin committing,
         NEW r, Fresh(w, r), Commit(w, db, {r}, Noted("create", r))
  PROVE  SessionKept(w) /\ tx'[w] = {} /\ db' = db \cup tx[w] \cup {r} /\ lost' = lost
  <1>1. Cardinality({r}) = 1
    BY FS_Singleton
  <1>2. /\ db' = db \cup tx[w] \cup {r} /\ tx' = [tx EXCEPT ![w] = {}]
        /\ serial' = serial + 1
    BY <1>1 DEF Commit
  <1>3. tx'[w] = {} /\ \A v \in Workers \ {w} : tx'[v] = tx[v]
    BY <1>2 DEF Orderly
  <1>4. \A s : s \in Rows' <=> s \in Rows \cup {r}
    BY <1>2, <1>3, InRows, InRowsNext
  <1>5. Rows' = Rows \cup {r}
    BY <1>4
  <1>6. Good(Rows', serial') /\ \A s \in Rows : s.id # r.id
    BY <1>2, <1>5, FreshGood
  <1>7. serial' \in Nat \ {0}
    BY <1>2 DEF Orderly
  <1>8. \A v \in Workers \ {w} : \A t \in tx[v] : \A s \in db \cup {r} : s.id # t.id
    BY <1>6, InRows DEF Orderly, Apart
  <1>9. \A s \in db : s \in Rows
    BY InRows
  <1>10. Noted("create", r) \in Seq(Events)
         /\ (r.table \in Watched => Among(Created(r), Noted("create", r)))
    BY NotedEvents DEF Orderly, Fresh, Created
  <1>11. \A s \in db : s.table # "owner" => \E t \in db : Stays(s, t)
    BY DEF Stays
  <1> QED BY <1>6, <1>7, <1>8, <1>9, <1>10, <1>11, CommitKeeps

(***************************************************************************)
(* A commit that alters rows, or only commits what was flushed.            *)
(***************************************************************************)
LEMMA CommitAltered ==
  ASSUME Orderly, AllTold, NEW w \in Workers, w \notin committing,
         NEW rows, NEW events \in Seq(Events), Commit(w, rows, {}, events),
         \A s \in rows : \E r \in db : Kept(r, s),
         \A r \in db : \E s \in rows : Kept(r, s),
         \A s, t \in rows : s.id = t.id => s = t
  PROVE  SessionKept(w) /\ tx'[w] = {} /\ db' = rows \cup tx[w] /\ lost' = lost
  <1>1. Cardinality({}) = 0
    BY FS_EmptySet
  <1>2. /\ db' = rows \cup tx[w] /\ tx' = [tx EXCEPT ![w] = {}] /\ serial' = serial
    BY <1>1 DEF Commit, Orderly
  <1>3. tx'[w] = {} /\ \A v \in Workers \ {w} : tx'[v] = tx[v]
    BY <1>2 DEF Orderly
  <1>4. \A s : s \in Rows' <=> s \in rows \/ \E v \in Workers : s \in tx[v]
    BY <1>2, <1>3, InRowsNext
  <1>5. \A v \in Workers : \A t \in tx[v] : \A s \in rows : s.id # t.id
    BY DEF Orderly, Apart, Kept
  <1>6. \A s \in Rows' : \E r \in Rows : Kept(r, s)
    <2>1. \A v \in Workers : \A t \in tx[v] : t \in Rows /\ Kept(t, t)
      BY InRows, KeptItself DEF Orderly, Good
    <2> QED BY <1>4, <2>1, InRows
  <1>7. \A s, t \in Rows' : s.id = t.id => s = t
    <2>1. ASSUME NEW u \in Workers, NEW v \in Workers, NEW s \in tx[u], NEW t \in tx[v], s.id = t.id
          PROVE  s = t
      BY <2>1, InRows DEF Orderly, Good
    <2> QED BY <1>4, <1>5, <2>1
  <1>8. Good(Rows', serial')
    BY <1>2, <1>6, <1>7, AlteredGood DEF Orderly
  <1>9. \A s \in rows : \E r \in Rows : r.table = s.table /\ r.id = s.id
    BY InRows DEF Kept
  <1>10. \A r \in db : \E s \in rows : Stays(r, s)
    BY DEF Kept, Stays
  <1>11. serial' \in Nat \ {0}
    BY <1>2 DEF Orderly
  <1>12. SessionKept(w)
    BY <1>5, <1>8, <1>9, <1>10, <1>11, CommitKeeps
  <1> QED BY <1>2, <1>3, <1>12 DEF Commit

-----------------------------------------------------------------------------
(* What a step of a worker has to show *)

(***************************************************************************)
(* The others see no difference in what they rely on.                      *)
(***************************************************************************)
LEMMA NamesStay ==
  ASSUME Grown, NEW v, tx[v] \subseteq db' \cup tx'[v], NEW id,
         NEW table \in {"user", "card", "payment"}, Names(v, id, table)
  PROVE  Names(v, id, table)'
  <1>1. CASE id = 0
    BY <1>1 DEF Names
  <1>2. ASSUME NEW r \in Visible(v), r.id = id, r.table = table
        PROVE  \E s \in db' \cup tx'[v] : s.id = id /\ s.table = table
    <2>1. CASE r \in db
      BY <1>2, <2>1 DEF Grown, Stays
    <2>2. CASE r \in tx[v]
      BY <1>2, <2>2
    <2> QED BY <2>1, <2>2 DEF Visible
  <1> QED BY <1>1, <1>2 DEF Names, Visible

LinkSeen(w, x) ==
    \E l \in Visible(w) : l.table = "link" /\ l.card = x.card /\ l.user = x.user

\* So does the link of a card and a user.
LEMMA LinkStays ==
  ASSUME Grown, NEW v, tx[v] \subseteq db' \cup tx'[v], NEW x, LinkSeen(v, x)
  PROVE  \E l \in db' \cup tx'[v] : l.table = "link" /\ l.card = x.card /\ l.user = x.user
  <1>1. PICK l \in Visible(v) : l.table = "link" /\ l.card = x.card /\ l.user = x.user
    BY DEF LinkSeen
  <1>2. CASE l \in db
    BY <1>1, <1>2 DEF Grown, Stays
  <1>3. CASE l \in tx[v]
    BY <1>1, <1>3
  <1> QED BY <1>2, <1>3 DEF Visible

\* The record of a worker that does not move still fits.
LEMMA OtherFits ==
  ASSUME NEW v \in Workers, Grown, tx'[v] = tx[v], v \in committing' => v \in committing,
         ctx'[v] = ctx[v], Fits(v)
  PROVE  Fits(v)'
  <1>1. tx'[v] = tx[v] /\ Grown /\ (v \in committing' => v \in committing)
    OBVIOUS
  <1>2. FitsOperation(ctx[v])' /\ FitsStep(ctx[v])'
    BY DEF Fits, FitsOperation, FitsStep
  <1>3. SeesRows(v)'
    <2>1. \A id, table : table \in {"user", "card", "payment"} /\ Names(v, id, table)
             => Names(v, id, table)'
      BY <1>1, NamesStay
    <2>2. LinkSeen(v, ctx[v]) => LinkSeen(v, ctx[v])'
      BY <1>1, LinkStays DEF LinkSeen, Visible
    <2>3. SeesRows(v)
      BY DEF Fits
    <2> QED BY <2>1, <2>2, <2>3 DEF SeesRows, LinkSeen, Names
  <1>4. ConsentsFlushed(v)' /\ OwnersDecided(v)'
    BY <1>1 DEF Fits, ConsentsFlushed, OwnersDecided, In
  <1> QED BY <1>1, <1>2, <1>3, <1>4 DEF Fits, Trusted

(***************************************************************************)
(* What the worker owed its users and Hermes is done, lost, or still to be *)
(* done, and what it commits comes with what it owes for it.               *)
(***************************************************************************)
ConsentsHonoured(w) ==
    /\ \A u \in In(db', "user") :
         (\E t \in In(db, "user") : t.id = u.id) \/ Consented(u)'
    /\ ctx[w].pc = "insert_consent" /\ ~Trusted(ctx[w]) =>
         \/ \E c \in In(db', "consent") : c.user = ctx[w].user
         \/ Consent(ctx[w].user) \in lost'
         \/ ctx'[w] = ctx[w]

EnrolmentsHonoured(w) ==
    /\ \A o \in In(db', "owner") :
         o \in db \/ (ctx'[w].pc = "publish" /\ Enrol(o) \in Messages(ctx'[w]))
    /\ sent \subseteq sent'
    /\ ctx[w].pc = "publish" => Messages(ctx[w]) \subseteq sent' \cup lost' \/ ctx'[w] = ctx[w]

StepKeeps(w) ==
    /\ SessionKept(w)
    /\ ctx' = [ctx EXCEPT ![w] = ctx'[w]] /\ ctx'[w] \in Contexts
    /\ served' \in 0..MaxRequests
    /\ Fits(w)'
    /\ ConsentsHonoured(w)
    /\ EnrolmentsHonoured(w)

\* A step that shows all this keeps the invariant.
LEMMA StepIInv ==
  ASSUME IInv, NEW w \in Workers, StepKeeps(w)
  PROVE  IInv'
  <1>1. /\ Orderly' /\ AllTold' /\ OthersKept(w) /\ Grown /\ lost \subseteq lost' /\ sent \subseteq sent'
        /\ served' \in 0..MaxRequests
    BY DEF StepKeeps, SessionKept, OthersKept, EnrolmentsHonoured
  <1>2. /\ ctx' \in [Workers -> Contexts]
        /\ \A v \in Workers \ {w} : ctx'[v] = ctx[v]
    BY DEF StepKeeps, IInv
  <1>3. \A v \in Workers : Fits(v)'
    BY <1>1, <1>2, OtherFits DEF StepKeeps, OthersKept, IInv
  <1>4. AllConsented'
    <2> SUFFICES ASSUME NEW u \in In(db', "user") PROVE Consented(u)'
      BY DEF AllConsented
    <2>1. CASE \E t \in In(db, "user") : t.id = u.id
      <3>1. Consented(u)
        BY <2>1 DEF IInv, AllConsented, Consented
      <3>2. CASE \E c \in In(db, "consent") : c.user = u.id
        <4>1. \E c \in In(db', "consent") : c.user = u.id
          BY <1>1, <3>2 DEF Grown, Stays, In
        <4> QED BY <4>1 DEF Consented, In
      <3>3. CASE Consent(u.id) \in lost
        BY <1>1, <3>3 DEF Consented, Consent
      <3>4. ASSUME NEW v \in Workers, ctx[v].pc = "insert_consent", ctx[v].user = u.id,
                   ~Trusted(ctx[v])
            PROVE  Consented(u)'
        <4>1. CASE ctx'[v] = ctx[v]
          BY <3>4, <4>1 DEF Consented, Trusted
        <4>2. CASE v = w
          <5>1. \/ \E c \in In(db', "consent") : c.user = u.id
                \/ Consent(u.id) \in lost'
                \/ ctx'[v] = ctx[v]
            BY <3>4, <4>2 DEF StepKeeps, ConsentsHonoured
          <5> QED BY <4>1, <5>1 DEF Consented, Consent, In
        <4> QED BY <1>2, <4>1, <4>2
      <3> QED BY <3>1, <3>2, <3>3, <3>4 DEF Consented
    <2> QED BY <2>1 DEF StepKeeps, ConsentsHonoured
  <1>5. PaymentAnnounced'
    <2> SUFFICES ASSUME NEW o \in In(db', "owner")
                 PROVE  \/ Enrol(o) \in sent' \cup lost'
                        \/ \E v \in Workers : ctx'[v].pc = "publish" /\ Enrol(o) \in Messages(ctx'[v])
      BY DEF PaymentAnnounced, Enrol, Messages, Remove
    <2>1. CASE o \in db
      <3>1. \/ Enrol(o) \in sent \cup lost
            \/ \E v \in Workers : ctx[v].pc = "publish" /\ Enrol(o) \in Messages(ctx[v])
        BY <2>1 DEF IInv, PaymentAnnounced, In
      <3>2. ASSUME NEW v \in Workers, ctx[v].pc = "publish", Enrol(o) \in Messages(ctx[v])
            PROVE  ctx'[v] = ctx[v] \/ Enrol(o) \in sent' \cup lost'
        BY <1>2, <3>2 DEF StepKeeps, EnrolmentsHonoured
      <3> QED BY <1>1, <3>1, <3>2
    <2> QED BY <2>1 DEF StepKeeps, EnrolmentsHonoured
  <1> QED BY <1>1, <1>2, <1>3, <1>4, <1>5 DEF IInv

(***************************************************************************)
(* The session of w may have stood still, as far as the rows w sees go.    *)
(***************************************************************************)
Still(w) == SessionKept(w) /\ db' = db /\ tx'[w] = tx[w] /\ sent \subseteq sent'

\* A step that touches no rows and no lists.
LEMMA UnchangedStill ==
  ASSUME IInv, NEW w \in Workers, UNCHANGED <<db, tx, serial, queue, committing>>,
         sent \subseteq sent', lost \subseteq lost'
  PROVE  Still(w)
  BY QuietKeeps DEF IInv, RowsKept, Still

\* A commit of nothing.
LEMMA EmptyCommitStill ==
  ASSUME IInv, NEW w \in Workers, w \notin committing, tx[w] = {},
         NEW events \in Seq(Events), Commit(w, db, {}, events)
  PROVE  Still(w)
  <1>1. \A s \in db : Kept(s, s)
    BY InRows, KeptItself DEF IInv, Orderly, Good
  <1>2. \A s, t \in db : s.id = t.id => s = t
    BY InRows DEF IInv, Orderly, Good
  <1>3. SessionKept(w) /\ tx'[w] = {} /\ db' = db \cup tx[w]
    BY <1>1, <1>2, CommitAltered DEF IInv
  <1> QED BY <1>3 DEF Still, Commit

(***************************************************************************)
(* Every request can be answered at any step, if what it owes is           *)
(* accounted for.                                                          *)
(***************************************************************************)
LEMMA AnswerKeeps ==
  ASSUME IInv, NEW w \in Workers, Still(w), NEW status \in Nat,
         ctx' = [ctx EXCEPT ![w] = Answered(ctx[w], status)], served' = served,
         ctx[w].pc # "idle",
         ctx[w].pc = "publish" => Messages(ctx[w]) \subseteq sent' \cup lost',
         ctx[w].pc = "insert_consent" /\ ~Trusted(ctx[w]) => Consent(ctx[w].user) \in lost'
  PROVE  StepKeeps(w)
  <1> DEFINE x == Answered(ctx[w], status)
  <1>1. /\ ctx[w] \in Contexts /\ ctx'[w] = x /\ x \in Contexts
        /\ x.pc = "respond" /\ x.req = ctx[w].req
    BY DEF IInv, Contexts, Answered, Steps
  <1>2. ctx[w].req \in Requests
    BY DEF IInv, Fits, FitsOperation
  <1> HIDE DEF x
  <1>3. FitsOperation(x) /\ FitsStep(x)
    BY <1>1, <1>2 DEF FitsOperation, FitsStep, LoginSteps, LookUps, TrustedSteps, PaymentSteps,
                      EmailSteps
  <1>4. SeesRows(w)' /\ ConsentsFlushed(w)' /\ OwnersDecided(w)'
    BY <1>1 DEF SeesRows, ConsentsFlushed, OwnersDecided
  <1>5. Fits(w)'
    BY <1>1, <1>3, <1>4 DEF Fits, FitsOperation, FitsStep
  <1>6. ConsentsHonoured(w)
    BY DEF ConsentsHonoured, Still, In
  <1>7. EnrolmentsHonoured(w)
    BY DEF EnrolmentsHonoured, Still, In
  <1>8. ctx' = [ctx EXCEPT ![w] = ctx'[w]]
    BY <1>1 DEF x
  <1> QED BY <1>1, <1>5, <1>6, <1>7, <1>8 DEF StepKeeps, Still, IInv

(***************************************************************************)
(* A worker goes on to a step that fits what it has found.                 *)
(***************************************************************************)
LEMMA MoveKeeps ==
  ASSUME IInv, NEW w \in Workers, Still(w), NEW x \in Contexts,
         ctx' = [ctx EXCEPT ![w] = x], served' = served, x.req = ctx[w].req,
         ctx[w].pc \notin {"idle", "insert_consent", "insert_owner", "decide", "publish", "respond"},
         x.pc \notin {"idle", "respond"},
         FitsOperation(x), FitsStep(x),
         Names(w, x.user, "user"), Names(w, x.card, "card"), Names(w, x.payment, "payment"),
         x.pc = "touch" /\ "activate" \in x.todo => LinkSeen(w, x)
  PROVE  StepKeeps(w)
  <1>1. ctx'[w] = x /\ tx'[w] = tx[w] /\ db' = db /\ Visible(w)' = Visible(w)
    BY DEF IInv, Still, Visible
  <1>2. SeesRows(w)'
    BY <1>1 DEF SeesRows, Names, LinkSeen
  <1>3. /\ \A u \in In(tx[w], "user") : \E c \in In(tx[w], "consent") : c.user = u.id
        /\ In(tx[w], "owner") = {}
        /\ tx[w] # {} => Trusted(x)
    BY DEF IInv, Fits, ConsentsFlushed, OwnersDecided, Trusted
  <1>4. ConsentsFlushed(w)' /\ OwnersDecided(w)'
    BY <1>1, <1>3 DEF ConsentsFlushed, OwnersDecided, In
  <1>5. FitsOperation(ctx[w])' /\ FitsStep(ctx[w])'
    BY <1>1 DEF FitsOperation, FitsStep
  <1>6. Fits(w)'
    BY <1>1, <1>2, <1>3, <1>4, <1>5 DEF Fits, Trusted
  <1>7. ConsentsHonoured(w)
    BY DEF ConsentsHonoured, Still, In
  <1>8. EnrolmentsHonoured(w)
    BY DEF EnrolmentsHonoured, Still, In
  <1> QED BY <1>1, <1>6, <1>7, <1>8 DEF StepKeeps, Still, IInv

(***************************************************************************)
(* A worker inserts a row, in the transaction of create_trusted or in one  *)
(* of its own.  "x" is the record it goes on with.                         *)
(***************************************************************************)
LEMMA InsertKeeps ==
  ASSUME IInv, NEW w \in Workers, w \notin committing, NEW r, Fresh(w, r), NEW x \in Contexts,
         \/ Flush(w, r) /\ (Trusted(x) \/ x.pc = "insert_owner")
         \/ Commit(w, db, {r}, Noted("create", r)) /\ ~Trusted(x),
         ctx' = [ctx EXCEPT ![w] = x], served' = served, x.req = ctx[w].req,
         ctx[w].pc \notin {"idle", "decide", "publish", "respond"},
         x.pc \notin {"idle", "respond"},
         FitsOperation(x), FitsStep(x),
         Names(w, x.user, "user") \/ (r.table = "user" /\ x.user = r.id),
         Names(w, x.card, "card") \/ (r.table = "card" /\ x.card = r.id),
         Names(w, x.payment, "payment") \/ (r.table = "payment" /\ x.payment = r.id),
         x.pc = "touch" /\ "activate" \in x.todo =>
            LinkSeen(w, x) \/ (r.table = "link" /\ r.card = x.card /\ r.user = x.user),
         r.table = "user" => x.pc = "insert_consent" /\ ctx[w].pc # "insert_consent" /\ x.user = r.id,
         ctx[w].pc = "insert_consent" => r.table = "consent" /\ r.user = ctx[w].user,
         r.table = "owner" => /\ r.user = x.user /\ r.payment = x.payment
                              /\ x.pc = IF Trusted(x) THEN "decide" ELSE "publish"
                              /\ Messages(x) = {Enrol(x)}
  PROVE  StepKeeps(w)
  <1>1. /\ SessionKept(w) /\ sent' = sent /\ lost' = lost
        /\ \/ tx'[w] = tx[w] \cup {r} /\ db' = db /\ (Trusted(x) \/ x.pc = "insert_owner")
           \/ tx'[w] = {} /\ db' = db \cup tx[w] \cup {r} /\ ~Trusted(x)
    <2>1. CASE Flush(w, r) /\ (Trusted(x) \/ x.pc = "insert_owner")
      <3>1. SessionKept(w) /\ tx'[w] = tx[w] \cup {r} /\ db' = db
        BY <2>1, FlushKeeps DEF IInv
      <3> QED BY <2>1, <3>1 DEF Flush
    <2>2. CASE Commit(w, db, {r}, Noted("create", r)) /\ ~Trusted(x)
      <3>1. SessionKept(w) /\ tx'[w] = {} /\ db' = db \cup tx[w] \cup {r}
        BY <2>2, CommitNew DEF IInv
      <3> QED BY <2>2, <3>1 DEF Commit
    <2> QED BY <2>1, <2>2
  <1>2. ctx'[w] = x /\ Grown /\ tx[w] \subseteq db' \cup tx'[w] /\ r \in db' \cup tx'[w]
    BY <1>1 DEF IInv, SessionKept, OthersKept
  <1>3. SeesRows(w)'
    <2>1. Names(w, x.user, "user")' /\ Names(w, x.card, "card")' /\ Names(w, x.payment, "payment")'
      <3>1. Names(w, x.user, "user") => Names(w, x.user, "user")'
        BY <1>2, NamesStay
      <3>2. Names(w, x.card, "card") => Names(w, x.card, "card")'
        BY <1>2, NamesStay
      <3>3. Names(w, x.payment, "payment") => Names(w, x.payment, "payment")'
        BY <1>2, NamesStay
      <3>4. /\ r.table = "user" /\ x.user = r.id => Names(w, x.user, "user")'
            /\ r.table = "card" /\ x.card = r.id => Names(w, x.card, "card")'
            /\ r.table = "payment" /\ x.payment = r.id => Names(w, x.payment, "payment")'
        BY <1>2 DEF Names, Visible
      <3> QED BY <3>1, <3>2, <3>3, <3>4
    <2>2. x.pc = "touch" /\ "activate" \in x.todo =>
             \E l \in db' \cup tx'[w] : l.table = "link" /\ l.card = x.card /\ l.user = x.user
      BY <1>2, LinkStays
    <2> QED BY <1>2, <2>1, <2>2 DEF SeesRows, Names, Visible
  <1>4. /\ \A u \in In(tx[w], "user") :
             \/ \E c \in In(tx[w], "consent") : c.user = u.id
             \/ r.table = "consent" /\ r.user = u.id
        /\ In(tx[w], "owner") = {}
    BY DEF IInv, Fits, ConsentsFlushed, OwnersDecided
  <1>5. ConsentsFlushed(w)'
    BY <1>1, <1>2, <1>4 DEF ConsentsFlushed, In
  <1>6. OwnersDecided(w)'
    BY <1>1, <1>2, <1>4 DEF OwnersDecided, In
  <1>7. FitsOperation(ctx[w])' /\ FitsStep(ctx[w])'
    BY <1>2 DEF FitsOperation, FitsStep
  <1>8. Fits(w)'
    BY <1>1, <1>2, <1>3, <1>5, <1>6, <1>7 DEF Fits, Trusted
  <1>9. ConsentsHonoured(w)
    <2>1. ASSUME NEW u \in In(db', "user") PROVE (\E t \in In(db, "user") : t.id = u.id) \/ Consented(u)'
      <3>1. CASE u \in db
        BY <3>1 DEF In
      <3>2. CASE u \in tx[w] /\ db' = db \cup tx[w] \cup {r}
        <4>1. \E c \in In(db', "consent") : c.user = u.id
          BY <1>4, <3>2 DEF In
        <4> QED BY <4>1 DEF Consented, In
      <3>3. CASE u = r /\ ~Trusted(x)
        BY <1>2, <3>3 DEF Consented, Trusted, In
      <3> QED BY <1>1, <3>1, <3>2, <3>3 DEF In
    <2>2. ctx[w].pc = "insert_consent" /\ ~Trusted(ctx[w]) =>
             \E c \in In(db', "consent") : c.user = ctx[w].user
      <3>1. ASSUME ctx[w].pc = "insert_consent", ~Trusted(x)
            PROVE  \E c \in In(db', "consent") : c.user = ctx[w].user
        <4>1. x.pc # "insert_owner" \/ Trusted(x)
          BY <3>1 DEF FitsOperation, Trusted, PaymentSteps, LoginSteps, IInv, Fits
        <4> QED BY <1>1, <3>1 DEF In, FitsOperation, Trusted, PaymentSteps, LoginSteps, IInv, Fits
      <3> QED BY <3>1 DEF Trusted
    <2> QED BY <2>1, <2>2 DEF ConsentsHonoured
  <1>10. EnrolmentsHonoured(w)
    <2>1. r.table = "owner" => Enrol(r) = Enrol(x)
      BY DEF Enrol
    <2>2. ASSUME NEW o \in In(db', "owner"), o \notin db
          PROVE  ctx'[w].pc = "publish" /\ Enrol(o) \in Messages(ctx'[w])
      <3>1. o = r /\ ~Trusted(x) /\ r.table = "owner"
        BY <1>1, <1>4, <2>2 DEF In
      <3> QED BY <1>2, <2>1, <3>1
    <2> QED BY <1>1, <2>2 DEF EnrolmentsHonoured
  <1> QED BY <1>1, <1>2, <1>8, <1>9, <1>10 DEF StepKeeps, IInv

\* What Insert checks is that the row is fresh; it flushes or commits it.
LEMMA InsertFresh ==
  ASSUME NEW w \in Workers, NEW r, IsRow(r), r.id = serial, Insert(w, r),
         NEW x, x.req = ctx[w].req
  PROVE  /\ Fresh(w, r)
         /\ \/ Flush(w, r) /\ Trusted(x)
            \/ Commit(w, db, {r}, Noted("create", r)) /\ ~Trusted(x)
  BY DEF Insert, Fresh, Trusted

(***************************************************************************)
(* A worker without a transaction, and that holds no rows.                 *)
(***************************************************************************)
LEMMA ResetKeeps ==
  ASSUME IInv, NEW w \in Workers, SessionKept(w), RowsKept, tx'[w] = {}, sent \subseteq sent',
         NEW x \in Contexts, ctx' = [ctx EXCEPT ![w] = x], served' = served,
         FitsOperation(x), FitsStep(x), x.user = 0, x.card = 0, x.payment = 0, x.pc # "touch",
         w \notin committing',
         ctx[w].pc = "publish" => Messages(ctx[w]) \subseteq sent' \cup lost',
         ctx[w].pc = "insert_consent" /\ ~Trusted(ctx[w]) => Consent(ctx[w].user) \in lost'
  PROVE  StepKeeps(w)
  <1>1. ctx'[w] = x /\ db' = db
    BY DEF IInv, RowsKept
  <1>2. FitsOperation(ctx[w])' /\ FitsStep(ctx[w])'
    BY <1>1 DEF FitsOperation, FitsStep
  <1>3. SeesRows(w)' /\ ConsentsFlushed(w)' /\ OwnersDecided(w)'
    BY <1>1 DEF SeesRows, Names, ConsentsFlushed, OwnersDecided, In
  <1>4. Fits(w)'
    BY <1>1, <1>2, <1>3 DEF Fits
  <1>5. ConsentsHonoured(w)
    BY <1>1 DEF ConsentsHonoured, In
  <1>6. EnrolmentsHonoured(w)
    BY <1>1 DEF EnrolmentsHonoured, In
  <1> QED BY <1>1, <1>4, <1>5, <1>6 DEF StepKeeps, IInv

(***************************************************************************)
(* What fits each step.                                                    *)
(***************************************************************************)
LEMMA FitsAt ==
  ASSUME NEW x, x.req \in Requests
  PROVE  /\ x.pc = "publish" => FitsOperation(x) /\ FitsStep(x)
         /\ x.pc \in LookUps /\ x.req.op \in {"token", "create_trusted"} /\ x.user = 0
              /\ x.card = 0 /\ x.payment = 0 /\ x.todo = {} => FitsOperation(x) /\ FitsStep(x)
         /\ x.pc = "insert_consent" /\ x.req.op \in {"token", "create_trusted"}
              => FitsOperation(x) /\ FitsStep(x)
         /\ x.pc \in TrustedSteps /\ x.req.op = "create_trusted"
              /\ (x.pc \in {"insert_link", "touch"} => x.card # 0)
              => FitsOperation(x) /\ FitsStep(x)
         /\ x.pc \in PaymentSteps /\ x.req.op \in {"create_trusted", "add_payment"}
              => FitsOperation(x) /\ FitsStep(x)
         /\ x.pc \in EmailSteps /\ x.req.op = "email_update" /\ x.user # 0
              => FitsOperation(x) /\ FitsStep(x)
         /\ x.pc = "find_own" /\ x.req.op \in {"update_payment", "delete_payment"} /\ x.payment # 0
              => FitsOperation(x) /\ FitsStep(x)
  BY DEF FitsOperation, FitsStep, LookUps, LoginSteps, TrustedSteps, PaymentSteps, EmailSteps

-----------------------------------------------------------------------------
(* The login *)

(***************************************************************************)
(* A request can always be answered with an error.                         *)
(***************************************************************************)
LEMMA RefuseKeeps ==
  ASSUME IInv, NEW w \in Workers, NEW status \in Nat, Answer(w, status), UNCHANGED session,
         ctx[w].pc \notin {"idle", "publish", "insert_consent"}
  PROVE  StepKeeps(w)
  <1>1. Still(w)
    BY UnchangedStill DEF session
  <1> QED BY <1>1, AnswerKeeps DEF Answer, Goto, Moves

\* The steps of the login keep the invariant.
LEMMA FindUserKeeps ==
  ASSUME IInv, NEW w \in Workers, FindUser(w)
  PROVE  StepKeeps(w)
  <1> DEFINE x == ctx[w]
             found == UsersOf(w, x.req.ext)
  <1>1. /\ x.pc = "find_user" /\ x \in Contexts /\ Fits(w)
        /\ x.user = 0 /\ x.card = 0 /\ x.payment = 0
        /\ x.req \in Requests /\ x.req.op \in {"token", "create_trusted"} /\ x.todo = {}
    BY DEF FindUser, At, IInv, Fits, FitsOperation, FitsStep, LoginSteps, LookUps
  <1>2. Still(w)
    BY UnchangedStill DEF FindUser, session
  <1>3. \A s \in {409, 400} : Answer(w, s) => StepKeeps(w)
    BY <1>1, RefuseKeeps DEF FindUser
  <1>4. ASSUME Goto(w, [x EXCEPT !.pc = "check_new_email"])
        PROVE  StepKeeps(w)
    <2> DEFINE y == [x EXCEPT !.pc = "check_new_email"]
    <2>1. /\ y \in Contexts /\ y.req = x.req /\ y.pc = "check_new_email"
          /\ y.user = 0 /\ y.card = 0 /\ y.payment = 0 /\ y.todo = {}
      BY <1>1 DEF Contexts, Steps, LookUps, LoginSteps
    <2>2. ctx' = [ctx EXCEPT ![w] = y] /\ served' = served
      BY <1>4 DEF Goto, Moves
    <2> HIDE DEF y
    <2>3. FitsOperation(y) /\ FitsStep(y)
      BY <1>1, <2>1, FitsAt DEF LookUps
    <2>4. Names(w, y.user, "user") /\ Names(w, y.card, "card") /\ Names(w, y.payment, "payment")
      BY <2>1 DEF Names
    <2> QED BY <1>1, <1>2, <2>1, <2>2, <2>3, <2>4, MoveKeeps
  <1>5. ASSUME NEW u \in found, Goto(w, AfterUser([x EXCEPT !.user = u.id]))
        PROVE  StepKeeps(w)
    <2> DEFINE y == AfterUser([x EXCEPT !.user = u.id])
    <2>1. u \in Visible(w) /\ u.table = "user"
      BY DEF UsersOf, In
    <2>2. u.id \in Nat
      BY <2>1, InRows DEF Visible, IInv, Orderly, Good
    <2>3. /\ y \in Contexts /\ y.req = x.req /\ y.user = u.id /\ y.card = 0 /\ y.payment = 0
          /\ y.pc = IF Trusted(x) THEN "check_mid" ELSE "publish"
      BY <1>1, <2>2 DEF Contexts, Steps, TrustedSteps, AfterUser, Trusted
    <2>4. ctx' = [ctx EXCEPT ![w] = y] /\ served' = served
      BY <1>5 DEF Goto, Moves
    <2> HIDE DEF y
    <2>5. FitsOperation(y) /\ FitsStep(y)
      BY <1>1, <2>3, FitsAt DEF TrustedSteps, Trusted
    <2>6. Names(w, y.user, "user") /\ Names(w, y.card, "card") /\ Names(w, y.payment, "payment")
      BY <2>1, <2>3 DEF Names
    <2> QED BY <1>1, <1>2, <2>3, <2>4, <2>5, <2>6, MoveKeeps
  <1>6. \/ Answer(w, 409) \/ Answer(w, 400)
        \/ Goto(w, [x EXCEPT !.pc = "check_new_email"])
        \/ \E u \in found : Goto(w, AfterUser([x EXCEPT !.user = u.id]))
    BY DEF FindUser
  <1> QED BY <1>3, <1>4, <1>5, <1>6

\* An address that is taken, or free.
LEMMA CheckNewEmailKeeps ==
  ASSUME IInv, NEW w \in Workers, CheckNewEmail(w)
  PROVE  StepKeeps(w)
  <1> DEFINE x == ctx[w]
             y == [x EXCEPT !.pc = "insert_user"]
  <1>1. /\ x.pc = "check_new_email" /\ x \in Contexts
        /\ x.user = 0 /\ x.card = 0 /\ x.payment = 0
        /\ x.req \in Requests /\ x.req.op \in {"token", "create_trusted"} /\ x.todo = {}
    BY DEF CheckNewEmail, At, IInv, Fits, FitsOperation, FitsStep, LoginSteps, LookUps
  <1>2. Still(w)
    BY UnchangedStill DEF CheckNewEmail, session
  <1>3. CASE Answer(w, 400)
    <2>1. UNCHANGED session
      BY DEF CheckNewEmail
    <2> QED BY <1>1, <1>3, <2>1, RefuseKeeps
  <1>4. CASE Goto(w, y)
    <2>1. /\ y \in Contexts /\ y.req = x.req /\ y.pc = "insert_user"
          /\ y.user = 0 /\ y.card = 0 /\ y.payment = 0 /\ y.todo = {}
      BY <1>1 DEF Contexts, Steps, LookUps, LoginSteps
    <2>2. ctx' = [ctx EXCEPT ![w] = y] /\ served' = served
      BY <1>4 DEF Goto, Moves
    <2> HIDE DEF y
    <2>3. FitsOperation(y) /\ FitsStep(y)
      BY <1>1, <2>1, FitsAt DEF LookUps
    <2>4. Names(w, y.user, "user") /\ Names(w, y.card, "card") /\ Names(w, y.payment, "payment")
      BY <2>1 DEF Names
    <2> QED BY <1>1, <1>2, <2>1, <2>2, <2>3, <2>4, MoveKeeps
  <1> QED BY <1>3, <1>4 DEF CheckNewEmail

\* A user is inserted, its consent comes next.
LEMMA InsertUserKeeps ==
  ASSUME IInv, NEW w \in Workers, InsertUser(w)
  PROVE  StepKeeps(w)
  <1> DEFINE x == ctx[w]
             r == NewUser(x)
             y == Made([x EXCEPT !.pc = "insert_consent", !.user = serial, !.newUser = TRUE])
  <1>1. /\ x.pc = "insert_user" /\ x \in Contexts /\ w \notin committing
        /\ x.user = 0 /\ x.card = 0 /\ x.payment = 0
        /\ x.req \in Requests /\ x.req.op \in {"token", "create_trusted"}
        /\ serial \in Nat
    BY DEF InsertUser, At, IInv, Orderly, Fits, FitsOperation, FitsStep, LoginSteps, LookUps
  <1>2. IsRow(r) /\ r.id = serial /\ r.table = "user"
    BY DEF IsRow, Columns, NewUser
  <1>3. /\ y \in Contexts /\ y.req = x.req /\ y.pc = "insert_consent"
        /\ y.user = r.id /\ y.card = 0 /\ y.payment = 0
    BY <1>1, <1>2 DEF Contexts, Steps, LoginSteps, Made
  <1>4. ctx' = [ctx EXCEPT ![w] = y] /\ served' = served /\ Insert(w, r)
    BY DEF InsertUser, Goto, Moves
  <1> HIDE DEF y, r
  <1>5. /\ Fresh(w, r)
        /\ \/ Flush(w, r) /\ Trusted(y)
           \/ Commit(w, db, {r}, Noted("create", r)) /\ ~Trusted(y)
    BY <1>2, <1>3, <1>4, InsertFresh
  <1>6. FitsOperation(y) /\ FitsStep(y)
    BY <1>1, <1>3, FitsAt
  <1>7. Names(w, y.card, "card") /\ Names(w, y.payment, "payment")
    BY <1>3 DEF Names
  <1> QED BY <1>1, <1>2, <1>3, <1>4, <1>5, <1>6, <1>7, InsertKeeps

\* The loser of a race gives up its transaction.
LEMMA UserTakenKeeps ==
  ASSUME IInv, NEW w \in Workers, UserTaken(w)
  PROVE  StepKeeps(w)
  <1> DEFINE x == ctx[w]
             y == [x EXCEPT !.pc = "reselect"]
  <1>1. /\ x.pc = "insert_user" /\ x \in Contexts /\ w \notin committing
        /\ x.user = 0 /\ x.card = 0 /\ x.payment = 0 /\ x.todo = {}
        /\ x.req \in Requests /\ x.req.op \in {"token", "create_trusted"}
    BY DEF UserTaken, At, IInv, Orderly, Fits, FitsOperation, FitsStep, LoginSteps, LookUps
  <1>2. SessionKept(w) /\ tx'[w] = {} /\ RowsKept
    BY DiscardKeeps DEF UserTaken, IInv
  <1>3. /\ y \in Contexts /\ y.req = x.req /\ y.pc = "reselect"
        /\ y.user = 0 /\ y.card = 0 /\ y.payment = 0 /\ y.todo = {}
    BY <1>1 DEF Contexts, Steps, LoginSteps, LookUps
  <1>4. ctx' = [ctx EXCEPT ![w] = y] /\ served' = served
    BY DEF UserTaken, Goto, Moves
  <1>5. w \notin committing' /\ sent' = sent
    BY <1>1 DEF UserTaken, Discard
  <1> HIDE DEF y
  <1>6. FitsOperation(y) /\ FitsStep(y)
    BY <1>1, <1>3, FitsAt DEF LookUps
  <1> QED BY <1>1, <1>2, <1>3, <1>4, <1>5, <1>6, ResetKeeps

\* And goes on with the user of the winner.
LEMMA ReselectKeeps ==
  ASSUME IInv, NEW w \in Workers, Reselect(w)
  PROVE  StepKeeps(w)
  <1> DEFINE x == ctx[w]
             found == UsersOf(w, x.req.ext)
  <1>1. /\ x.pc = "reselect" /\ x \in Contexts
        /\ x.user = 0 /\ x.card = 0 /\ x.payment = 0
        /\ x.req \in Requests /\ x.req.op \in {"token", "create_trusted"}
    BY DEF Reselect, At, IInv, Fits, FitsOperation, FitsStep, LoginSteps, LookUps
  <1>2. Still(w)
    BY UnchangedStill DEF Reselect, session
  <1>3. CASE Answer(w, 500)
    <2>1. UNCHANGED session
      BY DEF Reselect
    <2> QED BY <1>1, <1>3, <2>1, RefuseKeeps
  <1>4. ASSUME NEW u \in found, Goto(w, AfterUser([x EXCEPT !.user = u.id, !.newUser = TRUE]))
        PROVE  StepKeeps(w)
    <2> DEFINE y == AfterUser([x EXCEPT !.user = u.id, !.newUser = TRUE])
    <2>1. u \in Visible(w) /\ u.table = "user"
      BY DEF UsersOf, In
    <2>2. u.id \in Nat
      BY <2>1, InRows DEF Visible, IInv, Orderly, Good
    <2>3. /\ y \in Contexts /\ y.req = x.req /\ y.user = u.id /\ y.card = 0 /\ y.payment = 0
          /\ y.pc = IF Trusted(x) THEN "check_mid" ELSE "publish"
      BY <1>1, <2>2 DEF Contexts, Steps, TrustedSteps, AfterUser, Trusted
    <2>4. ctx' = [ctx EXCEPT ![w] = y] /\ served' = served
      BY <1>4 DEF Goto, Moves
    <2> HIDE DEF y
    <2>5. FitsOperation(y) /\ FitsStep(y)
      BY <1>1, <2>3, FitsAt DEF TrustedSteps, Trusted
    <2>6. Names(w, y.user, "user") /\ Names(w, y.card, "card") /\ Names(w, y.payment, "payment")
      BY <2>1, <2>3 DEF Names
    <2> QED BY <1>1, <1>2, <2>3, <2>4, <2>5, <2>6, MoveKeeps
  <1> QED BY <1>3, <1>4 DEF Reselect

\* The consent follows the user, in the same transaction or in its own.
LEMMA InsertConsentKeeps ==
  ASSUME IInv, NEW w \in Workers, InsertConsent(w)
  PROVE  StepKeeps(w)
  <1> DEFINE x == ctx[w]
             r == [table |-> "consent", id |-> serial, user |-> x.user]
             y == AfterUser(Made(x))
  <1>1. /\ x.pc = "insert_consent" /\ x \in Contexts /\ w \notin committing
        /\ x.req \in Requests /\ x.req.op \in {"token", "create_trusted"}
        /\ Names(w, x.user, "user") /\ Names(w, x.card, "card") /\ Names(w, x.payment, "payment")
        /\ serial \in Nat
    BY DEF InsertConsent, At, IInv, Orderly, Fits, FitsOperation, LoginSteps, SeesRows
  <1>2. IsRow(r) /\ r.id = serial /\ r.table = "consent" /\ r.user = x.user
    BY DEF IsRow, Columns
  <1>3. /\ y \in Contexts /\ y.req = x.req
        /\ y.pc = IF Trusted(x) THEN "check_mid" ELSE "publish"
        /\ y.user = x.user /\ y.card = x.card /\ y.payment = x.payment
    BY <1>1 DEF Contexts, Steps, TrustedSteps, Made, AfterUser, Trusted
  <1>4. ctx' = [ctx EXCEPT ![w] = y] /\ served' = served /\ Insert(w, r)
    BY DEF InsertConsent, Goto, Moves
  <1> HIDE DEF y, r
  <1>5. /\ Fresh(w, r)
        /\ \/ Flush(w, r) /\ Trusted(y)
           \/ Commit(w, db, {r}, Noted("create", r)) /\ ~Trusted(y)
    BY <1>2, <1>3, <1>4, InsertFresh
  <1>6. FitsOperation(y) /\ FitsStep(y)
    BY <1>1, <1>3, FitsAt DEF TrustedSteps, Trusted
  <1> QED BY <1>1, <1>2, <1>3, <1>4, <1>5, <1>6, InsertKeeps

\* All of the login.
LEMMA LoginKeeps ==
  ASSUME IInv, NEW w \in Workers, Login(w)
  PROVE  StepKeeps(w)
  BY FindUserKeeps, CheckNewEmailKeeps, InsertUserKeeps, UserTakenKeeps, ReselectKeeps,
     InsertConsentKeeps DEF Login

-----------------------------------------------------------------------------
(* The trusted add *)

\* What a step of create_trusted starts from.
Composing(w, pc) ==
    LET x == ctx[w] IN
    /\ x.pc = pc /\ x \in Contexts /\ w \notin committing
    /\ x.req \in Requests /\ x.req.op = "create_trusted"
    /\ Names(w, x.user, "user") /\ Names(w, x.card, "card") /\ Names(w, x.payment, "payment")
    /\ serial \in Nat \ {0}

\* The invariant gives it.
LEMMA ComposingNow ==
  ASSUME IInv, NEW w \in Workers, NEW pc \in TrustedSteps, At(w, pc)
  PROVE  Composing(w, pc)
  BY DEF Composing, At, IInv, Orderly, Fits, FitsOperation, SeesRows, TrustedSteps

\* The steps of the trusted add keep the invariant.
LEMMA CheckMidKeeps ==
  ASSUME IInv, NEW w \in Workers, CheckMid(w)
  PROVE  StepKeeps(w)
  <1> DEFINE x == ctx[w]
             y == [x EXCEPT !.pc = "find_card"]
  <1>1. Composing(w, "check_mid") /\ UNCHANGED session
    BY ComposingNow DEF CheckMid, TrustedSteps
  <1>2. Still(w)
    BY <1>1, UnchangedStill DEF session
  <1>3. CASE Answer(w, 409)
    BY <1>1, <1>3, RefuseKeeps DEF Composing
  <1>4. CASE Goto(w, y)
    <2>1. /\ y \in Contexts /\ y.req = x.req /\ y.pc = "find_card"
          /\ y.user = x.user /\ y.card = x.card /\ y.payment = x.payment
      BY <1>1 DEF Contexts, Steps, TrustedSteps, Composing
    <2>2. ctx' = [ctx EXCEPT ![w] = y] /\ served' = served
      BY <1>4 DEF Goto, Moves
    <2> HIDE DEF y
    <2>3. FitsOperation(y) /\ FitsStep(y)
      BY <1>1, <2>1, FitsAt DEF TrustedSteps, Composing
    <2> QED BY <1>1, <1>2, <2>1, <2>2, <2>3, MoveKeeps DEF Composing
  <1> QED BY <1>3, <1>4 DEF CheckMid

\* A card is found: it is refused, or linked, or brought up to date.
LEMMA UseCardKeeps ==
  ASSUME IInv, NEW w \in Workers, Composing(w, "find_card"), UNCHANGED session,
         NEW c \in FoundCards(w), UseCard(w, c)
  PROVE  StepKeeps(w)
  <1> DEFINE x == [ctx[w] EXCEPT !.card = c.id]
             own == {l \in In(Visible(w), "link") : l.card = c.id /\ l.user = x.user}
  <1>1. Still(w)
    BY UnchangedStill DEF session
  <1>2. c \in Visible(w) /\ c.table = "card" /\ c.id \in Nat \ {0}
    BY InRows DEF FoundCards, In, Visible, IInv, Orderly, Good
  <1>3. /\ x \in Contexts /\ x.req = ctx[w].req /\ x.card = c.id
        /\ x.user = ctx[w].user /\ x.payment = ctx[w].payment
    BY <1>2 DEF Composing, Contexts
  <1>4. Names(w, x.card, "card")
    BY <1>2, <1>3 DEF Names
  <1>5. ToDate(c) \subseteq {"date"}
    BY DEF ToDate
  <1>6. CASE Answer(w, 409)
    BY <1>6, RefuseKeeps DEF Composing
  <1>7. CASE Goto(w, [x EXCEPT !.pc = "insert_link", !.todo = ToDate(c)])
    <2> DEFINE y == [x EXCEPT !.pc = "insert_link", !.todo = ToDate(c)]
    <2> HIDE DEF x
    <2>1. /\ y \in Contexts /\ y.req = x.req /\ y.pc = "insert_link"
          /\ y.user = x.user /\ y.card = x.card /\ y.payment = x.payment
      BY <1>3, <1>5 DEF Contexts, Steps, TrustedSteps
    <2>2. ctx' = [ctx EXCEPT ![w] = y] /\ served' = served
      BY <1>7 DEF Goto, Moves
    <2> HIDE DEF y
    <2>3. FitsOperation(y) /\ FitsStep(y)
      BY <1>2, <1>3, <2>1, FitsAt DEF TrustedSteps, Composing
    <2> QED BY <1>1, <1>3, <1>4, <2>1, <2>2, <2>3, MoveKeeps DEF Composing
  <1>8. ASSUME NEW l \in own, NEW todo \in SUBSET {"date", "activate"},
               Goto(w, [x EXCEPT !.todo = todo,
                                 !.pc = IF todo = {} THEN "find_payment" ELSE "touch"])
        PROVE  StepKeeps(w)
    <2> DEFINE y == [x EXCEPT !.todo = todo,
                              !.pc = IF todo = {} THEN "find_payment" ELSE "touch"]
    <2>1. LinkSeen(w, x)
      BY <1>3 DEF LinkSeen, In
    <2> HIDE DEF x
    <2>2. /\ y \in Contexts /\ y.req = x.req /\ y.pc \in {"find_payment", "touch"}
          /\ y.user = x.user /\ y.card = x.card /\ y.payment = x.payment
      BY <1>3 DEF Contexts, Steps, TrustedSteps, PaymentSteps
    <2>3. ctx' = [ctx EXCEPT ![w] = y] /\ served' = served
      BY <1>8 DEF Goto, Moves
    <2> HIDE DEF y
    <2>4. FitsOperation(y) /\ FitsStep(y)
      BY <1>2, <1>3, <2>2, FitsAt DEF TrustedSteps, PaymentSteps, Composing
    <2>5. LinkSeen(w, y)
      BY <2>1, <2>2 DEF LinkSeen
    <2> QED BY <1>1, <1>3, <1>4, <2>2, <2>3, <2>4, <2>5, MoveKeeps DEF Composing
  <1>9. \/ Answer(w, 409)
        \/ Goto(w, [x EXCEPT !.pc = "insert_link", !.todo = ToDate(c)])
        \/ \E l \in own : \E todo \in SUBSET {"date", "activate"} :
             Goto(w, [x EXCEPT !.todo = todo,
                               !.pc = IF todo = {} THEN "find_payment" ELSE "touch"])
    <2>1. \A l : ToDate(c) \cup (IF l.active THEN {} ELSE {"activate"})
                    \in SUBSET {"date", "activate"}
      BY <1>5
    <2> QED BY <2>1, Zenon DEF UseCard
  <1> QED BY <1>6, <1>7, <1>8, <1>9

\* With the search for the card.
LEMMA FindCardKeeps ==
  ASSUME IInv, NEW w \in Workers, FindCard(w)
  PROVE  StepKeeps(w)
  <1> DEFINE x == ctx[w]
             y == [x EXCEPT !.pc = "insert_card"]
  <1>1. Composing(w, "find_card") /\ UNCHANGED session
    BY ComposingNow DEF FindCard, TrustedSteps
  <1>2. Still(w)
    BY <1>1, UnchangedStill DEF session
  <1>3. CASE Answer(w, 500)
    BY <1>1, <1>3, RefuseKeeps DEF Composing
  <1>4. CASE Goto(w, y)
    <2>1. /\ y \in Contexts /\ y.req = x.req /\ y.pc = "insert_card"
          /\ y.user = x.user /\ y.card = x.card /\ y.payment = x.payment
      BY <1>1 DEF Contexts, Steps, TrustedSteps, Composing
    <2>2. ctx' = [ctx EXCEPT ![w] = y] /\ served' = served
      BY <1>4 DEF Goto, Moves
    <2> HIDE DEF y
    <2>3. FitsOperation(y) /\ FitsStep(y)
      BY <1>1, <2>1, FitsAt DEF TrustedSteps, Composing
    <2> QED BY <1>1, <1>2, <2>1, <2>2, <2>3, MoveKeeps DEF Composing
  <1>5. ASSUME NEW c \in FoundCards(w), UseCard(w, c) PROVE StepKeeps(w)
    BY <1>1, <1>5, UseCardKeeps
  <1> QED BY <1>3, <1>4, <1>5 DEF FindCard

\* A card is flushed, the link to it comes next.
LEMMA InsertCardKeeps ==
  ASSUME IInv, NEW w \in Workers, InsertCard(w)
  PROVE  StepKeeps(w)
  <1> DEFINE x == ctx[w]
             r == [table |-> "card", id |-> serial, key |-> x.req.key, mid |-> x.req.mid,
                   dated |-> TRUE]
             y == Made([x EXCEPT !.pc = "insert_link", !.card = serial])
  <1>1. Composing(w, "insert_card")
    BY ComposingNow DEF InsertCard, TrustedSteps
  <1>2. IsRow(r) /\ r.id = serial /\ r.table = "card"
    BY DEF IsRow, Columns
  <1>3. /\ y \in Contexts /\ y.req = x.req /\ y.pc = "insert_link"
        /\ y.user = x.user /\ y.card = r.id /\ y.payment = x.payment
    BY <1>1, <1>2 DEF Contexts, Steps, TrustedSteps, Made, Composing
  <1>4. ctx' = [ctx EXCEPT ![w] = y] /\ served' = served /\ Insert(w, r)
    BY DEF InsertCard, Goto, Moves
  <1> HIDE DEF y, r
  <1>5. /\ Fresh(w, r)
        /\ \/ Flush(w, r) /\ Trusted(y)
           \/ Commit(w, db, {r}, Noted("create", r)) /\ ~Trusted(y)
    BY <1>2, <1>3, <1>4, InsertFresh
  <1>6. FitsOperation(y) /\ FitsStep(y)
    BY <1>1, <1>2, <1>3, FitsAt DEF TrustedSteps, Composing
  <1> QED BY <1>1, <1>2, <1>3, <1>4, <1>5, <1>6, InsertKeeps DEF Composing

\* The link is flushed, or is there already.
LEMMA InsertLinkKeeps ==
  ASSUME IInv, NEW w \in Workers, InsertLink(w)
  PROVE  StepKeeps(w)
  <1> DEFINE x == ctx[w]
             r == NewLink(x)
             y == Made([x EXCEPT !.newCard = TRUE,
                                 !.pc = IF x.todo = {} THEN "find_payment" ELSE "touch"])
  <1>1. Composing(w, "insert_link") /\ x.card # 0
    BY ComposingNow DEF InsertLink, TrustedSteps, At, IInv, Fits, FitsStep
  <1>2. CASE Insert(w, r) /\ Goto(w, y)
    <2>1. /\ IsRow(r) /\ r.id = serial /\ r.table = "link"
          /\ r.card = x.card /\ r.user = x.user
      BY DEF IsRow, Columns, NewLink
    <2>2. /\ y \in Contexts /\ y.req = x.req /\ y.pc \in {"find_payment", "touch"}
          /\ y.user = x.user /\ y.card = x.card /\ y.payment = x.payment
      BY <1>1 DEF Contexts, Steps, TrustedSteps, PaymentSteps, Made, Composing
    <2>3. ctx' = [ctx EXCEPT ![w] = y] /\ served' = served /\ Insert(w, r)
      BY <1>2 DEF Goto, Moves
    <2> HIDE DEF y, r
    <2>4. /\ Fresh(w, r)
          /\ \/ Flush(w, r) /\ Trusted(y)
             \/ Commit(w, db, {r}, Noted("create", r)) /\ ~Trusted(y)
      BY <2>1, <2>2, <2>3, InsertFresh
    <2>5. FitsOperation(y) /\ FitsStep(y)
      BY <1>1, <2>2, FitsAt DEF TrustedSteps, PaymentSteps, Composing
    <2> QED BY <1>1, <2>1, <2>2, <2>3, <2>4, <2>5, InsertKeeps DEF Composing
  <1>3. CASE Answer(w, 422) /\ UNCHANGED session
    BY <1>1, <1>3, RefuseKeeps DEF Composing
  <1> QED BY <1>2, <1>3 DEF InsertLink

(***************************************************************************)
(* The shared transaction is committed, with rows altered or not.          *)
(***************************************************************************)
LEMMA SettleKeeps ==
  ASSUME IInv, NEW w \in Workers, w \notin committing,
         NEW rows, NEW events \in Seq(Events), Commit(w, rows, {}, events),
         \A s \in rows : \E r \in db : Kept(r, s),
         \A r \in db : \E s \in rows : Kept(r, s),
         \A s, t \in rows : s.id = t.id => s = t,
         NEW y \in Contexts, ctx' = [ctx EXCEPT ![w] = y], served' = served, y.req = ctx[w].req,
         ctx[w].pc \in {"touch", "decide"},
         y.pc = IF ctx[w].pc = "touch" THEN "find_payment" ELSE "publish",
         FitsOperation(y), FitsStep(y),
         y.user = ctx[w].user, y.card = ctx[w].card, y.payment = ctx[w].payment,
         Trusted(y)
  PROVE  StepKeeps(w)
  <1>1. SessionKept(w) /\ tx'[w] = {} /\ db' = rows \cup tx[w] /\ lost' = lost /\ sent' = sent
    BY CommitAltered DEF IInv, Commit
  <1>2. ctx'[w] = y /\ Grown /\ tx[w] \subseteq db' \cup tx'[w]
    BY <1>1 DEF IInv, SessionKept, OthersKept
  <1>3. SeesRows(w)'
    <2>1. Names(w, y.user, "user") /\ Names(w, y.card, "card") /\ Names(w, y.payment, "payment")
      BY DEF IInv, Fits, SeesRows
    <2>2. Names(w, y.user, "user")' /\ Names(w, y.card, "card")' /\ Names(w, y.payment, "payment")'
      <3>1. Names(w, y.user, "user")'
        BY <1>2, <2>1, NamesStay
      <3>2. Names(w, y.card, "card")'
        BY <1>2, <2>1, NamesStay
      <3>3. Names(w, y.payment, "payment")'
        BY <1>2, <2>1, NamesStay
      <3> QED BY <3>1, <3>2, <3>3
    <2> QED BY <1>2, <2>2 DEF SeesRows, Names
  <1>4. ConsentsFlushed(w)' /\ OwnersDecided(w)'
    BY <1>1 DEF ConsentsFlushed, OwnersDecided, In
  <1>5. FitsOperation(ctx[w])' /\ FitsStep(ctx[w])'
    BY <1>2 DEF FitsOperation, FitsStep
  <1>6. Fits(w)'
    BY <1>1, <1>2, <1>3, <1>4, <1>5 DEF Fits
  <1>7. ConsentsHonoured(w)
    <2>1. ASSUME NEW u \in In(db', "user")
          PROVE  (\E t \in In(db, "user") : t.id = u.id) \/ Consented(u)'
      <3>1. CASE u \in rows
        BY <3>1 DEF In, Kept
      <3>2. CASE u \in tx[w]
        <4>1. \E c \in In(db', "consent") : c.user = u.id
          BY <1>1, <3>2 DEF In, IInv, Fits, ConsentsFlushed
        <4> QED BY <4>1 DEF Consented, In
      <3> QED BY <1>1, <3>1, <3>2 DEF In
    <2> QED BY <2>1 DEF ConsentsHonoured
  <1>8. EnrolmentsHonoured(w)
    <2>1. ASSUME NEW o \in In(db', "owner"), o \notin db
          PROVE  ctx'[w].pc = "publish" /\ Enrol(o) \in Messages(ctx'[w])
      <3>1. o \in tx[w] /\ o.table = "owner"
        BY <1>1, <2>1 DEF In, Kept
      <3>2. ctx[w].pc = "decide" /\ o.user = y.user /\ o.payment = y.payment
        BY <3>1 DEF In, IInv, Fits, OwnersDecided
      <3>3. Messages(y) = {Enrol(y)} /\ Enrol(y) = Enrol(o)
        BY <3>2 DEF Messages, Enrol, Trusted
      <3> QED BY <1>2, <3>2, <3>3
    <2> QED BY <1>1, <2>1 DEF EnrolmentsHonoured
  <1> QED BY <1>1, <1>2, <1>6, <1>7, <1>8 DEF StepKeeps, IInv

\* The second commit alters columns that no unique index reads.
LEMMA TouchedKept ==
  ASSUME NEW x, NEW r, IsRow(r)
  PROVE  Kept(r, Touched(x, r))
  <1>1. CASE r.table = "card" /\ r.id = x.card /\ "date" \in x.todo
    <2>1. Touched(x, r) = [r EXCEPT !.dated = TRUE]
      BY <1>1 DEF Touched
    <2> QED BY <1>1, <2>1, Dated
  <1>2. CASE /\ r.table = "link" /\ r.card = x.card /\ r.user = x.user /\ "activate" \in x.todo
    <2>1. Touched(x, r) = [r EXCEPT !.active = TRUE]
      BY <1>2 DEF Touched
    <2> QED BY <1>2, <2>1, Activated
  <1>3. CASE /\ ~(r.table = "card" /\ r.id = x.card /\ "date" \in x.todo)
             /\ ~(r.table = "link" /\ r.card = x.card /\ r.user = x.user /\ "activate" \in x.todo)
    <2>1. Touched(x, r) = r
      BY <1>3 DEF Touched
    <2> QED BY <2>1, KeptItself
  <1> QED BY <1>1, <1>2, <1>3

\* So it commits the shared transaction in good order.
LEMMA TouchKeeps ==
  ASSUME IInv, NEW w \in Workers, Touch(w)
  PROVE  StepKeeps(w)
  <1> DEFINE x == ctx[w]
             y == [x EXCEPT !.pc = "find_payment"]
             link == CHOOSE l \in Visible(w) :
                       l.table = "link" /\ l.card = x.card /\ l.user = x.user
             card == Row(w, "card", x.card)
             rows == {Touched(x, r) : r \in db}
             events == (IF "activate" \in x.todo THEN Noted("update", link) ELSE <<>>) \o
                       (IF "date" \in x.todo THEN Noted("update", card) ELSE <<>>)
  <1>1. Composing(w, "touch") /\ x.card # 0 /\ ("activate" \in x.todo => LinkSeen(w, x))
    BY ComposingNow DEF Touch, TrustedSteps, At, IInv, Fits, FitsStep, SeesRows, LinkSeen
  <1>2. \A r \in Visible(w) : r.id \in Nat
    BY InRows DEF Visible, IInv, Orderly, Good
  <1>3. "activate" \in x.todo => link.id \in Nat
    <2>1. LinkSeen(w, x) => link \in Visible(w)
      BY DEF LinkSeen
    <2> QED BY <1>1, <1>2, <2>1
  <1>4. card.id \in Nat
    <2>1. \E r \in Visible(w) : r.table = "card" /\ r.id = x.card
      BY <1>1 DEF Composing, Names
    <2>2. card \in Visible(w)
      BY <2>1 DEF Row
    <2> QED BY <1>2, <2>2
  <1>5. Commit(w, rows, {}, events) /\ Goto(w, y)
    BY DEF Touch
  <1>6. events \in Seq(Events)
    <2> HIDE DEF link, card
    <2>1. \A k : k.id \in Nat => Noted("update", k) \in Seq(Events)
      BY NotedEvents
    <2>2. <<>> \in Seq(Events)
      OBVIOUS
    <2>3. \A p, q \in Seq(Events) : p \o q \in Seq(Events)
      OBVIOUS
    <2> QED BY <1>3, <1>4, <2>1, <2>2, <2>3
  <1>7. \A r \in db : IsRow(r) /\ Kept(r, Touched(x, r))
    BY TouchedKept, InRows DEF IInv, Orderly, Good
  <1>8. \A s \in rows : \E r \in db : Kept(r, s)
    BY <1>7
  <1>9. \A r \in db : \E s \in rows : Kept(r, s)
    BY <1>7
  <1>10. \A s, t \in rows : s.id = t.id => s = t
    <2>1. \A r, q \in db : r.id = q.id => r = q
      BY InRows DEF IInv, Orderly, Good
    <2>2. \A r \in db : Touched(x, r).id = r.id
      BY <1>7 DEF Kept
    <2> QED BY <2>1, <2>2
  <1>11. /\ y \in Contexts /\ y.req = x.req /\ y.pc = "find_payment"
         /\ y.user = x.user /\ y.card = x.card /\ y.payment = x.payment
    BY <1>1 DEF Contexts, Steps, PaymentSteps, Composing
  <1>12. ctx' = [ctx EXCEPT ![w] = y] /\ served' = served
    BY <1>5 DEF Goto, Moves
  <1> HIDE DEF y, rows, events
  <1>13. FitsOperation(y) /\ FitsStep(y) /\ Trusted(y)
    BY <1>1, <1>11, FitsAt DEF PaymentSteps, Composing, Trusted
  <1> QED BY <1>1, <1>5, <1>6, <1>8, <1>9, <1>10, <1>11, <1>12, <1>13, SettleKeeps DEF Composing

\* All of the trusted add.
LEMMA TrustedAddKeeps ==
  ASSUME IInv, NEW w \in Workers, TrustedAdd(w)
  PROVE  StepKeeps(w)
  BY CheckMidKeeps, FindCardKeeps, InsertCardKeeps, InsertLinkKeeps, TouchKeeps DEF TrustedAdd

-----------------------------------------------------------------------------
(* Payment accounts *)

\* What a step of the payment account handler starts from.
Paying(w, pc) ==
    LET x == ctx[w] IN
    /\ x.pc = pc /\ x \in Contexts /\ w \notin committing
    /\ x.req \in Requests /\ x.req.op \in {"create_trusted", "add_payment"}
    /\ Names(w, x.user, "user") /\ Names(w, x.card, "card") /\ Names(w, x.payment, "payment")
    /\ serial \in Nat \ {0}
    /\ Trusted(x) \/ tx[w] = {} \/ pc = "insert_owner"

\* The invariant gives it.
LEMMA PayingNow ==
  ASSUME IInv, NEW w \in Workers, NEW pc \in PaymentSteps, At(w, pc)
  PROVE  Paying(w, pc)
  BY DEF Paying, At, IInv, Orderly, Fits, FitsOperation, SeesRows, PaymentSteps

\* An account is found or not, in the wallet or not.
LEMMA FindPaymentKeeps ==
  ASSUME IInv, NEW w \in Workers, FindPayment(w)
  PROVE  StepKeeps(w)
  <1> DEFINE x == ctx[w]
             found == {p \in In(Visible(w), "payment") : p.print = x.req.print /\ p.live}
             owned == {p \in found : \E o \in In(Visible(w), "owner") :
                                        o.payment = p.id /\ o.user = x.user}
  <1>1. Paying(w, "find_payment")
    BY PayingNow DEF FindPayment, PaymentSteps
  <1>2. UNCHANGED session => Still(w)
    BY UnchangedStill DEF session
  <1>3. CASE Goto(w, [x EXCEPT !.pc = "insert_payment"]) /\ UNCHANGED session
    <2> DEFINE y == [x EXCEPT !.pc = "insert_payment"]
    <2>1. /\ y \in Contexts /\ y.req = x.req /\ y.pc = "insert_payment"
          /\ y.user = x.user /\ y.card = x.card /\ y.payment = x.payment
      BY <1>1 DEF Contexts, Steps, PaymentSteps, Paying
    <2>2. ctx' = [ctx EXCEPT ![w] = y] /\ served' = served
      BY <1>3 DEF Goto, Moves
    <2> HIDE DEF y
    <2>3. FitsOperation(y) /\ FitsStep(y)
      BY <1>1, <2>1, FitsAt DEF PaymentSteps, Paying
    <2> QED BY <1>1, <1>2, <1>3, <2>1, <2>2, <2>3, MoveKeeps DEF Paying
  <1>4. ASSUME NEW p \in found PROVE p \in Visible(w) /\ p.table = "payment" /\ p.id \in Nat
    <2>1. p \in Visible(w) /\ p.table = "payment"
      BY DEF In
    <2> QED BY <2>1, InRows DEF Visible, IInv, Orderly, Good
  <1>5. ASSUME NEW p \in found, Goto(w, [x EXCEPT !.pc = "insert_owner", !.payment = p.id]),
               UNCHANGED session
        PROVE  StepKeeps(w)
    <2> DEFINE y == [x EXCEPT !.pc = "insert_owner", !.payment = p.id]
    <2>1. /\ y \in Contexts /\ y.req = x.req /\ y.pc = "insert_owner"
          /\ y.user = x.user /\ y.card = x.card /\ y.payment = p.id
      BY <1>1, <1>4 DEF Contexts, Steps, PaymentSteps, Paying
    <2>2. ctx' = [ctx EXCEPT ![w] = y] /\ served' = served
      BY <1>5 DEF Goto, Moves
    <2>3. Names(w, p.id, "payment")
      BY <1>4 DEF Names
    <2> HIDE DEF y
    <2>4. FitsOperation(y) /\ FitsStep(y)
      BY <1>1, <2>1, FitsAt DEF PaymentSteps, Paying
    <2> QED BY <1>1, <1>2, <1>5, <2>1, <2>2, <2>3, <2>4, MoveKeeps DEF Paying
  <1>6. ASSUME NEW p \in found, Goto(w, AfterPayment([x EXCEPT !.payment = p.id])),
               IF Trusted(x) THEN UNCHANGED session ELSE Commit(w, db, {}, <<>>)
        PROVE  StepKeeps(w)
    <2> DEFINE y == AfterPayment([x EXCEPT !.payment = p.id])
    <2>1. /\ y \in Contexts /\ y.req = x.req
          /\ y.pc = IF Trusted(x) THEN "decide" ELSE "publish"
          /\ y.user = x.user /\ y.card = x.card /\ y.payment = p.id
      BY <1>1, <1>4 DEF Contexts, Steps, TrustedSteps, AfterPayment, Trusted, Paying
    <2>2. ctx' = [ctx EXCEPT ![w] = y] /\ served' = served
      BY <1>6 DEF Goto, Moves
    <2>3. Names(w, p.id, "payment")
      BY <1>4 DEF Names
    <2>4. Still(w)
      <3>1. CASE Trusted(x)
        BY <1>2, <1>6, <3>1
      <3>2. CASE ~Trusted(x)
        <4>1. Commit(w, db, {}, <<>>) /\ tx[w] = {} /\ w \notin committing
          BY <1>1, <1>6, <3>2 DEF Paying
        <4>2. <<>> \in Seq(Events)
          OBVIOUS
        <4> QED BY <4>1, <4>2, EmptyCommitStill
      <3> QED BY <3>1, <3>2
    <2> HIDE DEF y
    <2>5. FitsOperation(y) /\ FitsStep(y)
      BY <1>1, <2>1, FitsAt DEF TrustedSteps, Trusted, Paying
    <2> QED BY <1>1, <2>1, <2>2, <2>3, <2>4, <2>5, MoveKeeps DEF Paying
  <1>7. \/ Goto(w, [x EXCEPT !.pc = "insert_payment"]) /\ UNCHANGED session
        \/ \E p \in found :
             Goto(w, [x EXCEPT !.pc = "insert_owner", !.payment = p.id]) /\ UNCHANGED session
        \/ \E p \in found :
             /\ Goto(w, AfterPayment([x EXCEPT !.payment = p.id]))
             /\ IF Trusted(x) THEN UNCHANGED session ELSE Commit(w, db, {}, <<>>)
    BY DEF FindPayment
  <1> QED BY <1>3, <1>5, <1>6, <1>7

\* A new account is flushed, its owner comes next.
LEMMA InsertPaymentKeeps ==
  ASSUME IInv, NEW w \in Workers, InsertPayment(w)
  PROVE  StepKeeps(w)
  <1> DEFINE x == ctx[w]
             r == NewPayment(x)
             y == Made([x EXCEPT !.pc = "insert_owner", !.payment = serial, !.newPayment = TRUE])
  <1>1. Paying(w, "insert_payment")
    BY PayingNow DEF InsertPayment, PaymentSteps
  <1>2. CASE Answer(w, 500) /\ UNCHANGED session
    BY <1>1, <1>2, RefuseKeeps DEF Paying
  <1>3. CASE ~Waits(w, r) /\ ~Taken(w, r) /\ Flush(w, r) /\ Goto(w, y)
    <2>1. IsRow(r) /\ r.id = serial /\ r.table = "payment"
      BY DEF IsRow, Columns, NewPayment
    <2>2. /\ y \in Contexts /\ y.req = x.req /\ y.pc = "insert_owner"
          /\ y.user = x.user /\ y.card = x.card /\ y.payment = r.id
      BY <1>1, <2>1 DEF Contexts, Steps, PaymentSteps, Made, Paying
    <2>3. ctx' = [ctx EXCEPT ![w] = y] /\ served' = served /\ Flush(w, r) /\ Fresh(w, r)
      BY <1>3, <2>1 DEF Goto, Moves, Fresh
    <2> HIDE DEF y, r
    <2>4. FitsOperation(y) /\ FitsStep(y)
      BY <1>1, <2>2, FitsAt DEF PaymentSteps, Paying
    <2> QED BY <1>1, <2>1, <2>2, <2>3, <2>4, InsertKeeps DEF Paying
  <1> QED BY <1>2, <1>3 DEF InsertPayment

\* The owner is committed with the account, and Hermes has to be told.
LEMMA InsertOwnerKeeps ==
  ASSUME IInv, NEW w \in Workers, InsertOwner(w)
  PROVE  StepKeeps(w)
  <1> DEFINE x == ctx[w]
             r == NewOwner(x)
             y == Made(AfterPayment(x))
  <1>1. Paying(w, "insert_owner")
    BY PayingNow DEF InsertOwner, PaymentSteps
  <1>2. CASE Insert(w, r) /\ Goto(w, y)
    <2>1. /\ IsRow(r) /\ r.id = serial /\ r.table = "owner"
          /\ r.user = x.user /\ r.payment = x.payment
      BY DEF IsRow, Columns, NewOwner
    <2>2. /\ y \in Contexts /\ y.req = x.req
          /\ y.pc = IF Trusted(x) THEN "decide" ELSE "publish"
          /\ y.user = x.user /\ y.card = x.card /\ y.payment = x.payment
      BY <1>1 DEF Contexts, Steps, TrustedSteps, Made, AfterPayment, Trusted, Paying
    <2>3. ctx' = [ctx EXCEPT ![w] = y] /\ served' = served /\ Insert(w, r)
      BY <1>2 DEF Goto, Moves
    <2> HIDE DEF y, r
    <2>4. /\ Fresh(w, r)
          /\ \/ Flush(w, r) /\ Trusted(y)
             \/ Commit(w, db, {r}, Noted("create", r)) /\ ~Trusted(y)
      BY <2>1, <2>2, <2>3, InsertFresh
    <2>5. FitsOperation(y) /\ FitsStep(y)
      BY <1>1, <2>2, FitsAt DEF TrustedSteps, Trusted, Paying
    <2>6. Messages(y) = {Enrol(y)} /\ (Trusted(y) <=> Trusted(x))
      BY <1>1, <2>2 DEF Messages, Trusted, Paying
    <2> QED BY <1>1, <2>1, <2>2, <2>3, <2>4, <2>5, <2>6, InsertKeeps DEF Paying
  <1>3. CASE Answer(w, 500) /\ UNCHANGED session
    BY <1>1, <1>3, RefuseKeeps DEF Paying
  <1> QED BY <1>2, <1>3 DEF InsertOwner

\* All of POST.
LEMMA AddPaymentKeeps ==
  ASSUME IInv, NEW w \in Workers, AddPayment(w)
  PROVE  StepKeeps(w)
  BY FindPaymentKeeps, InsertPaymentKeeps, InsertOwnerKeeps DEF AddPayment

(***************************************************************************)
(* PATCH and DELETE.  The user's account is there, for no step removes it. *)
(***************************************************************************)
LEMMA UpdatePaymentKeeps ==
  ASSUME IInv, NEW w \in Workers, UpdatePayment(w)
  PROVE  StepKeeps(w)
  <1> DEFINE x == ctx[w]
             row == Row(w, "payment", x.payment)
  <1>1. /\ x.pc = "find_own" /\ w \notin committing /\ tx[w] = {}
        /\ x.payment # 0 /\ Names(w, x.payment, "payment")
    BY DEF UpdatePayment, At, IInv, Fits, FitsStep, SeesRows, Trusted
  <1>2. row.id \in Nat
    <2>1. row \in Visible(w)
      BY <1>1 DEF Names, Row
    <2> QED BY <2>1, InRows DEF Visible, IInv, Orderly, Good
  <1>3. Noted("update", row) \in Seq(Events)
    BY <1>2, NotedEvents
  <1>4. Still(w)
    <2>1. CASE UNCHANGED session
      BY <2>1, UnchangedStill DEF session
    <2>2. CASE Commit(w, db, {}, Noted("update", row))
      BY <1>1, <1>3, <2>2, EmptyCommitStill
    <2> QED BY <2>1, <2>2 DEF UpdatePayment
  <1>5. ctx' = [ctx EXCEPT ![w] = Answered(ctx[w], 200)] /\ served' = served
    BY DEF UpdatePayment, Answer, Goto, Moves
  <1> QED BY <1>1, <1>4, <1>5, AnswerKeeps

\* DELETE leaves the rows to Hermes.
LEMMA DeletePaymentKeeps ==
  ASSUME IInv, NEW w \in Workers, DeletePayment(w)
  PROVE  StepKeeps(w)
  <1> DEFINE x == ctx[w]
             y == [x EXCEPT !.pc = "publish"]
  <1>1. /\ x.pc = "find_own" /\ x \in Contexts /\ x.req \in Requests
        /\ Names(w, x.user, "user") /\ Names(w, x.card, "card") /\ Names(w, x.payment, "payment")
    BY DEF DeletePayment, At, IInv, Fits, FitsOperation, SeesRows
  <1>2. Still(w)
    BY UnchangedStill DEF DeletePayment, session
  <1>3. /\ y \in Contexts /\ y.req = x.req /\ y.pc = "publish"
        /\ y.user = x.user /\ y.card = x.card /\ y.payment = x.payment
    BY <1>1 DEF Contexts, Steps
  <1>4. ctx' = [ctx EXCEPT ![w] = y] /\ served' = served
    BY DEF DeletePayment, Goto, Moves
  <1> HIDE DEF y
  <1>5. FitsOperation(y) /\ FitsStep(y)
    BY <1>1, <1>3, FitsAt
  <1> QED BY <1>1, <1>2, <1>3, <1>4, <1>5, MoveKeeps

\* All of PATCH and DELETE.
LEMMA ChangePaymentKeeps ==
  ASSUME IInv, NEW w \in Workers, ChangePayment(w)
  PROVE  StepKeeps(w)
  <1>1. CASE NotOwned(w)
    BY <1>1, RefuseKeeps DEF NotOwned, At
  <1> QED BY <1>1, UpdatePaymentKeeps, DeletePaymentKeeps DEF ChangePayment

-----------------------------------------------------------------------------
(* E-mail addresses *)

\* An address that is taken, or free.
LEMMA CheckEmailKeeps ==
  ASSUME IInv, NEW w \in Workers, CheckEmail(w)
  PROVE  StepKeeps(w)
  <1> DEFINE x == ctx[w]
             y == [x EXCEPT !.pc = "update_email"]
  <1>1. /\ x.pc = "check_email" /\ x \in Contexts /\ x.req \in Requests
        /\ x.req.op = "email_update" /\ x.user # 0
        /\ Names(w, x.user, "user") /\ Names(w, x.card, "card") /\ Names(w, x.payment, "payment")
    BY DEF CheckEmail, At, IInv, Fits, FitsOperation, FitsStep, SeesRows, EmailSteps
  <1>2. Still(w) /\ UNCHANGED session
    BY UnchangedStill DEF CheckEmail, session
  <1>3. ASSUME NEW status \in {409, 500}, Answer(w, status) PROVE StepKeeps(w)
    BY <1>1, <1>2, <1>3, RefuseKeeps
  <1>4. CASE Goto(w, y)
    <2>1. /\ y \in Contexts /\ y.req = x.req /\ y.pc = "update_email"
          /\ y.user = x.user /\ y.card = x.card /\ y.payment = x.payment
      BY <1>1 DEF Contexts, Steps, EmailSteps
    <2>2. ctx' = [ctx EXCEPT ![w] = y] /\ served' = served
      BY <1>4 DEF Goto, Moves
    <2> HIDE DEF y
    <2>3. FitsOperation(y) /\ FitsStep(y)
      BY <1>1, <2>1, FitsAt DEF EmailSteps
    <2> QED BY <1>1, <1>2, <2>1, <2>2, <2>3, MoveKeeps
  <1> QED BY <1>3, <1>4 DEF CheckEmail

(***************************************************************************)
(* The address changes only where the new one goes with every other row,   *)
(* committed or flushed.                                                   *)
(***************************************************************************)
LEMMA RenameKeeps ==
  ASSUME IInv, NEW w \in Workers, w \notin committing, tx[w] = {},
         NEW user \in db, user.table = "user",
         NEW changed, IsRow(changed), changed.table = "user", changed.id = user.id,
         ~Waits(w, changed), \A s \in db \ {user} : ~Clash(s, changed),
         Commit(w, (db \ {user}) \cup {changed}, {}, <<>>)
  PROVE  /\ SessionKept(w) /\ tx'[w] = {} /\ db' = (db \ {user}) \cup {changed}
         /\ lost' = lost /\ sent' = sent
  <1> DEFINE rows == (db \ {user}) \cup {changed}
  <1>1. IsRow(user) /\ user \in Rows
    BY InRows DEF IInv, Orderly, Good
  <1>2. IsRow(changed) /\ changed.table = "user" /\ changed.id = user.id
    OBVIOUS
  <1>3. Cardinality({}) = 0
    BY FS_EmptySet
  <1>4. /\ db' = rows /\ tx' = [tx EXCEPT ![w] = {}] /\ serial' = serial /\ sent' = sent
    BY <1>3 DEF Commit, IInv, Orderly
  <1>5. tx'[w] = {} /\ \A v \in Workers \ {w} : tx'[v] = tx[v]
    BY <1>4 DEF IInv, Orderly
  <1>6. \A s \in Rows' : s = changed \/ (s \in Rows /\ s # user)
    <2>1. \A v \in Workers \ {w} : \A s \in tx[v] : s \in Rows /\ s # user
      BY InRows DEF IInv, Orderly, Apart
    <2> QED BY <1>4, <1>5, <2>1, InRows, InRowsNext
  <1>7. \A s \in Rows : s # user => s.id # changed.id
    BY <1>1, <1>2 DEF IInv, Orderly, Good
  <1>8. \A s \in Rows : s # user => ~Clash(s, changed) /\ ~Clash(changed, s)
    <2>1. \A v \in Workers \ {w} : \A s \in tx[v] : ~Clash(changed, s)
      BY DEF Waits
    <2>2. \A s \in Rows : s # user => ~Clash(changed, s) \/ ~Clash(s, changed)
      BY <2>1, InRows
    <2> QED BY <2>2, ClashBothWays
  <1>9. Good(Rows', serial')
    <2>1. \A s \in Rows' : IsRow(s) /\ s.id \in 1..(serial' - 1)
      BY <1>1, <1>2, <1>4, <1>6 DEF IInv, Orderly, Good
    <2>2. \A s, t \in Rows : s.id = t.id \/ Clash(s, t) => s = t
      BY DEF IInv, Orderly, Good
    <2>3. \A s, t \in Rows' : s.id = t.id \/ Clash(s, t) => s = t
      BY <1>6, <1>7, <1>8, <2>2
    <2> QED BY <2>1, <2>3 DEF Good
  <1>10. \A v \in Workers \ {w} : \A r \in tx[v] : \A s \in rows \cup {} : s.id # r.id
    BY <1>2 DEF IInv, Orderly, Apart
  <1>11. \A s \in rows : \E r \in Rows : r.table = s.table /\ r.id = s.id
    BY <1>1, <1>2, InRows
  <1>12. \A r \in db : r.table # "owner" => \E s \in rows : Stays(r, s)
    BY <1>2 DEF Stays
  <1>13. <<>> \in Seq(Events) /\ serial' \in Nat \ {0}
    BY <1>4 DEF IInv, Orderly
  <1>14. Commit(w, rows, {}, <<>>) /\ Orderly /\ AllTold
    BY DEF IInv
  <1> HIDE DEF rows
  <1>15. SessionKept(w) /\ lost' = lost
    <2>1. \A s \in {} : s.table \in Watched => Among(Created(s), <<>>)
      OBVIOUS
    <2> QED BY <1>9, <1>10, <1>11, <1>12, <1>13, <1>14, <2>1, CommitKeeps
  <1> QED BY <1>2, <1>4, <1>5, <1>15 DEF rows

\* The worker that changes the address goes on to report it.
LEMMA RenamerKeeps ==
  ASSUME IInv, NEW w \in Workers, SessionKept(w), tx[w] = {}, tx'[w] = {},
         NEW user \in db, NEW changed, db' = (db \ {user}) \cup {changed},
         changed.table = "user", changed.id = user.id, user.table = "user", sent' = sent,
         ctx[w].pc = "update_email", NEW y \in Contexts, ctx' = [ctx EXCEPT ![w] = y],
         served' = served, y.pc = "report", FitsOperation(y), FitsStep(y),
         y.user = ctx[w].user, y.card = ctx[w].card, y.payment = ctx[w].payment
  PROVE  StepKeeps(w)
  <1>1. ctx'[w] = y /\ Grown /\ tx[w] \subseteq db' \cup tx'[w]
    BY DEF IInv, SessionKept, OthersKept
  <1>2. SeesRows(w)'
    <2>1. Names(w, y.user, "user") /\ Names(w, y.card, "card") /\ Names(w, y.payment, "payment")
      BY DEF IInv, Fits, SeesRows
    <2>2. Names(w, y.user, "user")'
      BY <1>1, <2>1, NamesStay
    <2>3. Names(w, y.card, "card")'
      BY <1>1, <2>1, NamesStay
    <2>4. Names(w, y.payment, "payment")'
      BY <1>1, <2>1, NamesStay
    <2> QED BY <1>1, <2>2, <2>3, <2>4 DEF SeesRows, Names
  <1>3. FitsOperation(ctx[w])' /\ FitsStep(ctx[w])'
    BY <1>1 DEF FitsOperation, FitsStep
  <1>4. Fits(w)'
    BY <1>1, <1>2, <1>3 DEF Fits, ConsentsFlushed, OwnersDecided, In
  <1>5. ConsentsHonoured(w)
    BY DEF ConsentsHonoured, In
  <1>6. EnrolmentsHonoured(w)
    BY DEF EnrolmentsHonoured, In
  <1> QED BY <1>1, <1>4, <1>5, <1>6 DEF StepKeeps, IInv

\* The UPDATE and its commit.
LEMMA UpdateEmailKeeps ==
  ASSUME IInv, NEW w \in Workers, UpdateEmail(w)
  PROVE  StepKeeps(w)
  <1> DEFINE x == ctx[w]
             user == Row(w, "user", x.user)
             changed == [user EXCEPT !.email = x.req.email]
             y == [x EXCEPT !.pc = "report"]
  <1>1. /\ x.pc = "update_email" /\ x \in Contexts /\ x.req \in Requests /\ w \notin committing
        /\ x.req.op = "email_update" /\ x.user # 0 /\ tx[w] = {} /\ Names(w, x.user, "user")
    BY DEF UpdateEmail, At, IInv, Fits, FitsOperation, FitsStep, SeesRows, EmailSteps, Trusted
  <1>2. CASE Answer(w, 500) /\ UNCHANGED session
    BY <1>1, <1>2, RefuseKeeps
  <1>3. CASE /\ ~\E u \in db \ {user} : Clash(u, changed)
             /\ Commit(w, (db \ {user}) \cup {changed}, {}, <<>>)
             /\ Goto(w, y)
    <2>1. user \in db /\ user.table = "user" /\ user.id = x.user
      BY <1>1 DEF Row, Names, Visible
    <2>2. ~Waits(w, changed) /\ IsRow(changed) /\ changed.table = "user" /\ changed.id = user.id
      <3>1. IsRow(user)
        BY <2>1, InRows DEF IInv, Orderly, Good
      <3>2. LET s == [user EXCEPT !.email = x.req.email]
            IN  IsRow(s) /\ s.table = "user" /\ s.id = user.id
        BY <2>1, <3>1, Renamed
      <3> QED BY <3>2 DEF UpdateEmail
    <2>3. /\ y \in Contexts /\ y.req = x.req /\ y.pc = "report"
          /\ y.user = x.user /\ y.card = x.card /\ y.payment = x.payment
      BY <1>1 DEF Contexts, Steps, EmailSteps
    <2>4. ctx' = [ctx EXCEPT ![w] = y] /\ served' = served
      BY <1>3 DEF Goto, Moves
    <2> HIDE DEF user, changed, y
    <2>5. \A s \in db \ {user} : ~Clash(s, changed)
      BY <1>3
    <2>6. Commit(w, (db \ {user}) \cup {changed}, {}, <<>>)
      BY <1>3
    <2>7. /\ SessionKept(w) /\ tx'[w] = {} /\ db' = (db \ {user}) \cup {changed}
          /\ sent' = sent
      BY <1>1, <2>1, <2>2, <2>5, <2>6, RenameKeeps
    <2>8. FitsOperation(y) /\ FitsStep(y)
      BY <1>1, <2>3, FitsAt DEF EmailSteps
    <2> QED BY <1>1, <2>1, <2>2, <2>3, <2>4, <2>7, <2>8, RenamerKeeps
  <1> QED BY <1>2, <1>3 DEF UpdateEmail

\* The report is sent or lost.
LEMMA ReportKeeps ==
  ASSUME IInv, NEW w \in Workers, Report(w)
  PROVE  StepKeeps(w)
  <1>1. ctx[w].pc = "report" /\ UNCHANGED <<db, tx, serial, queue, committing>>
        /\ sent \subseteq sent' /\ lost \subseteq lost'
    BY DEF Report, At
  <1>2. Still(w)
    BY <1>1, UnchangedStill
  <1>3. ctx' = [ctx EXCEPT ![w] = Answered(ctx[w], 200)] /\ served' = served
    BY DEF Report, Answer, Goto, Moves
  <1> QED BY <1>1, <1>2, <1>3, AnswerKeeps

\* All of the change of an address.
LEMMA ChangeEmailKeeps ==
  ASSUME IInv, NEW w \in Workers, ChangeEmail(w)
  PROVE  StepKeeps(w)
  BY CheckEmailKeeps, UpdateEmailKeeps, ReportKeeps DEF ChangeEmail

-----------------------------------------------------------------------------
(* The end of a request *)

\* The wallet is committed, with its consent, and its owner is announced next.
LEMMA DecideKeeps ==
  ASSUME IInv, NEW w \in Workers, Decide(w)
  PROVE  StepKeeps(w)
  <1> DEFINE x == ctx[w]
             y == [x EXCEPT !.pc = "publish"]
  <1>1. Composing(w, "decide")
    BY ComposingNow DEF Decide, TrustedSteps
  <1>2. ASSUME NEW status \in {200, 409}, Answer(w, status), UNCHANGED session
        PROVE  StepKeeps(w)
    BY <1>1, <1>2, RefuseKeeps DEF Composing
  <1>3. CASE Commit(w, db, {}, <<>>) /\ Goto(w, y)
    <2>1. /\ y \in Contexts /\ y.req = x.req /\ y.pc = "publish"
          /\ y.user = x.user /\ y.card = x.card /\ y.payment = x.payment
      BY <1>1 DEF Contexts, Steps, Composing
    <2>2. ctx' = [ctx EXCEPT ![w] = y] /\ served' = served /\ Commit(w, db, {}, <<>>)
      BY <1>3 DEF Goto, Moves
    <2> HIDE DEF y
    <2>3. FitsOperation(y) /\ FitsStep(y) /\ Trusted(y)
      BY <1>1, <2>1, FitsAt DEF Composing, Trusted
    <2>4. \A s \in db : Kept(s, s)
      BY InRows, KeptItself DEF IInv, Orderly, Good
    <2>5. \A s, t \in db : s.id = t.id => s = t
      BY InRows DEF IInv, Orderly, Good
    <2>6. <<>> \in Seq(Events)
      OBVIOUS
    <2> QED BY <1>1, <2>1, <2>2, <2>3, <2>4, <2>5, <2>6, SettleKeeps DEF Composing
  <1> QED BY <1>2, <1>3 DEF Decide

\* What is owed is sent.
LEMMA PublishKeeps ==
  ASSUME IInv, NEW w \in Workers, Publish(w)
  PROVE  StepKeeps(w)
  <1>1. /\ ctx[w].pc = "publish" /\ UNCHANGED <<db, tx, serial, queue, committing, lost>>
        /\ sent' = sent \cup Messages(ctx[w])
    BY DEF Publish, At
  <1>2. Still(w)
    BY <1>1, UnchangedStill
  <1>3. ctx' = [ctx EXCEPT ![w] = Answered(ctx[w], Success(ctx[w]))] /\ served' = served
    BY DEF Publish, Answer, Goto, Moves
  <1>4. Success(ctx[w]) \in Nat
    BY DEF Success
  <1> QED BY <1>1, <1>2, <1>3, <1>4, AnswerKeeps

\* A worker without a request holds nothing.
LEMMA IdleFits ==
  /\ Idle \in Contexts /\ FitsOperation(Idle) /\ FitsStep(Idle)
  /\ Idle.user = 0 /\ Idle.card = 0 /\ Idle.payment = 0 /\ Idle.pc = "idle" /\ Idle.todo = {}
  BY DEF Idle, Contexts, Steps, FitsOperation, FitsStep, LookUps, LoginSteps, TrustedSteps,
         PaymentSteps, EmailSteps

\* The end of a request discards what was not committed.
LEMMA CloseKeeps ==
  ASSUME IInv, NEW w \in Workers, Close(w)
  PROVE  StepKeeps(w)
  <1>1. /\ ctx[w].pc = "respond" /\ w \notin committing /\ Discard(w)
        /\ ctx' = [ctx EXCEPT ![w] = Idle] /\ served' = served
    BY DEF Close, At, Goto, Moves
  <1>2. SessionKept(w) /\ tx'[w] = {} /\ RowsKept
    BY <1>1, DiscardKeeps DEF IInv
  <1>3. w \notin committing' /\ sent' = sent
    BY <1>1 DEF Discard
  <1> QED BY <1>1, <1>2, <1>3, IdleFits, ResetKeeps

(***************************************************************************)
(* A step of a worker with its session at rest.                            *)
(***************************************************************************)
LEMMA ProceedKeeps ==
  ASSUME IInv, NEW w \in Workers, Proceed(w)
  PROVE  StepKeeps(w)
  BY LoginKeeps, TrustedAddKeeps, AddPaymentKeeps, ChangePaymentKeeps, ChangeEmailKeeps,
     DecideKeeps, PublishKeeps, CloseKeeps DEF Proceed

\* A turn of the listener touches no rows.
LEMMA ListenerStepKeeps ==
  ASSUME IInv, NEW w \in Workers, Listener(w)
  PROVE  StepKeeps(w)
  <1>1. /\ Send(w) \/ Requeue(w)
        /\ ctx' = ctx /\ served' = served
    BY DEF Listener
  <1>2. SessionKept(w) /\ RowsKept /\ tx' = tx
    BY <1>1, ListenerKeeps DEF IInv
  <1>3. sent \subseteq sent' /\ committing' \subseteq committing
    BY <1>1 DEF Send, Requeue
  <1>4. db' = db
    BY <1>2 DEF RowsKept
  <1>5. Fits(w)'
    BY <1>1, <1>2, <1>3, OtherFits DEF IInv, SessionKept, OthersKept
  <1>6. ConsentsHonoured(w)
    BY <1>1, <1>4 DEF ConsentsHonoured, In
  <1>7. EnrolmentsHonoured(w)
    BY <1>1, <1>3, <1>4 DEF EnrolmentsHonoured, In
  <1>8. ctx' = [ctx EXCEPT ![w] = ctx'[w]] /\ ctx'[w] \in Contexts
    BY <1>1 DEF IInv
  <1> QED BY <1>1, <1>2, <1>5, <1>6, <1>7, <1>8 DEF StepKeeps, IInv

(***************************************************************************)
(* What a request owes when it breaks off is lost.                         *)
(***************************************************************************)
LEMMA OwedLost ==
  ASSUME NEW x, Owed(x) \subseteq lost'
  PROVE  /\ x.pc = "publish" => Messages(x) \subseteq lost'
         /\ x.pc = "insert_consent" /\ ~Trusted(x) => Consent(x.user) \in lost'
  BY DEF Owed

\* A request that raises.
LEMMA AbortKeeps ==
  ASSUME IInv, NEW w \in Workers, Abort(w)
  PROVE  StepKeeps(w)
  <1>1. ctx' = [ctx EXCEPT ![w] = Answered(ctx[w], 500)] /\ served' = served
    BY DEF Abort, Moves
  <1>2. Owed(ctx[w]) \subseteq lost' /\ lost \subseteq lost' /\ sent' = sent
    BY DEF Abort, DispatchRaises
  <1>3. ctx[w].pc # "idle" /\ Still(w)
    <2>1. CASE /\ ctx[w].pc \notin {"idle", "report", "respond"}
               /\ UNCHANGED <<db, tx, serial, queue, committing, sent>>
      BY <1>2, <2>1, UnchangedStill
    <2>2. CASE DispatchRaises(w, Owed(ctx[w]))
      <3>1. SessionKept(w) /\ RowsKept /\ tx' = tx
        BY <2>2, ListenerKeeps DEF IInv
      <3>2. ctx[w].pc # "idle"
        BY <2>2 DEF DispatchRaises, IInv, Fits
      <3> QED BY <1>2, <3>1, <3>2 DEF Still, RowsKept
    <2> QED BY <2>1, <2>2 DEF Abort
  <1>4. /\ ctx[w].pc = "publish" => Messages(ctx[w]) \subseteq sent' \cup lost'
        /\ ctx[w].pc = "insert_consent" /\ ~Trusted(ctx[w]) => Consent(ctx[w].user) \in lost'
    BY <1>2, OwedLost
  <1>5. 500 \in Nat
    OBVIOUS
  <1> QED BY <1>1, <1>3, <1>4, <1>5, AnswerKeeps

\* A process that is killed.
LEMMA CrashKeeps ==
  ASSUME IInv, NEW w \in Workers, Crash(w)
  PROVE  StepKeeps(w)
  <1>1. ctx' = [ctx EXCEPT ![w] = Idle] /\ served' = served /\ Die(w, Owed(ctx[w]))
    BY DEF Crash, Moves
  <1>2. /\ SessionKept(w) /\ RowsKept /\ tx'[w] = {} /\ w \notin committing'
        /\ sent' = sent /\ lost \cup Owed(ctx[w]) \subseteq lost'
    BY <1>1, DieKeeps DEF IInv
  <1>3. /\ ctx[w].pc = "publish" => Messages(ctx[w]) \subseteq sent' \cup lost'
        /\ ctx[w].pc = "insert_consent" /\ ~Trusted(ctx[w]) => Consent(ctx[w].user) \in lost'
    BY <1>2, OwedLost
  <1> QED BY <1>1, <1>2, <1>3, IdleFits, ResetKeeps

-----------------------------------------------------------------------------
(* A new request *)

\* A request starts with rows that are there.
LEMMA ReceiveKeeps ==
  ASSUME IInv, NEW w \in Workers, Receive(w)
  PROVE  StepKeeps(w)
  <1>1. /\ ctx[w].pc = "idle" /\ ctx[w] = Idle /\ tx[w] = {} /\ w \notin committing
        /\ served' = served + 1 /\ served < MaxRequests /\ UNCHANGED session
    BY DEF Receive, IInv, Fits, FitsStep
  <1>2. PICK req \in Requests :
          LET x == [Idle EXCEPT !.req = req, !.pc = FirstQuery[req.op]] IN
          \/ req.op \in {"token", "create_trusted"} /\ ctx' = [ctx EXCEPT ![w] = x]
          \/ /\ req.op \notin {"token", "create_trusted"}
             /\ \E u \in In(db, "user"), p \in Named(req) :
                  ctx' = [ctx EXCEPT ![w] = [x EXCEPT !.user = u.id, !.payment = p]]
    BY DEF Receive
  <1>3. req.op \in Ops
    BY RequestsAssumption
  <1> DEFINE x == [Idle EXCEPT !.req = req, !.pc = FirstQuery[req.op]]
  <1>4. \A r \in db : r.id \in Nat \ {0}
    BY InRows DEF IInv, Orderly, Good
  <1>5. /\ x \in Contexts /\ x.req = req /\ x.pc = FirstQuery[req.op]
        /\ x.user = 0 /\ x.card = 0 /\ x.payment = 0 /\ x.todo = {}
    <2>1. FirstQuery[req.op] \in Steps
      BY <1>3 DEF Steps, LookUps, LoginSteps, PaymentSteps, EmailSteps, FirstQuery, Ops
    <2> QED BY <2>1, IdleFits DEF Contexts
  <1>6. PICK y \in Contexts :
          /\ ctx' = [ctx EXCEPT ![w] = y] /\ y.req = req /\ y.pc = FirstQuery[req.op]
          /\ y.card = 0 /\ y.todo = {}
          /\ Names(w, y.user, "user") /\ Names(w, y.payment, "payment")
          /\ req.op \in {"token", "create_trusted"} => y.user = 0 /\ y.payment = 0
          /\ req.op \notin {"token", "create_trusted"} => y.user # 0
          /\ req.op \in {"update_payment", "delete_payment"} => y.payment # 0
    <2>1. CASE req.op \in {"token", "create_trusted"} /\ ctx' = [ctx EXCEPT ![w] = x]
      <3>1. Names(w, 0, "user") /\ Names(w, 0, "payment")
        BY DEF Names
      <3> QED BY <1>5, <2>1, <3>1
    <2>2. ASSUME req.op \notin {"token", "create_trusted"},
                 NEW u \in In(db, "user"), NEW p \in Named(req),
                 ctx' = [ctx EXCEPT ![w] = [x EXCEPT !.user = u.id, !.payment = p]]
          PROVE  \E y \in Contexts :
                   /\ ctx' = [ctx EXCEPT ![w] = y] /\ y.req = req /\ y.pc = FirstQuery[req.op]
                   /\ y.card = 0 /\ y.todo = {}
                   /\ Names(w, y.user, "user") /\ Names(w, y.payment, "payment")
                   /\ req.op \in {"token", "create_trusted"} => y.user = 0 /\ y.payment = 0
                   /\ req.op \notin {"token", "create_trusted"} => y.user # 0
                   /\ req.op \in {"update_payment", "delete_payment"} => y.payment # 0
      <3> DEFINE y == [x EXCEPT !.user = u.id, !.payment = p]
      <3>1. u \in db /\ u.table = "user" /\ u.id \in Nat \ {0} /\ Names(w, u.id, "user")
        BY <1>4 DEF In, Names, Visible
      <3>2. /\ p \in Nat /\ Names(w, p, "payment")
            /\ req.op \in {"update_payment", "delete_payment"} => p # 0
        BY <1>4 DEF Named, In, Names, Visible
      <3> HIDE DEF x
      <3>3. /\ y \in Contexts /\ y.req = req /\ y.pc = FirstQuery[req.op] /\ y.user = u.id
            /\ y.card = 0 /\ y.payment = p /\ y.todo = {}
        BY <1>5, <3>1, <3>2 DEF Contexts
      <3>4. ctx' = [ctx EXCEPT ![w] = y]
        BY <2>2
      <3> HIDE DEF y
      <3> QED BY <2>2, <3>1, <3>2, <3>3, <3>4
    <2> QED BY <1>2, <2>1, <2>2
  <1>7. y.pc = FirstQuery[req.op] /\ FitsOperation(y) /\ FitsStep(y) /\ y.pc \notin {"idle", "touch"}
    BY <1>3, <1>6, FitsAt DEF Ops, FirstQuery, LookUps, PaymentSteps, EmailSteps
  <1>8. SessionKept(w) /\ db' = db /\ tx' = tx /\ sent' = sent /\ committing' = committing
    BY <1>1, UnchangedStill DEF session, Still
  <1>9. ctx'[w] = y
    BY <1>6 DEF IInv
  <1>10. Fits(w)'
    <2>1. SeesRows(w)'
      <3>1. Names(w, 0, "card")
        BY DEF Names
      <3> QED BY <1>6, <1>7, <1>8, <1>9, <3>1 DEF SeesRows, Names, Visible
    <2>2. FitsOperation(ctx[w])' /\ FitsStep(ctx[w])'
      BY <1>7, <1>9 DEF FitsOperation, FitsStep
    <2> QED BY <1>1, <1>7, <1>8, <1>9, <2>1, <2>2 DEF Fits, ConsentsFlushed, OwnersDecided, In
  <1>11. ConsentsHonoured(w) /\ EnrolmentsHonoured(w)
    BY <1>1, <1>8 DEF ConsentsHonoured, EnrolmentsHonoured, In
  <1>12. served' \in 0..MaxRequests
    BY <1>1, BoundAssumption DEF IInv
  <1> QED BY <1>6, <1>8, <1>9, <1>10, <1>11, <1>12 DEF StepKeeps

-----------------------------------------------------------------------------
(* Hermes *)

(***************************************************************************)
(* Hermes alters rows and takes out owners; of what was sent it forgets    *)
(* only what it was told of an owner it takes out.                         *)
(***************************************************************************)
LEMMA ExternalKeeps ==
  ASSUME IInv, UNCHANGED <<tx, serial, queue, committing, lost, ctx, served>>,
         \A s \in db' : \E r \in db : Kept(r, s),
         \A r \in db : r.table # "owner" => \E s \in db' : Kept(r, s),
         \A s, t \in db' : s.id = t.id => s = t,
         \A e \in Events : e \in sent => e \in sent',
         \A o \in In(db', "owner") : Enrol(o) \in sent => Enrol(o) \in sent'
  PROVE  IInv'
  <1>1. \A s \in Rows' : \E r \in Rows : Kept(r, s)
    <2>1. \A w \in Workers : \A s \in tx[w] : s \in Rows /\ Kept(s, s)
      BY InRows, KeptItself DEF IInv, Orderly, Good
    <2> QED BY <2>1, InRows, InRowsNext
  <1>2. \A w \in Workers : \A t \in tx[w] : \A s \in db' : s.id # t.id
    BY DEF IInv, Orderly, Apart, Kept
  <1>3. \A s, t \in Rows' : s.id = t.id => s = t
    <2>1. ASSUME NEW u \in Workers, NEW v \in Workers, NEW s \in tx[u], NEW t \in tx[v], s.id = t.id
          PROVE  s = t
      BY <2>1, InRows DEF IInv, Orderly, Good
    <2> QED BY <1>2, <2>1, InRowsNext
  <1>4. Good(Rows', serial')
    BY <1>1, <1>3, AlteredGood DEF IInv, Orderly
  <1>5. Orderly'
    <2>1. \A w \in Workers : Apart(w)'
      BY <1>2 DEF IInv, Orderly, Apart
    <2>2. Lists'
      BY DEF IInv, Orderly, Lists
    <2> QED BY <1>4, <2>1, <2>2 DEF IInv, Orderly
  <1>6. HeardStays
    BY DEF HeardStays, Heard, Pending
  <1>7. AllTold'
    <2>1. \A s \in Rows' : \E r \in Rows : r.table = s.table /\ r.id = s.id
      BY <1>1 DEF Kept
    <2> QED BY <1>6, <2>1, ToldStays DEF IInv
  <1>8. Grown
    BY DEF Grown, Kept, Stays
  <1>9. \A w \in Workers : Fits(w)'
    BY <1>8, OtherFits DEF IInv
  <1>10. AllConsented'
    <2> SUFFICES ASSUME NEW u \in In(db', "user") PROVE Consented(u)'
      BY DEF AllConsented
    <2>1. PICK r \in In(db, "user") : r.id = u.id
      BY DEF In, Kept
    <2>2. Consented(r)
      BY DEF IInv, AllConsented
    <2>3. \A c \in In(db, "consent") : \E d \in In(db', "consent") : d.user = c.user
      BY DEF In, Kept
    <2> QED BY <2>1, <2>2, <2>3 DEF Consented, Consent, Trusted
  <1>11. PaymentAnnounced'
    <2> SUFFICES ASSUME NEW o \in In(db', "owner")
                 PROVE  \/ Enrol(o) \in sent' \cup lost'
                        \/ \E w \in Workers : ctx'[w].pc = "publish" /\ Enrol(o) \in Messages(ctx'[w])
      BY DEF PaymentAnnounced, Enrol, Messages, Remove
    <2>1. o \in In(db, "owner")
      BY DEF In, Kept
    <2> QED BY <2>1 DEF IInv, PaymentAnnounced
  <1> QED BY <1>5, <1>7, <1>9, <1>10, <1>11 DEF IInv

(***************************************************************************)
(* A payment account is altered where it stands.                           *)
(***************************************************************************)
LEMMA ReplacedKept ==
  ASSUME IInv, NEW gone \in SUBSET In(db, "owner"), NEW p \in In(db, "payment"), NEW q, Kept(p, q),
         db' = (db \ (gone \cup {p})) \cup {q}
  PROVE  /\ \A s \in db' : \E r \in db : Kept(r, s)
         /\ \A r \in db : r.table # "owner" => \E s \in db' : Kept(r, s)
         /\ \A s, t \in db' : s.id = t.id => s = t
  <1>1. \A r \in db : Kept(r, r)
    BY InRows, KeptItself DEF IInv, Orderly, Good
  <1>2. \A r, s \in db : r.id = s.id => r = s
    BY InRows DEF IInv, Orderly, Good
  <1>3. p \in db /\ q.id = p.id
    BY DEF In, Kept
  <1>4. \A s, t \in db' : s.id = t.id => s = t
    BY <1>2, <1>3
  <1>5. \A r \in db : r.table # "owner" => \E s \in db' : Kept(r, s)
    BY <1>1 DEF In
  <1> QED BY <1>1, <1>3, <1>4, <1>5

\* Hermes links or deletes an account.
LEMMA HermesAltersKeeps ==
  ASSUME IInv, UNCHANGED <<tx, serial, queue, committing, lost, ctx, served>>,
         NEW p \in In(db, "payment"), HermesLinks(p) \/ HermesDeletes(p)
  PROVE  IInv'
  <1>1. IsRow(p) /\ p.table = "payment"
    BY InRows DEF In, IInv, Orderly, Good
  <1>2. PICK q : Kept(p, q) /\ db' = (db \ ({} \cup {p})) \cup {q}
    <2>1. CASE HermesLinks(p)
      BY <1>1, <2>1, Linked DEF HermesLinks
    <2>2. CASE HermesDeletes(p)
      BY <1>1, <2>2, ClosedKept DEF HermesDeletes
    <2> QED BY <2>1, <2>2
  <1>3. /\ \A s \in db' : \E r \in db : Kept(r, s)
        /\ \A r \in db : r.table # "owner" => \E s \in db' : Kept(r, s)
        /\ \A s, t \in db' : s.id = t.id => s = t
    <2>1. {} \in SUBSET In(db, "owner")
      OBVIOUS
    <2> QED BY <1>2, <2>1, ReplacedKept
  <1>4. sent' = sent
    BY DEF HermesLinks, HermesDeletes
  <1> QED BY <1>3, <1>4, ExternalKeeps DEF Enrol

(***************************************************************************)
(* The unique index on owners makes the enrolment Hermes forgets that of   *)
(* the owner it takes out, and of no other.                                *)
(***************************************************************************)
LEMMA HermesRemovesKeeps ==
  ASSUME IInv, UNCHANGED <<tx, serial, queue, committing, lost, ctx, served>>,
         NEW o \in In(db, "owner"), HermesRemoves(o)
  PROVE  IInv'
  <1>1. \A r \in db : Kept(r, r)
    BY InRows, KeptItself DEF IInv, Orderly, Good
  <1>2. \A r, s \in db : r.id = s.id \/ Clash(r, s) => r = s
    BY InRows DEF IInv, Orderly, Good
  <1>3. /\ \A s \in db' : \E r \in db : Kept(r, s)
        /\ \A r \in db : r.table # "owner" => \E s \in db' : Kept(r, s)
        /\ \A s, t \in db' : s.id = t.id => s = t
        /\ o \notin db'
    <2>1. CASE db' = db \ {o}
      <3>1. \A r \in db : r.table # "owner" => r \in db'
        BY <2>1 DEF In
      <3> QED BY <1>1, <1>2, <2>1, <3>1
    <2>2. ASSUME NEW p \in In(db, "payment"), db' = (db \ {o, p}) \cup {Closed(p)}
          PROVE  /\ \A s \in db' : \E r \in db : Kept(r, s)
                 /\ \A r \in db : r.table # "owner" => \E s \in db' : Kept(r, s)
                 /\ \A s, t \in db' : s.id = t.id => s = t
                 /\ o \notin db'
      <3>1. IsRow(p) /\ p.table = "payment"
        BY InRows DEF In, IInv, Orderly, Good
      <3>2. Kept(p, Closed(p))
        BY <3>1, ClosedKept
      <3>3. Closed(p) # o
        BY <3>1, <3>2 DEF Kept, In
      <3>4. db' = (db \ ({o} \cup {p})) \cup {Closed(p)}
        BY <2>2
      <3>5. {o} \in SUBSET In(db, "owner")
        OBVIOUS
      <3>6. /\ \A s \in db' : \E r \in db : Kept(r, s)
            /\ \A r \in db : r.table # "owner" => \E s \in db' : Kept(r, s)
            /\ \A s, t \in db' : s.id = t.id => s = t
        BY <3>2, <3>4, <3>5, ReplacedKept
      <3> QED BY <2>2, <3>3, <3>6
    <2> QED BY <2>1, <2>2 DEF HermesRemoves
  <1>4. sent' = sent \ {Remove(o), Enrol(o)}
    BY DEF HermesRemoves
  <1>5. \A e \in Events : e \in sent => e \in sent'
    BY <1>4 DEF Events, Remove, Enrol
  <1>6. ASSUME NEW t \in In(db', "owner"), Enrol(t) \in sent PROVE Enrol(t) \in sent'
    <2>1. t \in db /\ t.table = "owner" /\ t # o
      BY <1>3 DEF In, Kept
    <2>2. Enrol(t) # Enrol(o)
      <3>1. t.payment # o.payment \/ t.user # o.user
        BY <1>2, <2>1 DEF Clash, In
      <3> QED BY <3>1 DEF Enrol
    <2>3. Enrol(t) # Remove(o)
      BY DEF Enrol, Remove
    <2> QED BY <1>4, <1>6, <2>2, <2>3
  <1> QED BY <1>3, <1>5, <1>6, ExternalKeeps DEF Enrol

\* All of Hermes.
LEMMA HermesKeeps ==
  ASSUME IInv, Hermes
  PROVE  IInv'
  <1>1. UNCHANGED <<tx, serial, queue, committing, lost, ctx, served>>
    BY DEF Hermes
  <1> QED BY <1>1, HermesAltersKeeps, HermesRemovesKeeps DEF Hermes

-----------------------------------------------------------------------------
(* The invariants *)

\* The invariant holds at the start.
LEMMA InitIInv == Init => IInv
  <1> SUFFICES ASSUME Init PROVE IInv
    OBVIOUS
  <1>1. /\ db \in Tables /\ tx = [w \in Workers |-> {}] /\ serial = Cardinality(db) + 1
        /\ queue = [w \in Workers |-> <<>>] /\ committing = {}
        /\ sent = {[kind |-> "create", row |-> r.id] : r \in db}
                     \cup {Enrol(o) : o \in In(db, "owner")}
        /\ ctx = [w \in Workers |-> Idle] /\ served = 0
    BY DEF Init, SessionInit
  <1>2. /\ IsFiniteSet(db)
        /\ \A r \in db : IsRow(r) /\ r.id \in 1..Cardinality(db)
        /\ \A r, s \in db : r.id = s.id \/ Clash(r, s) => r = s
        /\ \A u \in db : u.table = "user" => \E c \in db : c.table = "consent" /\ c.user = u.id
    BY <1>1, TablesAssumption
  <1>3. Cardinality(db) \in Nat
    BY <1>2, FS_CardinalityType
  <1>4. Rows = db
    BY <1>1, InRows
  <1>5. Orderly
    <2>1. Good(Rows, serial)
      BY <1>1, <1>2, <1>3, <1>4 DEF Good
    <2>2. Lists /\ \A w \in Workers : Apart(w)
      BY <1>1 DEF Lists, Apart
    <2> QED BY <1>1, <1>3, <2>1, <2>2 DEF Orderly
  <1>6. AllTold
    BY <1>1, <1>4 DEF AllTold, Heard, Created
  <1>7. ASSUME NEW w \in Workers PROVE Fits(w)
    <2>1. ctx[w] = Idle /\ tx[w] = {}
      BY <1>1
    <2>2. SeesRows(w)
      BY <2>1, IdleFits DEF SeesRows, Names
    <2> QED BY <1>1, <2>1, <2>2, IdleFits DEF Fits, ConsentsFlushed, OwnersDecided, In
  <1>8. AllConsented
    BY <1>2 DEF AllConsented, Consented, In
  <1>9. PaymentAnnounced
    BY <1>1 DEF PaymentAnnounced
  <1>10. ctx \in [Workers -> Contexts] /\ served \in 0..MaxRequests
    BY <1>1, IdleFits, BoundAssumption
  <1> QED BY <1>5, <1>6, <1>7, <1>8, <1>9, <1>10 DEF IInv

\* Every step keeps it.
LEMMA NextIInv == IInv /\ [Next]_vars => IInv'
  <1> SUFFICES ASSUME IInv, [Next]_vars PROVE IInv'
    OBVIOUS
  <1>1. ASSUME NEW w \in Workers, Receive(w) PROVE IInv'
    BY <1>1, ReceiveKeeps, StepIInv
  <1>2. ASSUME NEW w \in Workers, Proceed(w) PROVE IInv'
    BY <1>2, ProceedKeeps, StepIInv
  <1>3. ASSUME NEW w \in Workers, Listener(w) PROVE IInv'
    BY <1>3, ListenerStepKeeps, StepIInv
  <1>4. ASSUME NEW w \in Workers, Abort(w) PROVE IInv'
    BY <1>4, AbortKeeps, StepIInv
  <1>5. ASSUME NEW w \in Workers, Crash(w) PROVE IInv'
    BY <1>5, CrashKeeps, StepIInv
  <1>6. CASE UNCHANGED vars
    <2>1. UNCHANGED <<db, tx, serial, queue, committing, sent, lost, ctx, served>>
      BY <1>6 DEF vars, session
    <2>2. \A r \in db : Kept(r, r)
      BY InRows, KeptItself DEF IInv, Orderly, Good
    <2>3. \A r, s \in db : r.id = s.id => r = s
      BY InRows DEF IInv, Orderly, Good
    <2> QED BY <2>1, <2>2, <2>3, ExternalKeeps DEF Enrol
  <1> QED BY <1>1, <1>2, <1>3, <1>4, <1>5, <1>6, HermesKeeps DEF Next, Terminated

(***************************************************************************)
(* What the wallet endpoints keep true, whatever the workers, the requests *)
(* and their number, the faults and the database a behaviour starts from.  *)
(***************************************************************************)
THEOREM Inductive == Spec => []IInv
  <1> QED BY InitIInv, NextIInv, PTL DEF Spec

(***************************************************************************)
(* The sessions are orderly: rows well formed, ids unique, no unique index *)
(* broken by committed and flushed rows together, nothing flushed while    *)
(* the listener runs; and the ids a worker keeps name rows that it sees.   *)
(***************************************************************************)
THEOREM TypeCorrect == Spec => []TypeOK
  <1>1. IInv => TypeOK
    BY DEF IInv, Orderly, Good, Lists, Rows, Fits, FitsOperation, FitsStep, SeesRows, TypeOK,
           SessionOK
  <1> QED BY <1>1, Inductive, PTL

(***************************************************************************)
(* The history of no committed row is forgotten, by requests that fail     *)
(* after a flush, a broker that is down or an exception in the listener.   *)
(***************************************************************************)
THEOREM HistoryRemembered == Spec => []HistoryKept
  <1>1. IInv => HistoryKept
    BY InRows DEF IInv, AllTold, Heard, HistoryKept
  <1> QED BY <1>1, Inductive, PTL

(***************************************************************************)
(* No user is left without consent but by a request that died between its  *)
(* two commits; in particular not by the loser of a race of two logins.    *)
(***************************************************************************)
THEOREM UsersConsented == Spec => []ConsentKept
  <1>1. IInv => ConsentKept
    BY DEF IInv, AllConsented, Consented, ConsentKept
  <1> QED BY <1>1, Inductive, PTL

(***************************************************************************)
(* No account is put into a wallet behind Hermes's back, also when others  *)
(* take accounts out of their wallets and add them again meanwhile.        *)
(***************************************************************************)
THEOREM AccountsAnnounced == Spec => []PaymentAnnounced
  <1>1. IInv => PaymentAnnounced
    BY DEF IInv
  <1> QED BY <1>1, Inductive, PTL

-----------------------------------------------------------------------------
(* The users *)

(***************************************************************************)
(* No user comes or goes but with a transaction that is given up, and none *)
(* is altered.                                                             *)
(***************************************************************************)
UsersStand(w) ==
    /\ \A u : u.table = "user" =>
         /\ u \in db' => u \in db \cup tx[w]
         /\ u \in tx'[w] => u \in tx[w]
         /\ u \in db => u \in db'
         /\ u \in tx[w] => u \in db' \cup tx'[w] \/ ctx'[w].user = 0

(***************************************************************************)
(* The request of w is the same and of the same user, or has ended; it is  *)
(* not at a step that presupposes what is known of addresses.              *)
(***************************************************************************)
Presuming == {"check_new_email", "insert_user", "update_email"}

Plain(w) ==
    \/ ctx'[w] = ctx[w]
    \/ /\ ctx'[w].pc \notin Presuming
       /\ ctx'[w].req = ctx[w].req /\ ctx'[w].user = ctx[w].user
    \/ ctx'[w] = Idle /\ tx'[w] = {}

\* The operations of a session on rows of other tables.
LEMMA StandStill ==
  ASSUME NEW w \in Workers, db' = db, tx'[w] = tx[w]
  PROVE  UsersStand(w)
  BY DEF UsersStand

\* The same for a transaction that is given up.
LEMMA StandDiscard ==
  ASSUME NEW w \in Workers, db' = db, tx'[w] = {}, ctx'[w].user = 0
  PROVE  UsersStand(w)
  BY DEF UsersStand

\* The same for a row of another table.
LEMMA StandInsert ==
  ASSUME IInv, NEW w \in Workers, NEW r, r.table # "user", Insert(w, r) \/ Flush(w, r)
  PROVE  UsersStand(w)
  <1>1. \/ db' = db /\ tx'[w] = tx[w] \cup {r}
        \/ db' = db \cup tx[w] \cup {r} /\ tx'[w] = {}
    BY DEF Insert, Flush, Commit, IInv, Orderly
  <1> QED BY <1>1 DEF UsersStand

\* The same for a commit.
LEMMA StandCommit ==
  ASSUME IInv, NEW w \in Workers, NEW rows, NEW events, Commit(w, rows, {}, events),
         \A u : u.table = "user" => (u \in rows <=> u \in db)
  PROVE  UsersStand(w)
  <1>1. db' = rows \cup tx[w] /\ tx'[w] = {}
    BY DEF Commit, IInv, Orderly
  <1> QED BY <1>1 DEF UsersStand

(***************************************************************************)
(* An answer, and a step to one that presumes nothing.                     *)
(***************************************************************************)
LEMMA PlainAnswer ==
  ASSUME IInv, NEW w \in Workers, NEW status, Moves(w, Answered(ctx[w], status))
  PROVE  Plain(w)
  <1>1. ctx[w] \in Contexts /\ ctx'[w] = Answered(ctx[w], status)
    BY DEF IInv, Moves
  <1> QED BY <1>1 DEF Plain, Answered, Contexts, Presuming

\* A step to one that presumes nothing, of the same request and user.
LEMMA PlainGoto ==
  ASSUME IInv, NEW w \in Workers, NEW x, Goto(w, x), x.pc \notin Presuming,
         x.req = ctx[w].req, x.user = ctx[w].user
  PROVE  Plain(w)
  <1>1. ctx'[w] = x
    BY DEF IInv, Goto, Moves
  <1> QED BY <1>1 DEF Plain

\* The steps of a trusted creation leave the users alone.
LEMMA TrustedAddUsers ==
  ASSUME IInv, NEW w \in Workers, TrustedAdd(w)
  PROVE  UsersStand(w) /\ Plain(w)
  <1> DEFINE x == ctx[w]
  <1>1. x \in Contexts
    BY DEF IInv
  <1>2. ASSUME NEW status, Answer(w, status), UNCHANGED session
        PROVE  UsersStand(w) /\ Plain(w)
    BY <1>2, PlainAnswer, StandStill DEF Answer, Goto, session
  <1>3. CASE CheckMid(w)
    <2>1. CASE Goto(w, [x EXCEPT !.pc = "find_card"])
      <3>1. Plain(w)
        BY <1>1, <2>1, PlainGoto DEF Contexts, Presuming
      <3> QED BY <1>3, <3>1, StandStill DEF CheckMid, session
    <2> QED BY <1>2, <1>3, <2>1 DEF CheckMid
  <1>4. CASE FindCard(w)
    <2>1. UNCHANGED session
      BY <1>4 DEF FindCard
    <2>2. ASSUME NEW c, UseCard(w, c)
          PROVE  Answer(w, 409) \/ Plain(w)
      <3> DEFINE z == [x EXCEPT !.card = c.id]
      <3>1. z.req = x.req /\ z.user = x.user /\ z = [z EXCEPT !.card = c.id]
        BY <1>1 DEF Contexts
      <3>2. ASSUME NEW todo, Goto(w, [z EXCEPT !.pc = "insert_link", !.todo = todo])
            PROVE  Plain(w)
        <4> DEFINE y == [z EXCEPT !.pc = "insert_link", !.todo = todo]
        <4>1. y.pc = "insert_link" /\ y.req = x.req /\ y.user = x.user
          BY <1>1 DEF Contexts
        <4>2. Goto(w, y)
          BY <3>2
        <4> HIDE DEF y
        <4> QED BY <4>1, <4>2, PlainGoto DEF Presuming
      <3>3. ASSUME NEW todo, Goto(w, [z EXCEPT !.todo = todo,
                                       !.pc = IF todo = {} THEN "find_payment" ELSE "touch"])
            PROVE  Plain(w)
        <4> DEFINE y == [z EXCEPT !.todo = todo,
                                  !.pc = IF todo = {} THEN "find_payment" ELSE "touch"]
        <4>1. y.pc \in {"find_payment", "touch"} /\ y.req = x.req /\ y.user = x.user
          BY <1>1 DEF Contexts
        <4>2. Goto(w, y)
          BY <3>3
        <4> HIDE DEF y
        <4> QED BY <4>1, <4>2, PlainGoto DEF Presuming
      <3> QED BY <2>2, <3>2, <3>3, Zenon DEF UseCard
    <2>3. Goto(w, [x EXCEPT !.pc = "insert_card"]) => Plain(w)
      BY <1>1, PlainGoto DEF Contexts, Presuming
    <2>4. Plain(w)
      BY <1>2, <1>4, <2>1, <2>2, <2>3 DEF FindCard
    <2> QED BY <2>1, <2>4, StandStill DEF session
  <1>5. CASE InsertCard(w)
    <2> DEFINE r == [table |-> "card", id |-> serial, key |-> x.req.key,
                     mid |-> x.req.mid, dated |-> TRUE]
               y == Made([x EXCEPT !.pc = "insert_link", !.card = serial])
    <2>1. r.table = "card" /\ Insert(w, r) /\ Goto(w, y)
      BY <1>5 DEF InsertCard
    <2>2. y.pc = "insert_link" /\ y.req = x.req /\ y.user = x.user
      BY <1>1 DEF Contexts, Made
    <2> HIDE DEF r, y
    <2> QED BY <2>1, <2>2, PlainGoto, StandInsert DEF Presuming
  <1>6. CASE InsertLink(w)
    <2> DEFINE r == NewLink(x)
               y == Made([x EXCEPT !.newCard = TRUE,
                              !.pc = IF x.todo = {} THEN "find_payment" ELSE "touch"])
    <2>1. r.table = "link"
      BY DEF NewLink
    <2>2. y.pc \in {"find_payment", "touch"} /\ y.req = x.req /\ y.user = x.user
      BY <1>1 DEF Contexts, Made
    <2>3. Insert(w, r) /\ Goto(w, y) => UsersStand(w) /\ Plain(w)
      <3> HIDE DEF r, y
      <3> QED BY <2>1, <2>2, PlainGoto, StandInsert DEF Presuming
    <2> QED BY <1>2, <1>6, <2>3 DEF InsertLink
  <1>7. CASE Touch(w)
    <2> DEFINE rows == {Touched(x, r) : r \in db}
               y == [x EXCEPT !.pc = "find_payment"]
    <2>1. PICK events : Commit(w, rows, {}, events)
      BY <1>7 DEF Touch
    <2>2. \A r \in db : Touched(x, r).table = r.table /\ (r.table = "user" => Touched(x, r) = r)
      <3>1. \A r \in db : IsRow(r)
        BY InRows DEF IInv, Orderly, Good
      <3>2. \A r \in db : Kept(r, Touched(x, r))
        BY <3>1, TouchedKept
      <3> QED BY <3>2 DEF Kept, Touched
    <2>3. \A u : u.table = "user" => (u \in rows <=> u \in db)
      BY <2>2
    <2>4. Goto(w, y) /\ y.pc = "find_payment" /\ y.req = x.req /\ y.user = x.user
      BY <1>1, <1>7 DEF Touch, Contexts
    <2> HIDE DEF rows, y
    <2> QED BY <2>1, <2>3, <2>4, StandCommit, PlainGoto DEF Presuming
  <1> QED BY <1>3, <1>4, <1>5, <1>6, <1>7 DEF TrustedAdd

\* So do the steps that add a payment account.
LEMMA AddPaymentUsers ==
  ASSUME IInv, NEW w \in Workers, AddPayment(w)
  PROVE  UsersStand(w) /\ Plain(w)
  <1> DEFINE x == ctx[w]
  <1>1. x \in Contexts
    BY DEF IInv
  <1>2. ASSUME NEW status, Answer(w, status), UNCHANGED session
        PROVE  UsersStand(w) /\ Plain(w)
    BY <1>2, PlainAnswer, StandStill DEF Answer, Goto, session
  <1>3. CASE FindPayment(w)
    <2>1. Goto(w, [x EXCEPT !.pc = "insert_payment"]) => Plain(w)
      BY <1>1, PlainGoto DEF Contexts, Presuming
    <2>2. ASSUME NEW id, Goto(w, [x EXCEPT !.pc = "insert_owner", !.payment = id])
          PROVE  Plain(w)
      BY <1>1, <2>2, PlainGoto DEF Contexts, Presuming
    <2>3. ASSUME NEW id, Goto(w, AfterPayment([x EXCEPT !.payment = id]))
          PROVE  Plain(w)
      BY <1>1, <2>3, PlainGoto DEF Contexts, Presuming, AfterPayment
    <2>4. \/ UNCHANGED session
          \/ Commit(w, db, {}, <<>>)
      BY <1>3 DEF FindPayment
    <2>5. UsersStand(w)
      BY <2>4, StandStill, StandCommit DEF session
    <2> QED BY <1>3, <2>1, <2>2, <2>3, <2>5 DEF FindPayment
  <1>4. CASE InsertPayment(w)
    <2> DEFINE r == NewPayment(x)
               y == Made([x EXCEPT !.pc = "insert_owner", !.payment = serial,
                              !.newPayment = TRUE])
    <2>1. r.table = "payment"
      BY DEF NewPayment
    <2>2. y.pc = "insert_owner" /\ y.req = x.req /\ y.user = x.user
      BY <1>1 DEF Contexts, Made
    <2>3. Flush(w, r) /\ Goto(w, y) => UsersStand(w) /\ Plain(w)
      <3> HIDE DEF r, y
      <3> QED BY <2>1, <2>2, PlainGoto, StandInsert DEF Presuming
    <2> QED BY <1>2, <1>4, <2>3 DEF InsertPayment
  <1>5. CASE InsertOwner(w)
    <2> DEFINE r == NewOwner(x)
               y == Made(AfterPayment(x))
    <2>1. r.table = "owner"
      BY DEF NewOwner
    <2>2. y.pc \in {"decide", "publish"} /\ y.req = x.req /\ y.user = x.user
      BY <1>1 DEF Contexts, Made, AfterPayment
    <2>3. Insert(w, r) /\ Goto(w, y) => UsersStand(w) /\ Plain(w)
      <3> HIDE DEF r, y
      <3> QED BY <2>1, <2>2, PlainGoto, StandInsert DEF Presuming
    <2> QED BY <1>2, <1>5, <2>3 DEF InsertOwner
  <1> QED BY <1>3, <1>4, <1>5 DEF AddPayment

(***************************************************************************)
(* The other steps of a request.                                           *)
(***************************************************************************)
LEMMA RestUsers ==
  ASSUME IInv, NEW w \in Workers,
         \/ ChangePayment(w) \/ Report(w) \/ Decide(w) \/ Publish(w) \/ Close(w)
         \/ InsertConsent(w) \/ UserTaken(w) \/ Listener(w) \/ Abort(w) \/ Crash(w)
  PROVE  UsersStand(w) /\ Plain(w)
  <1> DEFINE x == ctx[w]
  <1>1. x \in Contexts
    BY DEF IInv
  <1>2. ASSUME NEW status, Moves(w, Answered(x, status)), db' = db, tx'[w] = tx[w]
        PROVE  UsersStand(w) /\ Plain(w)
    BY <1>2, PlainAnswer, StandStill
  <1>3. ASSUME NEW events, Commit(w, db, {}, events)
        PROVE  UsersStand(w)
    BY <1>3, StandCommit
  <1>4. ASSUME NEW status, Answer(w, status) PROVE Moves(w, Answered(x, status))
    BY <1>4 DEF Answer, Goto
  <1>5. CASE ChangePayment(w)
    <2>1. NotOwned(w) => UsersStand(w) /\ Plain(w)
      BY <1>2, <1>4 DEF NotOwned, session
    <2>2. CASE UpdatePayment(w)
      <3>1. Plain(w)
        BY <1>4, <2>2, PlainAnswer DEF UpdatePayment
      <3> QED BY <1>3, <2>2, <3>1, StandStill DEF UpdatePayment, session
    <2>3. CASE DeletePayment(w)
      <3>1. Plain(w)
        BY <1>1, <2>3, PlainGoto DEF DeletePayment, Contexts, Presuming
      <3> QED BY <2>3, <3>1, StandStill DEF DeletePayment, session
    <2> QED BY <1>5, <2>1, <2>2, <2>3 DEF ChangePayment
  <1>6. CASE Report(w)
    BY <1>2, <1>4, <1>6 DEF Report
  <1>7. CASE Decide(w)
    <2>1. Goto(w, [x EXCEPT !.pc = "publish"]) => Plain(w)
      BY <1>1, PlainGoto DEF Contexts, Presuming
    <2> QED BY <1>2, <1>3, <1>4, <1>7, <2>1 DEF Decide, session
  <1>8. CASE Publish(w)
    BY <1>2, <1>4, <1>8 DEF Publish
  <1>9. ASSUME Discard(w) \/ (\E owed : Die(w, owed)), ctx' = [ctx EXCEPT ![w] = Idle]
        PROVE  UsersStand(w) /\ Plain(w)
    <2>1. db' = db /\ tx'[w] = {} /\ ctx'[w] = Idle /\ Idle.user = 0
      BY <1>9 DEF Discard, Die, IInv, Orderly, Idle
    <2> QED BY <2>1, StandDiscard DEF Plain
  <1>10. CASE Close(w)
    BY <1>9, <1>10 DEF Close, Goto, Moves
  <1>11. CASE InsertConsent(w)
    <2> DEFINE r == [table |-> "consent", id |-> serial, user |-> x.user]
               y == AfterUser(Made(x))
    <2>1. r.table = "consent" /\ Insert(w, r) /\ Goto(w, y)
      BY <1>11 DEF InsertConsent
    <2>2. y.pc \in {"check_mid", "publish"} /\ y.req = x.req /\ y.user = x.user
      BY <1>1 DEF Contexts, Made, AfterUser
    <2> HIDE DEF r, y
    <2> QED BY <2>1, <2>2, PlainGoto, StandInsert DEF Presuming
  <1>12. CASE UserTaken(w)
    <2>1. Plain(w)
      BY <1>1, <1>12, PlainGoto DEF UserTaken, Contexts, Presuming
    <2>2. x.user = 0 /\ ctx'[w] = [x EXCEPT !.pc = "reselect"]
      BY <1>12 DEF UserTaken, At, IInv, Fits, FitsStep, LookUps, Goto, Moves
    <2>3. ctx'[w].user = 0
      BY <1>1, <2>2 DEF Contexts
    <2>4. db' = db /\ tx'[w] = {}
      BY <1>12 DEF UserTaken, Discard, IInv, Orderly
    <2> QED BY <2>1, <2>3, <2>4, StandDiscard
  <1>13. CASE Listener(w)
    BY <1>13, StandStill DEF Listener, Send, Requeue, Plain
  <1>14. CASE Abort(w)
    BY <1>2, <1>14 DEF Abort, DispatchRaises
  <1>15. CASE Crash(w)
    BY <1>9, <1>15 DEF Crash, Moves
  <1> QED BY <1>5, <1>6, <1>7, <1>8, <1>10, <1>11, <1>12, <1>13, <1>14, <1>15

(***************************************************************************)
(* The look-ups: what is known of users and addresses after them.          *)
(***************************************************************************)
IsOf(u, x) == u.table = "user" /\ u.id = x.user /\ u.ext = x.req.ext

Seeks(w) ==
    Receive(w) \/ FindUser(w) \/ CheckNewEmail(w) \/ Reselect(w) \/ CheckEmail(w)

Found(w) ==
    LET x == ctx[w]
        y == ctx'[w]
    IN  /\ tx[w] = {} \/ y.req = x.req
        /\ y.user # 0 => \/ y.user = x.user /\ y.req = x.req
                         \/ \E u \in Visible(w) : IsOf(u, y)
        /\ y.pc = "check_new_email" => \A u \in Visible(w) : u.table = "user" => u.ext # y.req.ext
        /\ y.pc = "insert_user" =>
             /\ x.pc = "check_new_email" /\ y.req = x.req
             /\ \A u \in Visible(w) : u.table = "user" => u.email # y.req.email
        /\ y.pc = "update_email" =>
             \A u \in db : u.table = "user" /\ u.email = y.req.email => u.id = y.user

\* An answer says nothing of them.
LEMMA FoundAnswer ==
  ASSUME IInv, NEW w \in Workers, NEW status, Answer(w, status)
  PROVE  Found(w)
  <1>1. ctx[w] \in Contexts /\ ctx'[w] = Answered(ctx[w], status)
    BY DEF IInv, Answer, Goto, Moves
  <1> QED BY <1>1 DEF Found, Answered, Contexts

\* A user that has been found.
LEMMA FoundUser ==
  ASSUME IInv, NEW w \in Workers, NEW u \in UsersOf(w, ctx[w].req.ext), NEW x, x.req = ctx[w].req,
         x.user = u.id, x.pc \notin Presuming, Goto(w, x)
  PROVE  Found(w)
  <1>1. ctx'[w] = x
    BY DEF IInv, Goto, Moves
  <1>2. u \in Visible(w) /\ IsOf(u, x)
    BY DEF UsersOf, In, IsOf
  <1> QED BY <1>1, <1>2 DEF Found, Presuming

\* Each look-up knows what Found says, and changes no row.
LEMMA SeekSteps ==
  ASSUME IInv, NEW w \in Workers, Seeks(w)
  PROVE  Found(w) /\ UNCHANGED session
  <1> DEFINE x == ctx[w]
  <1>1. x \in Contexts
    BY DEF IInv
  <1>2. CASE Receive(w)
    <2>1. tx[w] = {} /\ UNCHANGED session
      BY <1>2 DEF Receive, IInv, Fits
    <2>2. PICK req \in Requests :
            LET y == [Idle EXCEPT !.req = req, !.pc = FirstQuery[req.op]] IN
            \/ ctx' = [ctx EXCEPT ![w] = y]
            \/ \E u \in In(db, "user"), p \in Named(req) :
                 u.ext = req.ext /\ ctx' = [ctx EXCEPT ![w] = [y EXCEPT !.user = u.id, !.payment = p]]
      BY <1>2 DEF Receive
    <2>3. FirstQuery[req.op] \in {"find_user", "find_payment", "find_own", "check_email"}
      BY RequestsAssumption DEF FirstQuery, Ops
    <2>4. CASE ctx' = [ctx EXCEPT ![w] = [Idle EXCEPT !.req = req, !.pc = FirstQuery[req.op]]]
      <3>1. ctx'[w].pc = FirstQuery[req.op] /\ ctx'[w].user = 0
        BY <2>4 DEF Idle, IInv
      <3> QED BY <2>1, <2>3, <3>1 DEF Found
    <2>5. ASSUME NEW u \in In(db, "user"), NEW p, u.ext = req.ext,
                 ctx' = [ctx EXCEPT ![w] = [[Idle EXCEPT !.req = req, !.pc = FirstQuery[req.op]]
                               EXCEPT !.user = u.id, !.payment = p]]
          PROVE  Found(w)
      <3>1. ctx'[w].pc = FirstQuery[req.op] /\ ctx'[w].user = u.id /\ ctx'[w].req = req
        BY <2>5 DEF Idle, IInv
      <3>2. u \in Visible(w) /\ IsOf(u, ctx'[w])
        BY <2>5, <3>1 DEF In, Visible, IsOf
      <3> QED BY <2>1, <2>3, <3>1, <3>2 DEF Found
    <2> QED BY <2>1, <2>2, <2>4, <2>5
  <1>3. CASE FindUser(w)
    <2>1. ASSUME UsersOf(w, x.req.ext) = {}, Goto(w, [x EXCEPT !.pc = "check_new_email"])
          PROVE  Found(w)
      <3>1. ctx'[w] = [x EXCEPT !.pc = "check_new_email"]
        BY <2>1 DEF IInv, Goto, Moves
      <3>2. /\ ctx'[w].pc = "check_new_email" /\ ctx'[w].user = x.user
            /\ ctx'[w].req = x.req
        BY <1>1, <3>1 DEF Contexts
      <3>3. \A u \in Visible(w) : u.table = "user" => u.ext # x.req.ext
        BY <2>1 DEF UsersOf, In
      <3> QED BY <3>2, <3>3 DEF Found
    <2>2. ASSUME NEW u \in UsersOf(w, x.req.ext), Goto(w, AfterUser([x EXCEPT !.user = u.id]))
          PROVE  Found(w)
      <3> DEFINE y == AfterUser([x EXCEPT !.user = u.id])
      <3>1. y.req = x.req /\ y.user = u.id /\ y.pc \notin Presuming
        BY <1>1 DEF Contexts, AfterUser, Presuming
      <3>2. Goto(w, y)
        BY <2>2
      <3> HIDE DEF y
      <3> QED BY <3>1, <3>2, FoundUser
    <2> QED BY <1>3, <2>1, <2>2, FoundAnswer DEF FindUser
  <1>4. CASE CheckNewEmail(w)
    <2>1. ASSUME ~\E u \in In(Visible(w), "user") : u.email = x.req.email,
                 Goto(w, [x EXCEPT !.pc = "insert_user"])
          PROVE  Found(w)
      <3>1. ctx'[w] = [x EXCEPT !.pc = "insert_user"] /\ x.pc = "check_new_email"
        BY <1>4, <2>1 DEF IInv, Goto, Moves, CheckNewEmail, At
      <3>2. /\ ctx'[w].pc = "insert_user" /\ ctx'[w].user = x.user
            /\ ctx'[w].req = x.req
        BY <1>1, <3>1 DEF Contexts
      <3>3. \A u \in Visible(w) : u.table = "user" => u.email # x.req.email
        BY <2>1 DEF In
      <3> QED BY <3>1, <3>2, <3>3 DEF Found
    <2> QED BY <1>4, <2>1, FoundAnswer DEF CheckNewEmail
  <1>5. CASE Reselect(w)
    <2>1. ASSUME NEW u \in UsersOf(w, x.req.ext),
                 Goto(w, AfterUser([x EXCEPT !.user = u.id, !.newUser = TRUE]))
          PROVE  Found(w)
      <3> DEFINE y == AfterUser([x EXCEPT !.user = u.id, !.newUser = TRUE])
      <3>1. y.req = x.req /\ y.user = u.id /\ y.pc \notin Presuming
        BY <1>1 DEF Contexts, AfterUser, Presuming
      <3>2. Goto(w, y)
        BY <2>1
      <3> HIDE DEF y
      <3> QED BY <3>1, <3>2, FoundUser
    <2> QED BY <1>5, <2>1, FoundAnswer DEF Reselect
  <1>6. CASE CheckEmail(w)
    <2> DEFINE found == {u \in In(db, "user") : u.email = x.req.email}
    <2>1. ASSUME found \subseteq {u \in found : u.id = x.user},
                 Goto(w, [x EXCEPT !.pc = "update_email"])
          PROVE  Found(w)
      <3>1. ctx'[w] = [x EXCEPT !.pc = "update_email"]
        BY <2>1 DEF IInv, Goto, Moves
      <3>2. /\ ctx'[w].pc = "update_email" /\ ctx'[w].user = x.user
            /\ ctx'[w].req = x.req
        BY <1>1, <3>1 DEF Contexts
      <3>3. \A u \in db : u.table = "user" /\ u.email = x.req.email => u.id = x.user
        BY <2>1 DEF In
      <3> QED BY <3>2, <3>3 DEF Found
    <2> QED BY <1>6, <2>1, FoundAnswer DEF CheckEmail
  <1>7. UNCHANGED session
    BY DEF Seeks, Receive, FindUser, CheckNewEmail, Reselect, CheckEmail
  <1> QED BY <1>2, <1>3, <1>4, <1>5, <1>6, <1>7 DEF Seeks

(***************************************************************************)
(* A user is inserted: no row, committed or flushed, has its external id   *)
(* and its address.                                                        *)
(***************************************************************************)
Joins(w) ==
    LET x == ctx[w]
        r == NewUser(x)
    IN  /\ x.pc = "insert_user" /\ x.req.op \in {"token", "create_trusted"} /\ x.req \in Requests
        /\ \A s \in Rows : s.table = "user" => s.ext # r.ext \/ s.email # r.email
        /\ r.table = "user" /\ r.ext = x.req.ext /\ r.email = x.req.email
        /\ \/ db' = db /\ tx'[w] = tx[w] \cup {r}
           \/ db' = db \cup tx[w] \cup {r} /\ tx'[w] = {}
        /\ ctx'[w].pc = "insert_consent" /\ ctx'[w].req = x.req /\ ctx'[w].user = r.id

\* The insert of a user does.
LEMMA JoinStep ==
  ASSUME IInv, NEW w \in Workers, InsertUser(w)
  PROVE  Joins(w)
  <1> DEFINE x == ctx[w]
             r == NewUser(x)
  <1>1. /\ x \in Contexts /\ x.pc = "insert_user" /\ x.req.op \in {"token", "create_trusted"}
        /\ x.req \in Requests
    BY DEF InsertUser, At, IInv, Fits, FitsOperation, LoginSteps, LookUps
  <1>2. /\ r.table = "user" /\ r.ext = x.req.ext /\ r.email = x.req.email /\ r.id = serial
    BY DEF NewUser
  <1>3. ctx'[w] = Made([x EXCEPT !.pc = "insert_consent", !.user = serial, !.newUser = TRUE])
    BY DEF InsertUser, Goto, Moves, IInv
  <1>4. ctx'[w].pc = "insert_consent" /\ ctx'[w].req = x.req /\ ctx'[w].user = serial
    BY <1>1, <1>3 DEF Contexts, Made
  <1>5. Insert(w, r)
    BY DEF InsertUser
  <1> HIDE DEF r
  <1>6. \/ db' = db /\ tx'[w] = tx[w] \cup {r}
        \/ db' = db \cup tx[w] \cup {r} /\ tx'[w] = {}
    BY <1>5 DEF Insert, Flush, Commit, IInv, Orderly
  <1>7. \A s \in Rows : ~Clash(r, s)
    BY <1>5, InRows DEF Insert, Waits, Taken, Visible
  <1>8. \A s \in Rows : s.table = "user" => s.ext # r.ext \/ s.email # r.email
    BY <1>2, <1>7 DEF Clash
  <1> QED BY <1>1, <1>2, <1>4, <1>6, <1>8 DEF Joins, r

(***************************************************************************)
(* A user gets another address.                                            *)
(***************************************************************************)
Renames(w) ==
    LET x == ctx[w] IN
    /\ x.pc = "update_email" /\ x.req.op = "email_update" /\ x.req \in Requests /\ tx'[w] = tx[w]
    /\ ctx'[w].pc = "report" /\ ctx'[w].req = x.req /\ ctx'[w].user = x.user
    /\ \E u \in db : \E s :
         /\ u.table = "user" /\ u.id = x.user
         /\ s.table = "user" /\ s.id = x.user /\ s.ext = u.ext /\ s.email = x.req.email
         /\ db' = (db \ {u}) \cup {s}

\* The update of an address does, or it fails and nothing changes.
LEMMA RenameStep ==
  ASSUME IInv, NEW w \in Workers, UpdateEmail(w)
  PROVE  Renames(w) \/ (UsersStand(w) /\ Plain(w))
  <1> DEFINE x == ctx[w]
             u == Row(w, "user", x.user)
             s == [u EXCEPT !.email = x.req.email]
  <1>1. /\ x.pc = "update_email" /\ x \in Contexts /\ x.req \in Requests
        /\ x.req.op = "email_update" /\ x.user # 0 /\ tx[w] = {} /\ Names(w, x.user, "user")
    BY DEF UpdateEmail, At, IInv, Fits, FitsOperation, FitsStep, SeesRows, EmailSteps, Trusted
  <1>2. CASE Answer(w, 500) /\ UNCHANGED session
    BY <1>2, PlainAnswer, StandStill DEF Answer, Goto, session
  <1>3. CASE /\ Commit(w, (db \ {u}) \cup {s}, {}, <<>>)
             /\ Goto(w, [x EXCEPT !.pc = "report"])
    <2>1. u \in db /\ u.table = "user" /\ u.id = x.user
      BY <1>1 DEF Row, Names, Visible
    <2>2. IsRow(u)
      BY <2>1, InRows DEF IInv, Orderly, Good
    <2>3. s.table = "user" /\ s.id = x.user /\ s.ext = u.ext /\ s.email = x.req.email
      BY <2>1, <2>2 DEF IsRow, Columns
    <2>4. ctx'[w] = [x EXCEPT !.pc = "report"]
      BY <1>3 DEF Goto, Moves, IInv
    <2>5. ctx'[w].pc = "report" /\ ctx'[w].req = x.req /\ ctx'[w].user = x.user
      BY <1>1, <2>4 DEF Contexts
    <2> HIDE DEF u, s
    <2>6. db' = (db \ {u}) \cup {s} /\ tx'[w] = tx[w]
      BY <1>1, <1>3 DEF Commit, IInv, Orderly
    <2> QED BY <1>1, <2>1, <2>3, <2>5, <2>6 DEF Renames
  <1> QED BY <1>2, <1>3 DEF UpdateEmail

(***************************************************************************)
(* What a step does to the users, and to what is known of them.            *)
(***************************************************************************)
UserStep(w) ==
    /\ \A v \in Workers \ {w} : ctx'[v] = ctx[v] /\ tx'[v] = tx[v]
    /\ \/ UsersStand(w) /\ Plain(w)
       \/ Found(w) /\ db' = db /\ tx'[w] = tx[w]
       \/ Joins(w)
       \/ Renames(w)

UsersAlone ==
    ctx' = ctx /\ tx' = tx /\ \A u : u.table = "user" => (u \in db' <=> u \in db)

\* Every step of a worker is one of these.
LEMMA WorkerUsers ==
  ASSUME IInv, NEW w \in Workers,
         Receive(w) \/ Proceed(w) \/ Listener(w) \/ Abort(w) \/ Crash(w)
  PROVE  UserStep(w)
  <1>1. StepKeeps(w)
    BY ReceiveKeeps, ProceedKeeps, ListenerStepKeeps, AbortKeeps, CrashKeeps
  <1>2. \A v \in Workers \ {w} : ctx'[v] = ctx[v] /\ tx'[v] = tx[v]
    BY <1>1 DEF StepKeeps, SessionKept, OthersKept, IInv
  <1>3. CASE Seeks(w)
    BY <1>2, <1>3, SeekSteps DEF UserStep, session
  <1>4. CASE InsertUser(w)
    BY <1>2, <1>4, JoinStep DEF UserStep
  <1>5. CASE UpdateEmail(w)
    BY <1>2, <1>5, RenameStep DEF UserStep
  <1>6. CASE \/ ChangePayment(w) \/ Report(w) \/ Decide(w) \/ Publish(w) \/ Close(w)
             \/ InsertConsent(w) \/ UserTaken(w) \/ Listener(w) \/ Abort(w) \/ Crash(w)
    BY <1>2, <1>6, RestUsers DEF UserStep
  <1>7. CASE TrustedAdd(w)
    BY <1>2, <1>7, TrustedAddUsers DEF UserStep
  <1>8. CASE AddPayment(w)
    BY <1>2, <1>8, AddPaymentUsers DEF UserStep
  <1> QED BY <1>3, <1>4, <1>5, <1>6, <1>7, <1>8 DEF Proceed, Login, ChangeEmail, Seeks

\* Hermes has no business with users.
LEMMA HermesUsers ==
  ASSUME IInv, Hermes
  PROVE  UsersAlone
  <1>1. ctx' = ctx /\ tx' = tx
    BY DEF Hermes
  <1>2. \A p \in In(db, "payment") : IsRow(p) /\ p.table = "payment" /\ p \in db
    BY InRows DEF In, IInv, Orderly, Good
  <1>3. \A p \in In(db, "payment") :
            [p EXCEPT !.pll = TRUE].table = "payment" /\ Closed(p).table = "payment"
    BY <1>2, Linked, ClosedKept DEF Kept
  <1>4. ASSUME NEW p \in In(db, "payment"), HermesLinks(p) \/ HermesDeletes(p)
        PROVE  \A u : u.table = "user" => (u \in db' <=> u \in db)
    BY <1>2, <1>3, <1>4 DEF HermesLinks, HermesDeletes
  <1>5. ASSUME NEW o \in In(db, "owner"), HermesRemoves(o)
        PROVE  \A u : u.table = "user" => (u \in db' <=> u \in db)
    BY <1>2, <1>3, <1>5 DEF HermesRemoves, In
  <1> QED BY <1>1, <1>4, <1>5 DEF Hermes, UsersAlone

\* Every step of the system.
LEMMA NextUsers ==
  ASSUME IInv, [Next]_vars
  PROVE  UsersAlone \/ \E w \in Workers : UserStep(w)
  <1>1. UNCHANGED vars => UsersAlone
    BY DEF vars, session, UsersAlone
  <1> QED BY <1>1, WorkerUsers, HermesUsers DEF Next, Terminated

(***************************************************************************)
(* The user a request is about has the external id its token names, and a  *)
(* user that is flushed is the one of the login that flushed it.           *)
(***************************************************************************)
OwnUser(w) == ctx[w].user # 0 => \E u \in Visible(w) : IsOf(u, ctx[w])

LogsIn(r) == r \in Requests /\ r.op \in {"token", "create_trusted"}

FlushedOwn(w) ==
    \A u \in tx[w] : u.table = "user" =>
        LogsIn(ctx[w].req) /\ u.ext = ctx[w].req.ext /\ u.email = ctx[w].req.email

UsersOwn == \A w \in Workers : OwnUser(w) /\ FlushedOwn(w)

\* No step takes a user's row or its external id away.
LEMMA UsersStay ==
  ASSUME IInv, NEW w \in Workers, UserStep(w), NEW u \in db, u.table = "user"
  PROVE  \E s \in db' : s.table = "user" /\ s.id = u.id /\ s.ext = u.ext
  <1>1. CASE u \in db'
    BY <1>1
  <1>2. CASE Renames(w)
    BY <1>2 DEF Renames
  <1> QED BY <1>1, <1>2 DEF UserStep, UsersStand, Joins

\* A step keeps both.
LEMMA OwnStep ==
  ASSUME IInv, UsersOwn, NEW w \in Workers, UserStep(w)
  PROVE  UsersOwn'
  <1>1. \A u \in db : u.table = "user" =>
            \E s \in db' : s.table = "user" /\ s.id = u.id /\ s.ext = u.ext
    BY UsersStay
  <1>2. ASSUME NEW v \in Workers, v # w
        PROVE  OwnUser(v)' /\ FlushedOwn(v)'
    <2>1. ctx'[v] = ctx[v] /\ tx'[v] = tx[v] /\ OwnUser(v) /\ FlushedOwn(v)
      BY <1>2 DEF UserStep, UsersOwn
    <2> QED BY <1>1, <2>1 DEF OwnUser, FlushedOwn, Visible, IsOf
  <1>3. OwnUser(w) /\ FlushedOwn(w)
    BY DEF UsersOwn
  <1>4. ASSUME UsersStand(w) /\ Plain(w)
        PROVE  OwnUser(w)' /\ FlushedOwn(w)'
    <2>1. Idle.user = 0
      BY DEF Idle
    <2>2. OwnUser(w)'
      BY <1>3, <1>4, <2>1 DEF OwnUser, UsersStand, Plain, Visible, IsOf
    <2>3. FlushedOwn(w)'
      BY <1>3, <1>4 DEF FlushedOwn, UsersStand, Plain
    <2> QED BY <2>2, <2>3
  <1>5. ASSUME Found(w) /\ db' = db /\ tx'[w] = tx[w]
        PROVE  OwnUser(w)' /\ FlushedOwn(w)'
    <2>1. OwnUser(w)'
      BY <1>3, <1>5 DEF OwnUser, Found, Visible, IsOf
    <2>2. FlushedOwn(w)'
      BY <1>3, <1>5 DEF FlushedOwn, Found
    <2> QED BY <2>1, <2>2
  <1>6. ASSUME Joins(w)
        PROVE  OwnUser(w)' /\ FlushedOwn(w)'
    <2> DEFINE r == NewUser(ctx[w])
    <2>1. r \in db' \cup tx'[w]
      BY <1>6 DEF Joins
    <2>2. OwnUser(w)'
      BY <1>6, <2>1 DEF OwnUser, Joins, Visible, IsOf
    <2>3. \A u \in tx'[w] : u = r \/ u \in tx[w]
      BY <1>6 DEF Joins
    <2>4. FlushedOwn(w)'
      BY <1>3, <1>6, <2>3 DEF FlushedOwn, Joins, LogsIn
    <2> QED BY <2>2, <2>4
  <1>7. ASSUME Renames(w)
        PROVE  OwnUser(w)' /\ FlushedOwn(w)'
    <2>1. ctx'[w].user = ctx[w].user /\ ctx'[w].req = ctx[w].req /\ tx'[w] = tx[w]
      BY <1>7 DEF Renames
    <2> QED BY <1>1, <1>3, <2>1 DEF OwnUser, FlushedOwn, Visible, IsOf
  <1> QED BY <1>2, <1>4, <1>5, <1>6, <1>7 DEF UserStep, UsersOwn

\* They hold in every state.
LEMMA UsersOwned == Spec => []UsersOwn
  <1>1. Init => UsersOwn
    BY DEF Init, SessionInit, UsersOwn, OwnUser, FlushedOwn, Idle
  <1>2. IInv /\ UsersOwn /\ [Next]_vars => UsersOwn'
    <2> SUFFICES ASSUME IInv, UsersOwn, [Next]_vars PROVE UsersOwn'
      OBVIOUS
    <2>1. CASE UsersAlone
      BY <2>1 DEF UsersAlone, UsersOwn, OwnUser, FlushedOwn, Visible, IsOf
    <2> QED BY <2>1, NextUsers, OwnStep
  <1> QED BY <1>1, <1>2, Inductive, PTL DEF Spec

(***************************************************************************)
(* An external user that logs in always does so with one address, and      *)
(* never changes it.                                                       *)
(***************************************************************************)
SettledAddresses ==
    \A r, s \in Requests :
        LogsIn(r) /\ r.ext = s.ext => IF LogsIn(s) THEN r.email = s.email
                                                   ELSE s.op # "email_update"

(***************************************************************************)
(* The users committed or flushed differ in their external ids, and those  *)
(* that a first login could clash with in its insert would do so in both   *)
(* columns of the unique constraint.                                       *)
(***************************************************************************)
OneRowPerExt == \A u, v \in Rows : u.table = "user" /\ v.table = "user" /\ u.ext = v.ext => u = v

NoOtherAddress(w) ==
    ctx[w].pc \in {"check_new_email", "insert_user"} =>
        \A u \in Rows : u.table = "user" /\ u.ext = ctx[w].req.ext => u.email = ctx[w].req.email

ExtsApart == OneRowPerExt /\ \A w \in Workers : NoOtherAddress(w)

\* A step keeps the external ids apart.
LEMMA ExtStep ==
  ASSUME IInv, IInv', UsersOwn, SettledAddresses, ExtsApart, NEW w \in Workers, UserStep(w)
  PROVE  ExtsApart'
  <1> DEFINE x == ctx[w]
  <1>1. ASSUME NEW v \in Workers, ctx[v].pc \in {"check_new_email", "insert_user"}
        PROVE  LogsIn(ctx[v].req)
    BY <1>1 DEF IInv, Fits, FitsOperation, LogsIn, LoginSteps, LookUps
  <1>2. ASSUME NEW v \in Workers, ctx'[v].pc \in {"check_new_email", "insert_user"}
        PROVE  LogsIn(ctx'[v].req)
    BY <1>2 DEF IInv, Fits, FitsOperation, LogsIn, LoginSteps, LookUps
  <1>3. /\ \A v \in Workers \ {w} : ctx'[v] = ctx[v] /\ tx'[v] = tx[v]
        /\ \A v \in Workers : NoOtherAddress(v)
    BY DEF UserStep, ExtsApart
  <1>4. ASSUME \A u \in Rows' : u.table = "user" => u \in Rows, NoOtherAddress(w)'
        PROVE  ExtsApart'
    <2>1. OneRowPerExt'
      BY <1>4 DEF ExtsApart, OneRowPerExt
    <2>2. \A v \in Workers : NoOtherAddress(v)'
      BY <1>3, <1>4 DEF NoOtherAddress
    <2> QED BY <2>1, <2>2 DEF ExtsApart
  <1>5. CASE UsersStand(w) /\ Plain(w)
    <2>1. \A u \in Rows' : u.table = "user" => u \in Rows
      BY <1>3, <1>5, InRows, InRowsNext DEF UsersStand
    <2>2. NoOtherAddress(w)'
      BY <1>3, <1>5, <2>1 DEF NoOtherAddress, Plain, Presuming, Idle
    <2> QED BY <1>4, <2>1, <2>2
  <1>6. CASE Found(w) /\ db' = db /\ tx'[w] = tx[w]
    <2>1. \A u : u \in Rows' <=> u \in Rows
      BY <1>3, <1>6, InRows, InRowsNext
    <2>2. ASSUME ctx'[w].pc = "check_new_email" PROVE NoOtherAddress(w)'
      <3> SUFFICES ASSUME NEW u \in Rows, u.table = "user", u.ext = ctx'[w].req.ext
                   PROVE  u.email = ctx'[w].req.email
        BY <2>1 DEF NoOtherAddress
      <3>1. u \notin Visible(w)
        BY <1>6, <2>2 DEF Found
      <3>2. PICK v \in Workers : u \in tx[v]
        BY <3>1, InRows DEF Visible
      <3>3. LogsIn(ctx[v].req) /\ u.ext = ctx[v].req.ext /\ u.email = ctx[v].req.email
        BY <3>2 DEF UsersOwn, FlushedOwn
      <3>4. LogsIn(ctx'[w].req)
        BY <1>2, <2>2
      <3> QED BY <3>3, <3>4 DEF SettledAddresses, LogsIn
    <2>3. ASSUME ctx'[w].pc = "insert_user" PROVE NoOtherAddress(w)'
      BY <1>3, <1>6, <2>1, <2>3 DEF Found, NoOtherAddress
    <2>4. NoOtherAddress(w)'
      BY <2>2, <2>3 DEF NoOtherAddress
    <2> QED BY <1>4, <2>1, <2>4
  <1>7. CASE Joins(w)
    <2> DEFINE r == NewUser(x)
    <2>1. /\ r.table = "user" /\ r.ext = x.req.ext /\ r.email = x.req.email
          /\ LogsIn(x.req) /\ x.pc = "insert_user"
          /\ ctx'[w].pc = "insert_consent"
          /\ \A s \in Rows : s.table = "user" => s.ext # r.ext \/ s.email # r.email
      BY <1>7 DEF Joins, LogsIn
    <2>2. \A s \in Rows' : s \in Rows \/ s = r
      BY <1>3, <1>7, InRows, InRowsNext DEF Joins
    <2> HIDE DEF r
    <2>3. \A s \in Rows : s.table = "user" => s.ext # r.ext
      BY <1>3, <2>1 DEF NoOtherAddress
    <2>4. OneRowPerExt'
      BY <2>2, <2>3 DEF ExtsApart, OneRowPerExt
    <2>5. ASSUME NEW v \in Workers PROVE NoOtherAddress(v)'
      <3>1. CASE v = w
        BY <2>1, <3>1 DEF NoOtherAddress
      <3>2. ASSUME v # w, ctx[v].pc \in {"check_new_email", "insert_user"}, r.ext = ctx[v].req.ext
            PROVE  r.email = ctx[v].req.email
        BY <1>1, <2>1, <3>2 DEF SettledAddresses, LogsIn
      <3> QED BY <1>3, <2>2, <3>1, <3>2 DEF NoOtherAddress
    <2> QED BY <2>4, <2>5 DEF ExtsApart
  <1>8. CASE Renames(w)
    <2>0. PICK u \in db : \E s :
            /\ u.table = "user" /\ u.id = x.user
            /\ s.table = "user" /\ s.id = x.user /\ s.ext = u.ext /\ s.email = x.req.email
            /\ db' = (db \ {u}) \cup {s}
      BY <1>8 DEF Renames
    <2>1. PICK s :
            /\ u.table = "user" /\ u.id = x.user
            /\ s.table = "user" /\ s.id = x.user /\ s.ext = u.ext /\ s.email = x.req.email
            /\ db' = (db \ {u}) \cup {s}
      BY <2>0
    <2>2. \A t \in Rows' : t = s \/ (t \in Rows /\ t # u)
      <3>1. \A v \in Workers : tx'[v] = tx[v]
        BY <1>3, <1>8 DEF Renames
      <3>2. \A v \in Workers : u \notin tx[v]
        BY DEF IInv, Orderly, Apart
      <3> QED BY <2>1, <3>1, <3>2, InRows, InRowsNext
    <2>3. u \in Rows
      BY InRows
    <2>4. OneRowPerExt'
      BY <2>1, <2>2, <2>3 DEF ExtsApart, OneRowPerExt
    <2>5. u.ext = x.req.ext
      <3>1. x.user # 0
        BY <1>8 DEF Renames, IInv, Fits, FitsStep
      <3>2. PICK t \in Visible(w) : IsOf(t, x)
        BY <3>1 DEF UsersOwn, OwnUser
      <3>3. t = u
        BY <2>1, <2>3, <3>2, InRows DEF IInv, Orderly, Good, Visible, IsOf
      <3> QED BY <3>2, <3>3 DEF IsOf
    <2>6. ASSUME NEW v \in Workers PROVE NoOtherAddress(v)'
      <3>1. CASE v = w
        BY <1>8, <3>1 DEF NoOtherAddress, Renames
      <3>2. ASSUME v # w, ctx[v].pc \in {"check_new_email", "insert_user"}
            PROVE  s.ext # ctx[v].req.ext
        <4>1. LogsIn(ctx[v].req)
          BY <1>1, <3>2
        <4>2. x.req \in Requests /\ x.req.op = "email_update"
          BY <1>8 DEF Renames
        <4>3. ~LogsIn(x.req)
          BY <4>2 DEF LogsIn
        <4> QED BY <2>1, <2>5, <4>1, <4>2, <4>3 DEF SettledAddresses, LogsIn
      <3> QED BY <1>3, <2>2, <3>1, <3>2 DEF NoOtherAddress
    <2> QED BY <2>4, <2>6 DEF ExtsApart
  <1> QED BY <1>5, <1>6, <1>7, <1>8 DEF UserStep

(***************************************************************************)
(* The unique constraint on users covers the external id together with the *)
(* address.  It ends the race of two first logins of one external user, of *)
(* any number of workers, with faults, within create_trusted or not, as    *)
(* long as both give the address the user keeps (token.py:280).            *)
(***************************************************************************)
THEOREM OneRowPerUser == SettledAddresses /\ Spec /\ OneUserPerExt => []OneUserPerExt
  <1>1. SettledAddresses => SettledAddresses'
    BY DEF SettledAddresses, LogsIn
  <1>2. Init /\ OneUserPerExt => ExtsApart
    <2> SUFFICES ASSUME Init, OneUserPerExt PROVE ExtsApart
      OBVIOUS
    <2>1. \A r : r \in Rows <=> r \in db
      BY InRows DEF Init, SessionInit
    <2>2. \A w \in Workers : ctx[w].pc = "idle"
      BY DEF Init, Idle
    <2> QED BY <2>1, <2>2 DEF ExtsApart, OneRowPerExt, NoOtherAddress, OneUserPerExt, In
  <1>3. IInv /\ IInv' /\ UsersOwn /\ SettledAddresses /\ ExtsApart /\ [Next]_vars => ExtsApart'
    <2> SUFFICES ASSUME IInv, IInv', UsersOwn, SettledAddresses, ExtsApart, [Next]_vars
                 PROVE  ExtsApart'
      OBVIOUS
    <2>1. CASE UsersAlone
      <3>1. \A u : u.table = "user" => (u \in Rows' <=> u \in Rows)
        BY <2>1, InRows, InRowsNext DEF UsersAlone
      <3>2. ctx' = ctx
        BY <2>1 DEF UsersAlone
      <3> QED BY <3>1, <3>2 DEF ExtsApart, OneRowPerExt, NoOtherAddress
    <2> QED BY <2>1, NextUsers, ExtStep
  <1>4. ExtsApart => OneUserPerExt
    BY InRows DEF ExtsApart, OneRowPerExt, OneUserPerExt, In
  <1> QED BY <1>1, <1>2, <1>3, <1>4, UsersOwned, Inductive, PTL DEF Spec

(***************************************************************************)
(* One request at a time.                                                  *)
(***************************************************************************)
OneWorker == \A v, w \in Workers : v = w

(***************************************************************************)
(* The users committed or flushed differ in their addresses; the one to be *)
(* given to a user nobody has, or that user alone.                         *)
(***************************************************************************)
OneRowPerEmail ==
    \A u, v \in Rows : u.table = "user" /\ v.table = "user" /\ u.email = v.email => u = v

AddressFree(w) ==
    \A u \in Rows : u.table = "user" /\ u.email = ctx[w].req.email =>
        /\ ctx[w].pc # "insert_user"
        /\ ctx[w].pc = "update_email" => u.id = ctx[w].user

EmailsApart == OneRowPerEmail /\ \A w \in Workers : AddressFree(w)

\* What a step of the only worker does to them.
LEMMA EmailStep ==
  ASSUME IInv, IInv', OneWorker, EmailsApart, NEW w \in Workers, UserStep(w)
  PROVE  EmailsApart'
  <1> DEFINE x == ctx[w]
  <1>1. \A v \in Workers : v = w
    BY DEF OneWorker
  <1>2. \A r : /\ r \in Rows <=> r \in db \cup tx[w]
               /\ r \in Rows' <=> r \in db' \cup tx'[w]
    BY <1>1, InRows, InRowsNext
  <1>3. \A r : r \in Visible(w) <=> r \in Rows
    BY <1>2 DEF Visible
  <1>4. ASSUME \A u \in Rows' : u.table = "user" => u \in Rows, AddressFree(w)'
        PROVE  EmailsApart'
    <2>1. OneRowPerEmail'
      BY <1>4 DEF EmailsApart, OneRowPerEmail
    <2> QED BY <1>1, <1>4, <2>1 DEF EmailsApart
  <1>5. CASE UsersStand(w) /\ Plain(w)
    <2>1. \A u \in Rows' : u.table = "user" => u \in Rows
      BY <1>2, <1>5 DEF UsersStand
    <2>2. Idle.pc \notin Presuming
      BY DEF Idle, Presuming
    <2>3. AddressFree(w)'
      BY <1>5, <2>1, <2>2 DEF EmailsApart, AddressFree, Plain, Presuming
    <2> QED BY <1>4, <2>1, <2>3
  <1>6. CASE Found(w) /\ db' = db /\ tx'[w] = tx[w]
    <2>1. \A u : u \in Rows' <=> u \in Rows
      BY <1>2, <1>6
    <2>2. ASSUME ctx'[w].pc = "update_email" PROVE tx'[w] = {}
      BY <2>2 DEF IInv, Fits, FitsOperation, Trusted, EmailSteps
    <2>3. AddressFree(w)'
      BY <1>2, <1>3, <1>6, <2>1, <2>2 DEF AddressFree, Found
    <2> QED BY <1>4, <2>1, <2>3
  <1>7. CASE Joins(w)
    <2> DEFINE r == NewUser(x)
    <2>1. /\ r.table = "user" /\ r.email = x.req.email
          /\ x.pc = "insert_user" /\ ctx'[w].pc = "insert_consent"
      BY <1>7 DEF Joins
    <2>2. \A s \in Rows' : s \in Rows \/ s = r
      BY <1>2, <1>7 DEF Joins
    <2> HIDE DEF r
    <2>3. \A s \in Rows : s.table = "user" => s.email # r.email
      BY <2>1 DEF EmailsApart, AddressFree
    <2>4. OneRowPerEmail'
      BY <2>2, <2>3 DEF EmailsApart, OneRowPerEmail
    <2>5. AddressFree(w)'
      BY <2>1 DEF AddressFree
    <2> QED BY <1>1, <2>4, <2>5 DEF EmailsApart
  <1>8. CASE Renames(w)
    <2>1. /\ x.pc = "update_email" /\ x.req.op = "email_update"
          /\ ctx'[w].pc = "report" /\ tx'[w] = tx[w]
      BY <1>8 DEF Renames
    <2>2. PICK u \in db : \E s :
            /\ u.table = "user" /\ u.id = x.user
            /\ s.table = "user" /\ s.id = x.user /\ s.ext = u.ext /\ s.email = x.req.email
            /\ db' = (db \ {u}) \cup {s}
      BY <1>8 DEF Renames
    <2>3. PICK s : /\ u.table = "user" /\ u.id = x.user
                   /\ s.table = "user" /\ s.email = x.req.email
                   /\ db' = (db \ {u}) \cup {s}
      BY <2>2
    <2>4. tx[w] = {}
      BY <2>1 DEF IInv, Fits, Trusted
    <2>5. \A t \in Rows' : t = s \/ (t \in Rows /\ t # u)
      BY <1>2, <2>1, <2>3, <2>4
    <2>6. ASSUME NEW t \in Rows, t # u, t.table = "user" PROVE t.email # s.email
      <3>1. t.id # u.id
        BY <1>2, <2>6 DEF IInv, Orderly, Good
      <3> QED BY <2>1, <2>3, <2>6, <3>1 DEF EmailsApart, AddressFree
    <2>7. OneRowPerEmail'
      BY <2>5, <2>6 DEF EmailsApart, OneRowPerEmail
    <2>8. AddressFree(w)'
      BY <2>1 DEF AddressFree
    <2> QED BY <1>1, <2>7, <2>8 DEF EmailsApart
  <1> QED BY <1>5, <1>6, <1>7, <1>8 DEF UserStep

(***************************************************************************)
(* "This email is already in use for this channel" (user.py:49): where     *)
(* requests do not overlap the look-ups before the insert and the update   *)
(* keep an address to one user, through faults and with any number of      *)
(* requests.  No index does: two workers break it.                         *)
(***************************************************************************)
THEOREM OneRowPerAddress == OneWorker /\ Spec /\ OneUserPerEmail => []OneUserPerEmail
  <1>1. OneWorker => OneWorker'
    BY DEF OneWorker
  <1>2. Init /\ OneUserPerEmail => EmailsApart
    <2> SUFFICES ASSUME Init, OneUserPerEmail PROVE EmailsApart
      OBVIOUS
    <2>1. \A r : r \in Rows <=> r \in db
      BY InRows DEF Init, SessionInit
    <2>2. \A w \in Workers : ctx[w].pc = "idle"
      BY DEF Init, Idle
    <2> QED BY <2>1, <2>2 DEF EmailsApart, OneRowPerEmail, AddressFree, OneUserPerEmail, In
  <1>3. IInv /\ IInv' /\ OneWorker /\ EmailsApart /\ [Next]_vars => EmailsApart'
    <2> SUFFICES ASSUME IInv, IInv', OneWorker, EmailsApart, [Next]_vars
                 PROVE  EmailsApart'
      OBVIOUS
    <2>1. CASE UsersAlone
      <3>1. \A u : u.table = "user" => (u \in Rows' <=> u \in Rows)
        BY <2>1, InRows, InRowsNext DEF UsersAlone
      <3>2. ctx' = ctx
        BY <2>1 DEF UsersAlone
      <3> QED BY <3>1, <3>2 DEF EmailsApart, OneRowPerEmail, AddressFree
    <2> QED BY <2>1, NextUsers, EmailStep
  <1>4. EmailsApart => OneUserPerEmail
    BY InRows DEF EmailsApart, OneRowPerEmail, OneUserPerEmail, In
  <1> QED BY <1>1, <1>2, <1>3, <1>4, Inductive, PTL DEF Spec

-----------------------------------------------------------------------------
(* What a request to create a wallet has done so far *)

(***************************************************************************)
(* s is where r was: a card keeps its date, a link its user and its        *)
(* activity, an owner its account.                                         *)
(***************************************************************************)
Lasts(r, s) ==
    /\ s.table = r.table /\ s.id = r.id
    /\ r.table = "card" => (r.dated => s.dated)
    /\ r.table = "link" => s.card = r.card /\ s.user = r.user /\ (r.active => s.active)
    /\ r.table = "owner" => s.payment = r.payment /\ s.user = r.user

DbLasts == \A r \in db : \E s \in db' : Lasts(r, s)

(***************************************************************************)
(* A card that is flushed has a date and a link that is flushed is active: *)
(* what is left to do is to be done to committed rows.                     *)
(***************************************************************************)
FlushedWhole(w) ==
    \A r \in tx[w] : /\ r.table = "card" => r.dated
                     /\ r.table = "link" => r.active

(***************************************************************************)
(* Of the wallet of x the rows that are there, with what is to be done to  *)
(* them yet.                                                               *)
(***************************************************************************)
CardThere(rows, x, todo) ==
    \E c \in rows : c.table = "card" /\ c.id = x.card /\ (c.dated \/ "date" \in todo)

LinkThere(rows, x, todo) ==
    \E l \in rows : /\ l.table = "link" /\ l.card = x.card /\ l.user = x.user
                    /\ l.active \/ "activate" \in todo

PaymentThere(rows, x) == \E p \in rows : p.table = "payment" /\ p.id = x.payment

OwnerThere(rows, x) ==
    \E o \in rows : o.table = "owner" /\ o.payment = x.payment /\ o.user = x.user

Finished(x) == x.pc = "publish" \/ (x.pc = "respond" /\ x.status = 201)

Reached(rows, x) ==
    /\ x.pc \in {"insert_link", "touch"} => CardThere(rows, x, x.todo)
    /\ x.pc = "touch" => LinkThere(rows, x, x.todo)
    /\ x.pc \in PaymentSteps \cup {"decide"} \/ Finished(x) =>
         CardThere(rows, x, {}) /\ LinkThere(rows, x, {})
    /\ x.pc \in {"insert_owner", "decide"} \/ Finished(x) => PaymentThere(rows, x)
    /\ x.pc = "decide" \/ Finished(x) => OwnerThere(rows, x)

(***************************************************************************)
(* How far a create_trusted has come; it announces what is committed.  The *)
(* two requests whose messages are about a wallet know its user.           *)
(***************************************************************************)
KnowsUser(x) ==
    x.pc \in TrustedSteps \cup PaymentSteps \cup {"insert_consent", "find_own"} \/ Finished(x)

Progress(w) ==
    LET x == ctx[w] IN
    /\ x.req.op \in {"create_trusted", "delete_payment"} /\ KnowsUser(x) => x.user # 0
    /\ Trusted(x) => Reached(Visible(w), x) /\ (Finished(x) => tx[w] = {})

\* The rows lasting, what was reached is reached.
LEMMA ReachedLasts ==
  ASSUME NEW rows, NEW new, NEW x, Reached(rows, x),
         \A r \in rows : (r.table = "owner" => r.user = x.user) => \E s \in new : Lasts(r, s)
  PROVE  Reached(new, x)
  <1>1. \A todo : CardThere(rows, x, todo) => CardThere(new, x, todo)
    BY DEF CardThere, Lasts
  <1>2. \A todo : LinkThere(rows, x, todo) => LinkThere(new, x, todo)
    <2> SUFFICES ASSUME NEW todo, LinkThere(rows, x, todo) PROVE LinkThere(new, x, todo)
      OBVIOUS
    <2>1. PICK l \in rows : /\ l.table = "link" /\ l.card = x.card /\ l.user = x.user
                            /\ l.active \/ "activate" \in todo
      BY DEF LinkThere
    <2>2. PICK s \in new : Lasts(l, s)
      BY <2>1
    <2> QED BY <2>1, <2>2 DEF LinkThere, Lasts
  <1>3. PaymentThere(rows, x) => PaymentThere(new, x)
    BY DEF PaymentThere, Lasts
  <1>4. OwnerThere(rows, x) => OwnerThere(new, x)
    BY DEF OwnerThere, Lasts
  <1> QED BY <1>1, <1>2, <1>3, <1>4 DEF Reached

\* A row lasts if it is left alone.
LEMMA LastsItself == \A r : Lasts(r, r)
  BY DEF Lasts

(***************************************************************************)
(* The messages that are new, and what is to be shown of a step of w.      *)
(***************************************************************************)
NewSent(w) ==
    \A m \in sent' :
        \/ m \in sent \/ m.kind # "remove"
        \/ /\ m = Remove(ctx[w])
           /\ ctx[w].pc = "publish" /\ ctx[w].req.op = "delete_payment"

Forward(w) == DbLasts /\ FlushedWhole(w)' /\ Progress(w)' /\ NewSent(w)

\* A step that touches no rows but gives up a transaction.
LEMMA RowsAlone ==
  ASSUME NEW w \in Workers, db' = db, tx'[w] = tx[w] \/ tx'[w] = {}, FlushedWhole(w)
  PROVE  DbLasts /\ FlushedWhole(w)'
  <1>1. DbLasts
    BY LastsItself DEF DbLasts
  <1> QED BY <1>1 DEF FlushedWhole

\* An insert, of a row with nothing left to be done.
LEMMA RowAdded ==
  ASSUME IInv, NEW w \in Workers, NEW r, Insert(w, r) \/ Flush(w, r), FlushedWhole(w),
         r.table = "card" => r.dated, r.table = "link" => r.active
  PROVE  /\ DbLasts /\ FlushedWhole(w)' /\ NewSent(w)
         /\ Visible(w)' = Visible(w) \cup {r}
  <1>1. \/ db' = db /\ tx'[w] = tx[w] \cup {r}
        \/ db' = db \cup tx[w] \cup {r} /\ tx'[w] = {}
    BY DEF Insert, Flush, Commit, IInv, Orderly
  <1>2. sent' = sent
    BY DEF Insert, Flush, Commit
  <1>3. DbLasts
    BY <1>1, LastsItself DEF DbLasts
  <1>4. FlushedWhole(w)'
    BY <1>1 DEF FlushedWhole
  <1>5. Visible(w)' = Visible(w) \cup {r}
    BY <1>1 DEF Visible
  <1> QED BY <1>2, <1>3, <1>4, <1>5 DEF NewSent

\* A commit of the rows as they are, or altered so that they last.
LEMMA RowsCommitted ==
  ASSUME IInv, NEW w \in Workers, NEW rows, NEW events, Commit(w, rows, {}, events),
         \A r \in db : \E s \in rows : Lasts(r, s)
  PROVE  /\ DbLasts /\ FlushedWhole(w)' /\ NewSent(w)
         /\ db' = rows \cup tx[w] /\ tx'[w] = {}
  <1>1. db' = rows \cup tx[w] /\ tx'[w] = {} /\ sent' = sent
    BY DEF Commit, IInv, Orderly
  <1> QED BY <1>1 DEF DbLasts, FlushedWhole, NewSent

\* An answer other than 201.
LEMMA AnswerForward ==
  ASSUME IInv, NEW w \in Workers, NEW status, status # 201, Moves(w, Answered(ctx[w], status))
  PROVE  Progress(w)'
  <1>1. ctx[w] \in Contexts /\ ctx'[w] = Answered(ctx[w], status)
    BY DEF IInv, Moves
  <1>2. ctx'[w].pc = "respond" /\ ctx'[w].status = status
    BY <1>1 DEF Answered, Contexts
  <1> QED BY <1>2 DEF Progress, Reached, KnowsUser, Finished, TrustedSteps, PaymentSteps

\* The same of a handler that refuses.
LEMMA RefusalForward ==
  ASSUME IInv, NEW w \in Workers, NEW status, status # 201, Answer(w, status)
  PROVE  Progress(w)'
  BY AnswerForward DEF Answer, Goto

\* A step of a request that is no create_trusted.
LEMMA OtherForward ==
  ASSUME NEW w \in Workers, ~Trusted(ctx'[w]),
         ctx'[w].req.op = "delete_payment" /\ KnowsUser(ctx'[w]) => ctx'[w].user # 0
  PROVE  Progress(w)'
  BY DEF Progress, Trusted

\* The end of a request.
LEMMA IdleForward ==
  ASSUME NEW w \in Workers, ctx'[w].pc \in {"idle", "find_user", "reselect"}
  PROVE  Progress(w)'
  BY DEF Progress, Reached, KnowsUser, Finished, TrustedSteps, PaymentSteps

\* A request that has done nothing yet but look for its user.
LEMMA EarlyForward ==
  ASSUME NEW w \in Workers,
         ctx'[w].pc \in {"check_new_email", "insert_user", "insert_consent", "check_mid",
                         "find_card", "insert_card"},
         ctx'[w].pc \in {"check_new_email", "insert_user"} \/ ctx'[w].user # 0
  PROVE  Progress(w)'
  BY DEF Progress, Reached, KnowsUser, Finished, TrustedSteps, PaymentSteps

\* The user is known; what comes next depends on the operation.
LEMMA AfterUserForward ==
  ASSUME IInv, NEW w \in Workers, ctx[w].pc \in LoginSteps,
         NEW x \in Contexts, x.req = ctx[w].req, x.user # 0, ctx'[w] = AfterUser(x)
  PROVE  Progress(w)'
  <1>1. ctx[w].req.op \in {"token", "create_trusted"}
    BY DEF IInv, Fits, FitsOperation
  <1>2. ctx'[w].user = x.user /\ ctx'[w].req = x.req
    BY DEF AfterUser, Contexts
  <1>3. CASE Trusted(x)
    <2>1. ctx'[w].pc = "check_mid"
      BY <1>3 DEF AfterUser, Contexts
    <2> QED BY <1>2, <2>1, EarlyForward
  <1>4. CASE ~Trusted(x)
    BY <1>1, <1>2, <1>4, OtherForward DEF Trusted
  <1> QED BY <1>3, <1>4

\* The look-ups.
LEMMA SeekForward ==
  ASSUME IInv, NEW w \in Workers, FlushedWhole(w), Seeks(w)
  PROVE  Forward(w)
  <1> DEFINE x == ctx[w]
  <1>1. x \in Contexts
    BY DEF IInv
  <1>2. UNCHANGED session
    BY SeekSteps
  <1>3. DbLasts /\ FlushedWhole(w)' /\ NewSent(w)
    BY <1>2, RowsAlone DEF session, NewSent
  <1>4. ASSUME NEW y \in Contexts, Goto(w, y) PROVE ctx'[w] = y
    BY <1>4 DEF Goto, Moves, IInv
  <1>5. Answer(w, 400) \/ Answer(w, 409) \/ Answer(w, 500) => Progress(w)'
    BY RefusalForward
  <1>6. \A u \in Visible(w) : u.id # 0
    BY InRows DEF Visible, IInv, Orderly, Good
  <1>7. CASE Receive(w)
    <2>1. PICK req \in Requests :
            LET y == [Idle EXCEPT !.req = req, !.pc = FirstQuery[req.op]] IN
            \/ req.op \in {"token", "create_trusted"} /\ ctx' = [ctx EXCEPT ![w] = y]
            \/ /\ req.op \notin {"token", "create_trusted"}
               /\ \E u \in In(db, "user"), p \in Named(req) :
                    /\ u.ext = req.ext
                    /\ ctx' = [ctx EXCEPT ![w] = [y EXCEPT !.user = u.id, !.payment = p]]
      BY <1>7 DEF Receive
    <2>2. ASSUME req.op \in {"token", "create_trusted"},
                 ctx' = [ctx EXCEPT ![w] = [Idle EXCEPT !.req = req, !.pc = FirstQuery[req.op]]]
          PROVE  Progress(w)'
      <3>1. ctx'[w].pc = FirstQuery[req.op]
        BY <2>2 DEF Idle, IInv
      <3> QED BY <2>2, <3>1, IdleForward DEF FirstQuery
    <2>3. ASSUME NEW u \in In(db, "user"), NEW p, req.op \notin {"token", "create_trusted"},
                 ctx' = [ctx EXCEPT ![w] = [[Idle EXCEPT !.req = req, !.pc = FirstQuery[req.op]]
                               EXCEPT !.user = u.id, !.payment = p]]
          PROVE  Progress(w)'
      <3>1. ctx'[w].user = u.id /\ ctx'[w].req = req
        BY <2>3 DEF Idle, IInv
      <3>2. u.id # 0
        BY <1>6 DEF In, Visible
      <3> QED BY <2>3, <3>1, <3>2, OtherForward DEF Trusted
    <2> QED BY <1>3, <2>1, <2>2, <2>3 DEF Forward
  <1>8. CASE FindUser(w)
    <2>1. Goto(w, [x EXCEPT !.pc = "check_new_email"]) => Progress(w)'
      <3> SUFFICES ASSUME Goto(w, [x EXCEPT !.pc = "check_new_email"]) PROVE Progress(w)'
        OBVIOUS
      <3>1. ctx'[w] = [x EXCEPT !.pc = "check_new_email"]
        BY DEF Goto, Moves, IInv
      <3>2. ctx'[w].pc = "check_new_email"
        BY <1>1, <3>1 DEF Contexts
      <3> QED BY <3>2, EarlyForward
    <2>2. ASSUME NEW u \in UsersOf(w, x.req.ext), Goto(w, AfterUser([x EXCEPT !.user = u.id]))
          PROVE  Progress(w)'
      <3> DEFINE y == [x EXCEPT !.user = u.id]
      <3>1. u.id # 0 /\ u.id \in Nat
        BY InRows DEF UsersOf, In, Visible, IInv, Orderly, Good
      <3>2. y \in Contexts /\ y.req = x.req /\ y.user # 0
        BY <1>1, <3>1 DEF Contexts
      <3>3. ctx'[w] = AfterUser(y)
        BY <2>2 DEF Goto, Moves, IInv
      <3>4. x.pc \in LoginSteps
        BY <1>8 DEF FindUser, At, LoginSteps, LookUps
      <3> HIDE DEF y
      <3> QED BY <3>2, <3>3, <3>4, AfterUserForward
    <2> QED BY <1>3, <1>5, <1>8, <2>1, <2>2 DEF FindUser, Forward
  <1>9. CASE CheckNewEmail(w)
    <2>1. Goto(w, [x EXCEPT !.pc = "insert_user"]) => Progress(w)'
      <3> SUFFICES ASSUME Goto(w, [x EXCEPT !.pc = "insert_user"]) PROVE Progress(w)'
        OBVIOUS
      <3>1. ctx'[w] = [x EXCEPT !.pc = "insert_user"]
        BY DEF Goto, Moves, IInv
      <3>2. ctx'[w].pc = "insert_user"
        BY <1>1, <3>1 DEF Contexts
      <3> QED BY <3>2, EarlyForward
    <2> QED BY <1>3, <1>5, <1>9, <2>1 DEF CheckNewEmail, Forward
  <1>10. CASE Reselect(w)
    <2>1. ASSUME NEW u \in UsersOf(w, x.req.ext),
                 Goto(w, AfterUser([x EXCEPT !.user = u.id, !.newUser = TRUE]))
          PROVE  Progress(w)'
      <3> DEFINE y == [x EXCEPT !.user = u.id, !.newUser = TRUE]
      <3>1. u.id # 0 /\ u.id \in Nat
        BY InRows DEF UsersOf, In, Visible, IInv, Orderly, Good
      <3>2. y \in Contexts /\ y.req = x.req /\ y.user # 0
        BY <1>1, <3>1 DEF Contexts
      <3>3. ctx'[w] = AfterUser(y)
        BY <2>1 DEF Goto, Moves, IInv
      <3>4. x.pc \in LoginSteps
        BY <1>10 DEF Reselect, At, LoginSteps, LookUps
      <3> HIDE DEF y
      <3> QED BY <3>2, <3>3, <3>4, AfterUserForward
    <2> QED BY <1>3, <1>5, <1>10, <2>1 DEF Reselect, Forward
  <1>11. CASE CheckEmail(w)
    <2>1. x.req.op = "email_update"
      BY <1>11 DEF CheckEmail, At, IInv, Fits, FitsOperation, EmailSteps
    <2>2. Goto(w, [x EXCEPT !.pc = "update_email"]) => ctx'[w].req = x.req
      BY <1>1 DEF Goto, Moves, IInv, Contexts
    <2> QED BY <1>3, <1>5, <1>11, <2>1, <2>2, OtherForward DEF CheckEmail, Forward, Trusted
  <1> QED BY <1>7, <1>8, <1>9, <1>10, <1>11 DEF Seeks

\* The inserts of a login.
LEMMA LoginForward ==
  ASSUME IInv, NEW w \in Workers, FlushedWhole(w), Progress(w),
         InsertUser(w) \/ UserTaken(w) \/ InsertConsent(w)
  PROVE  Forward(w)
  <1> DEFINE x == ctx[w]
  <1>1. x \in Contexts
    BY DEF IInv
  <1>2. CASE InsertUser(w)
    <2>1. Insert(w, NewUser(x)) /\ NewUser(x).table = "user"
      BY <1>2 DEF InsertUser, NewUser
    <2>2. ctx'[w] = Made([x EXCEPT !.pc = "insert_consent", !.user = serial, !.newUser = TRUE])
      BY <1>2 DEF InsertUser, Goto, Moves, IInv
    <2>3. ctx'[w].pc = "insert_consent" /\ ctx'[w].user = serial /\ serial # 0
      BY <1>1, <2>2 DEF Contexts, Made, IInv, Orderly
    <2>4. Progress(w)'
      BY <2>3, EarlyForward
    <2>5. DbLasts /\ FlushedWhole(w)' /\ NewSent(w)
      BY <2>1, RowAdded
    <2> QED BY <2>4, <2>5 DEF Forward
  <1>3. CASE UserTaken(w)
    <2>1. ctx'[w] = [x EXCEPT !.pc = "reselect"]
      BY <1>3 DEF UserTaken, Goto, Moves, IInv
    <2>2. ctx'[w].pc = "reselect"
      BY <1>1, <2>1 DEF Contexts
    <2>3. db' = db /\ tx'[w] = {} /\ sent' = sent
      BY <1>3 DEF UserTaken, Discard, IInv, Orderly
    <2> QED BY <2>2, <2>3, RowsAlone, IdleForward DEF Forward, NewSent
  <1>4. CASE InsertConsent(w)
    <2> DEFINE r == [table |-> "consent", id |-> serial, user |-> x.user]
               y == Made(x)
    <2>1. r.table = "consent" /\ Insert(w, r)
      BY <1>4 DEF InsertConsent
    <2>2. ctx'[w] = AfterUser(y) /\ x.pc = "insert_consent"
      BY <1>4 DEF InsertConsent, At, Goto, Moves, IInv
    <2>3. y.req = x.req /\ y.user = x.user /\ y \in Contexts
      BY <1>1 DEF Contexts, Made, IInv, Orderly
    <2>4. x.req.op \in {"token", "create_trusted"} /\ x.pc \in LoginSteps
      BY <2>2 DEF IInv, Fits, FitsOperation, LoginSteps
    <2>5. Trusted(x) => x.user # 0
      BY <2>2 DEF Progress, Trusted, KnowsUser
    <2> HIDE DEF r, y
    <2>6. CASE Trusted(x)
      BY <2>1, <2>2, <2>3, <2>4, <2>5, <2>6, RowAdded, AfterUserForward DEF Forward
    <2>7. CASE ~Trusted(x)
      <3>1. ctx'[w].req = x.req
        BY <2>2, <2>3 DEF AfterUser, Contexts
      <3>2. Progress(w)'
        BY <2>4, <2>7, <3>1, OtherForward DEF Trusted
      <3> QED BY <2>1, <3>2, RowAdded DEF Forward
    <2> QED BY <2>6, <2>7
  <1> QED BY <1>2, <1>3, <1>4

\* A step of a create_trusted that knows its user and shows what it has reached.
LEMMA TrustedForward ==
  ASSUME NEW w \in Workers, ctx'[w].user # 0, Reached(Visible(w)', ctx'[w]),
         Finished(ctx'[w]) => tx'[w] = {}
  PROVE  Progress(w)'
  BY DEF Progress

\* What a step of the trusted add starts from.
LEMMA ComposingForward ==
  ASSUME IInv, NEW w \in Workers, NEW pc \in TrustedSteps, Progress(w), At(w, pc)
  PROVE  /\ ctx[w] \in Contexts /\ ctx[w].pc = pc /\ Trusted(ctx[w]) /\ ctx[w].user # 0
         /\ Reached(Visible(w), ctx[w])
  <1>1. Composing(w, pc)
    BY ComposingNow
  <1>2. ctx[w].req.op = "create_trusted" /\ ctx[w].pc = pc
    BY DEF At, IInv, Fits, FitsOperation
  <1> QED BY <1>1, <1>2 DEF Progress, KnowsUser, Trusted, Composing

\* A merchant identifier is checked.
LEMMA CheckMidForward ==
  ASSUME IInv, NEW w \in Workers, FlushedWhole(w), Progress(w), CheckMid(w)
  PROVE  Forward(w)
  <1> DEFINE x == ctx[w]
  <1>1. x \in Contexts /\ x.user # 0 /\ UNCHANGED session
    BY ComposingForward DEF CheckMid, TrustedSteps
  <1>2. DbLasts /\ FlushedWhole(w)' /\ NewSent(w)
    BY <1>1, RowsAlone DEF session, NewSent
  <1>3. Answer(w, 409) => Progress(w)'
    BY RefusalForward
  <1>4. Goto(w, [x EXCEPT !.pc = "find_card"]) => Progress(w)'
    <2>1. Goto(w, [x EXCEPT !.pc = "find_card"]) =>
            ctx'[w].pc = "find_card" /\ ctx'[w].user = x.user
      BY <1>1 DEF Goto, Moves, IInv, Contexts
    <2> QED BY <1>1, <2>1, EarlyForward
  <1> QED BY <1>2, <1>3, <1>4 DEF CheckMid, Forward

\* A card is found, with or without a link of this user.
LEMMA UseCardForward ==
  ASSUME IInv, NEW w \in Workers, Progress(w), At(w, "find_card"),
         NEW c \in FoundCards(w), UseCard(w, c), UNCHANGED session
  PROVE  Progress(w)'
  <1> DEFINE x == [ctx[w] EXCEPT !.card = c.id]
             own == {l \in In(Visible(w), "link") : l.card = c.id /\ l.user = x.user}
  <1>1. ctx[w] \in Contexts /\ ctx[w].user # 0
    BY ComposingForward DEF TrustedSteps
  <1>2. c \in Visible(w) /\ c.table = "card" /\ Visible(w)' = Visible(w)
    BY DEF FoundCards, In, Visible, session
  <1>3. x.card = c.id /\ x.user = ctx[w].user
    BY <1>1 DEF Contexts
  <1>4. c.dated \/ "date" \in ToDate(c)
    BY DEF ToDate
  <1>5. ASSUME NEW todo, ToDate(c) \subseteq todo,
               Goto(w, [x EXCEPT !.pc = "insert_link", !.todo = todo])
        PROVE  Progress(w)'
    <2> DEFINE y == [x EXCEPT !.pc = "insert_link", !.todo = todo]
    <2>1. ctx'[w] = y
      BY <1>5 DEF Goto, Moves, IInv
    <2>2. y.pc = "insert_link" /\ y.card = c.id /\ y.user # 0 /\ y.todo = todo
      BY <1>1 DEF Contexts
    <2> HIDE DEF y
    <2>3. CardThere(Visible(w), y, todo)
      BY <1>2, <1>4, <1>5, <2>2 DEF CardThere
    <2>4. Reached(Visible(w), y) /\ ~Finished(y)
      BY <2>2, <2>3 DEF Reached, Finished, PaymentSteps
    <2> QED BY <1>2, <2>1, <2>2, <2>4, TrustedForward
  <1>6. ASSUME NEW l \in own, NEW todo,
               todo = ToDate(c) \cup (IF l.active THEN {} ELSE {"activate"}),
               Goto(w, [x EXCEPT !.todo = todo,
                                 !.pc = IF todo = {} THEN "find_payment" ELSE "touch"])
        PROVE  Progress(w)'
    <2> DEFINE y == [x EXCEPT !.todo = todo,
                              !.pc = IF todo = {} THEN "find_payment" ELSE "touch"]
    <2>1. ctx'[w] = y
      BY <1>6 DEF Goto, Moves, IInv
    <2>2. /\ y.pc = IF todo = {} THEN "find_payment" ELSE "touch"
          /\ y.card = c.id /\ y.user = x.user /\ y.todo = todo
      BY <1>1 DEF Contexts
    <2>3. l \in Visible(w) /\ l.table = "link" /\ l.card = c.id /\ l.user = x.user
      BY DEF In
    <2>4. l.active \/ "activate" \in todo
      BY <1>6
    <2> HIDE DEF y, x, own
    <2>5. CardThere(Visible(w), y, todo) /\ LinkThere(Visible(w), y, todo)
      BY <1>2, <1>4, <1>6, <2>2, <2>3, <2>4 DEF CardThere, LinkThere
    <2>6. Reached(Visible(w), y) /\ ~Finished(y)
      BY <2>2, <2>5 DEF Reached, Finished, PaymentSteps
    <2> QED BY <1>1, <1>2, <1>3, <2>1, <2>2, <2>6, TrustedForward
  <1>7. Answer(w, 409) => Progress(w)'
    BY RefusalForward
  <1>8. \/ Answer(w, 409)
        \/ Goto(w, [x EXCEPT !.pc = "insert_link", !.todo = ToDate(c)])
        \/ \E l \in own :
             LET todo == ToDate(c) \cup (IF l.active THEN {} ELSE {"activate"})
             IN Goto(w, [x EXCEPT !.todo = todo,
                                  !.pc = IF todo = {} THEN "find_payment" ELSE "touch"])
    BY Zenon DEF UseCard
  <1> HIDE DEF x, own
  <1> QED BY <1>5, <1>6, <1>7, <1>8

\* With the search for the card.
LEMMA FindCardForward ==
  ASSUME IInv, NEW w \in Workers, FlushedWhole(w), Progress(w), FindCard(w)
  PROVE  Forward(w)
  <1> DEFINE x == ctx[w]
  <1>1. x \in Contexts /\ x.user # 0 /\ UNCHANGED session /\ At(w, "find_card")
    BY ComposingForward DEF FindCard, TrustedSteps
  <1>2. DbLasts /\ FlushedWhole(w)' /\ NewSent(w)
    BY <1>1, RowsAlone DEF session, NewSent
  <1>3. Answer(w, 500) => Progress(w)'
    BY RefusalForward
  <1>4. Goto(w, [x EXCEPT !.pc = "insert_card"]) => Progress(w)'
    <2>1. Goto(w, [x EXCEPT !.pc = "insert_card"]) =>
            ctx'[w].pc = "insert_card" /\ ctx'[w].user = x.user
      BY <1>1 DEF Goto, Moves, IInv, Contexts
    <2> QED BY <1>1, <2>1, EarlyForward
  <1>5. ASSUME NEW c \in FoundCards(w), UseCard(w, c) PROVE Progress(w)'
    BY <1>1, <1>5, UseCardForward
  <1> QED BY <1>2, <1>3, <1>4, <1>5 DEF FindCard, Forward

\* A card is made, dated.
LEMMA InsertCardForward ==
  ASSUME IInv, NEW w \in Workers, FlushedWhole(w), Progress(w), InsertCard(w)
  PROVE  Forward(w)
  <1> DEFINE x == ctx[w]
             r == [table |-> "card", id |-> serial, key |-> x.req.key, mid |-> x.req.mid,
                   dated |-> TRUE]
             y == Made([x EXCEPT !.pc = "insert_link", !.card = serial])
  <1>1. x \in Contexts /\ x.user # 0
    BY ComposingForward DEF InsertCard, TrustedSteps
  <1>2. Insert(w, r) /\ ctx'[w] = y
    BY DEF InsertCard, Goto, Moves, IInv
  <1>3. r.table = "card" /\ r.id = serial /\ r.dated
    OBVIOUS
  <1>4. y.pc = "insert_link" /\ y.card = serial /\ y.user # 0
    BY <1>1 DEF Contexts, Made
  <1> HIDE DEF r, y
  <1>5. DbLasts /\ FlushedWhole(w)' /\ NewSent(w) /\ Visible(w)' = Visible(w) \cup {r}
    BY <1>2, <1>3, RowAdded
  <1>6. CardThere(Visible(w)', y, y.todo)
    BY <1>3, <1>4, <1>5 DEF CardThere
  <1>7. Reached(Visible(w)', y) /\ ~Finished(y)
    BY <1>4, <1>6 DEF Reached, Finished, PaymentSteps
  <1> QED BY <1>2, <1>4, <1>5, <1>7, TrustedForward DEF Forward

\* A link is made, active.
LEMMA InsertLinkForward ==
  ASSUME IInv, NEW w \in Workers, FlushedWhole(w), Progress(w), InsertLink(w)
  PROVE  Forward(w)
  <1> DEFINE x == ctx[w]
             r == NewLink(x)
             y == Made([x EXCEPT !.newCard = TRUE,
                            !.pc = IF x.todo = {} THEN "find_payment" ELSE "touch"])
  <1>1. x \in Contexts /\ x.user # 0 /\ x.pc = "insert_link" /\ Reached(Visible(w), x)
    BY ComposingForward DEF InsertLink, TrustedSteps
  <1>2. CASE Answer(w, 422) /\ UNCHANGED session
    BY <1>2, RefusalForward, RowsAlone DEF Forward, session, NewSent
  <1>3. CASE Insert(w, r) /\ Goto(w, y)
    <2>1. Insert(w, r) /\ ctx'[w] = y
      BY <1>3 DEF Goto, Moves, IInv
    <2>2. r.table = "link" /\ r.card = x.card /\ r.user = x.user /\ r.active
      BY DEF NewLink
    <2>3. /\ y.pc = IF x.todo = {} THEN "find_payment" ELSE "touch"
          /\ y.card = x.card /\ y.user = x.user /\ y.todo = x.todo
      BY <1>1 DEF Contexts, Made
    <2> HIDE DEF r, y
    <2>4. DbLasts /\ FlushedWhole(w)' /\ NewSent(w) /\ Visible(w)' = Visible(w) \cup {r}
      BY <2>1, <2>2, RowAdded
    <2>5. CardThere(Visible(w)', y, y.todo) /\ LinkThere(Visible(w)', y, y.todo)
      <3>1. CardThere(Visible(w), x, x.todo)
        BY <1>1 DEF Reached
      <3> QED BY <2>2, <2>3, <2>4, <3>1 DEF CardThere, LinkThere
    <2>6. Reached(Visible(w)', y) /\ ~Finished(y)
      BY <2>3, <2>5 DEF Reached, Finished, PaymentSteps
    <2> QED BY <1>1, <2>1, <2>3, <2>4, <2>6, TrustedForward DEF Forward
  <1> QED BY <1>2, <1>3 DEF InsertLink

\* The second commit dates the card and activates the link.
LEMMA TouchForward ==
  ASSUME IInv, NEW w \in Workers, FlushedWhole(w), Progress(w), Touch(w)
  PROVE  Forward(w)
  <1> DEFINE x == ctx[w]
             rows == {Touched(x, r) : r \in db}
             y == [x EXCEPT !.pc = "find_payment"]
  <1>1. x \in Contexts /\ x.user # 0 /\ x.pc = "touch" /\ Reached(Visible(w), x)
    BY ComposingForward DEF Touch, TrustedSteps
  <1>2. ctx'[w] = y
    BY DEF Touch, Goto, Moves, IInv
  <1>3. y.pc = "find_payment" /\ y.card = x.card /\ y.user = x.user
    BY <1>1 DEF Contexts
  <1>4. \A r \in db : IsRow(r) /\ Kept(r, Touched(x, r))
    BY InRows, TouchedKept DEF IInv, Orderly, Good
  <1>5. ASSUME NEW c \in db, c.table = "card"
        PROVE  /\ c.dated => Touched(x, c).dated
               /\ c.id = x.card /\ "date" \in x.todo => Touched(x, c).dated
    <2>1. CASE c.id = x.card /\ "date" \in x.todo
      <3>1. Touched(x, c) = [c EXCEPT !.dated = TRUE]
        BY <1>5, <2>1 DEF Touched
      <3> QED BY <1>4, <1>5, <3>1 DEF IsRow, Columns
    <2>2. CASE ~(c.id = x.card /\ "date" \in x.todo)
      <3>1. Touched(x, c) = c
        BY <1>5, <2>2 DEF Touched
      <3> QED BY <2>2, <3>1
    <2> QED BY <2>1, <2>2
  <1>6. ASSUME NEW l \in db, l.table = "link"
        PROVE  /\ l.active => Touched(x, l).active
               /\ l.card = x.card /\ l.user = x.user /\ "activate" \in x.todo =>
                    Touched(x, l).active
    <2>1. CASE l.card = x.card /\ l.user = x.user /\ "activate" \in x.todo
      <3>1. Touched(x, l) = [l EXCEPT !.active = TRUE]
        BY <1>6, <2>1 DEF Touched
      <3> QED BY <1>4, <1>6, <3>1 DEF IsRow, Columns
    <2>2. CASE ~(l.card = x.card /\ l.user = x.user /\ "activate" \in x.todo)
      <3>1. Touched(x, l) = l
        BY <1>6, <2>2 DEF Touched
      <3> QED BY <2>2, <3>1
    <2> QED BY <2>1, <2>2
  <1>7. \A r \in db : Lasts(r, Touched(x, r))
    BY <1>4, <1>5, <1>6 DEF Lasts, Kept
  <1>8. \A r \in db : \E s \in rows : Lasts(r, s)
    BY <1>7
  <1>9. PICK events : Commit(w, rows, {}, events)
    BY DEF Touch
  <1>10. \A r \in db : Touched(x, r) \in rows
    OBVIOUS
  <1> HIDE DEF rows, y
  <1>11. /\ DbLasts /\ FlushedWhole(w)' /\ NewSent(w)
         /\ db' = rows \cup tx[w] /\ tx'[w] = {}
    BY <1>8, <1>9, RowsCommitted
  <1>12. Visible(w)' = rows \cup tx[w]
    BY <1>11 DEF Visible
  <1>13. CardThere(Visible(w)', y, {})
    <2>1. PICK c \in Visible(w) :
            c.table = "card" /\ c.id = x.card /\ (c.dated \/ "date" \in x.todo)
      BY <1>1 DEF Reached, CardThere
    <2>2. CASE c \in tx[w]
      BY <1>3, <1>12, <2>1, <2>2 DEF FlushedWhole, CardThere
    <2>3. CASE c \in db
      BY <1>3, <1>4, <1>5, <1>10, <1>12, <2>1, <2>3 DEF CardThere, Kept
    <2> QED BY <2>2, <2>3 DEF Visible
  <1>14. LinkThere(Visible(w)', y, {})
    <2>1. PICK l \in Visible(w) :
            /\ l.table = "link" /\ l.card = x.card /\ l.user = x.user
            /\ l.active \/ "activate" \in x.todo
      BY <1>1 DEF Reached, LinkThere
    <2>2. CASE l \in tx[w]
      BY <1>3, <1>12, <2>1, <2>2 DEF FlushedWhole, LinkThere
    <2>3. CASE l \in db
      BY <1>3, <1>4, <1>6, <1>10, <1>12, <2>1, <2>3 DEF LinkThere, Kept
    <2> QED BY <2>2, <2>3 DEF Visible
  <1>15. Reached(Visible(w)', y) /\ ~Finished(y)
    BY <1>3, <1>13, <1>14 DEF Reached, Finished, PaymentSteps
  <1> QED BY <1>1, <1>2, <1>3, <1>11, <1>15, TrustedForward DEF Forward

\* What a step of the payment account handler starts from in a create_trusted.
LEMMA PayingForward ==
  ASSUME IInv, NEW w \in Workers, NEW pc \in PaymentSteps, Progress(w), At(w, pc)
  PROVE  /\ ctx[w] \in Contexts /\ ctx[w].pc = pc
         /\ ctx[w].req.op \in {"create_trusted", "add_payment"}
         /\ Trusted(ctx[w]) => /\ ctx[w].user # 0
                               /\ CardThere(Visible(w), ctx[w], {})
                               /\ LinkThere(Visible(w), ctx[w], {})
                               /\ pc = "insert_owner" => PaymentThere(Visible(w), ctx[w])
  <1>1. ctx[w] \in Contexts /\ ctx[w].pc = pc /\ ctx[w].req.op \in {"create_trusted", "add_payment"}
    BY DEF At, IInv, Fits, FitsOperation
  <1> QED BY <1>1 DEF Progress, KnowsUser, Trusted, Reached

\* The card and the link are still there when more rows are.
LEMMA StillThere ==
  ASSUME NEW rows, NEW new, rows \subseteq new, NEW x, NEW y, y.card = x.card, y.user = x.user,
         CardThere(rows, x, {}), LinkThere(rows, x, {})
  PROVE  CardThere(new, y, {}) /\ LinkThere(new, y, {})
  BY DEF CardThere, LinkThere

\* The account is found or not, in the wallet or not.
LEMMA FindPaymentForward ==
  ASSUME IInv, NEW w \in Workers, FlushedWhole(w), Progress(w), FindPayment(w)
  PROVE  Forward(w)
  <1> DEFINE x == ctx[w]
             found == {p \in In(Visible(w), "payment") : p.print = x.req.print /\ p.live}
             owned == {p \in found : \E o \in In(Visible(w), "owner") :
                                        o.payment = p.id /\ o.user = x.user}
  <1>1. /\ x \in Contexts /\ x.pc = "find_payment"
        /\ x.req.op \in {"create_trusted", "add_payment"}
        /\ Trusted(x) => /\ x.user # 0
                         /\ CardThere(Visible(w), x, {}) /\ LinkThere(Visible(w), x, {})
    BY PayingForward DEF FindPayment, PaymentSteps
  <1>2. /\ UNCHANGED session \/ Commit(w, db, {}, <<>>)
        /\ Trusted(x) => UNCHANGED session
    BY DEF FindPayment
  <1>3. DbLasts /\ FlushedWhole(w)' /\ NewSent(w)
    BY <1>2, RowsAlone, RowsCommitted, LastsItself DEF session, NewSent
  <1>4. PICK y \in Contexts :
          /\ ctx'[w] = y /\ y.req = x.req /\ y.user = x.user /\ y.card = x.card
          /\ \/ y.pc = "insert_payment"
             \/ y.pc = "insert_owner" /\ PaymentThere(Visible(w), y)
             \/ /\ y.pc = IF Trusted(x) THEN "decide" ELSE "publish"
                /\ PaymentThere(Visible(w), y) /\ OwnerThere(Visible(w), y)
    <2>1. CASE Goto(w, [x EXCEPT !.pc = "insert_payment"])
      <3> DEFINE y == [x EXCEPT !.pc = "insert_payment"]
      <3>1. ctx'[w] = y
        BY <2>1 DEF Goto, Moves, IInv
      <3>2. /\ y.pc = "insert_payment" /\ y.req = x.req /\ y.user = x.user /\ y.card = x.card
            /\ y \in Contexts
        BY <1>1 DEF Contexts, Steps, PaymentSteps
      <3> QED BY <3>1, <3>2
    <2>2. ASSUME NEW p \in found, Goto(w, [x EXCEPT !.pc = "insert_owner", !.payment = p.id])
          PROVE  \E y \in Contexts :
                   /\ ctx'[w] = y /\ y.req = x.req /\ y.user = x.user /\ y.card = x.card
                   /\ y.pc = "insert_owner" /\ PaymentThere(Visible(w), y)
      <3> DEFINE y == [x EXCEPT !.pc = "insert_owner", !.payment = p.id]
      <3>1. ctx'[w] = y
        BY <2>2 DEF Goto, Moves, IInv
      <3>2. p \in Visible(w) /\ p.table = "payment" /\ p.id \in Nat
        BY InRows DEF In, Visible, IInv, Orderly, Good
      <3>3. /\ y.pc = "insert_owner" /\ y.req = x.req /\ y.user = x.user /\ y.card = x.card
            /\ y.payment = p.id /\ y \in Contexts
        BY <1>1, <3>2 DEF Contexts, Steps, PaymentSteps
      <3> HIDE DEF y
      <3> QED BY <3>1, <3>2, <3>3 DEF PaymentThere
    <2>3. ASSUME NEW p \in owned, Goto(w, AfterPayment([x EXCEPT !.payment = p.id]))
          PROVE  \E y \in Contexts :
                   /\ ctx'[w] = y /\ y.req = x.req /\ y.user = x.user /\ y.card = x.card
                   /\ y.pc = IF Trusted(x) THEN "decide" ELSE "publish"
                   /\ PaymentThere(Visible(w), y) /\ OwnerThere(Visible(w), y)
      <3> DEFINE y == AfterPayment([x EXCEPT !.payment = p.id])
      <3>1. ctx'[w] = y
        BY <2>3 DEF Goto, Moves, IInv
      <3>2. p \in Visible(w) /\ p.table = "payment" /\ p.id \in Nat
        BY InRows DEF In, Visible, IInv, Orderly, Good
      <3>3. PICK o \in Visible(w) : o.table = "owner" /\ o.payment = p.id /\ o.user = x.user
        BY DEF In
      <3>4. /\ y.pc = IF Trusted(x) THEN "decide" ELSE "publish"
            /\ y.req = x.req /\ y.user = x.user /\ y.card = x.card
            /\ y.payment = p.id /\ y \in Contexts
        BY <1>1, <3>2 DEF Contexts, Steps, TrustedSteps, AfterPayment, Trusted
      <3> HIDE DEF y
      <3> QED BY <3>1, <3>2, <3>3, <3>4 DEF PaymentThere, OwnerThere
    <2>4. \/ Goto(w, [x EXCEPT !.pc = "insert_payment"])
          \/ \E p \in found : Goto(w, [x EXCEPT !.pc = "insert_owner", !.payment = p.id])
          \/ \E p \in owned : Goto(w, AfterPayment([x EXCEPT !.payment = p.id]))
      BY Zenon DEF FindPayment
    <2> HIDE DEF found, owned
    <2> QED BY <2>1, <2>2, <2>3, <2>4
  <1>5. CASE ~Trusted(x)
    <2>1. ~Trusted(y) /\ y.req.op # "delete_payment"
      BY <1>1, <1>4, <1>5 DEF Trusted
    <2> QED BY <1>3, <1>4, <2>1, OtherForward DEF Forward
  <1>6. CASE Trusted(x)
    <2>1. Visible(w)' = Visible(w)
      BY <1>2, <1>6 DEF session, Visible
    <2>2. CardThere(Visible(w), y, {}) /\ LinkThere(Visible(w), y, {})
      BY <1>1, <1>4, <1>6, StillThere
    <2>3. Reached(Visible(w), y) /\ ~Finished(y)
      BY <1>4, <1>6, <2>2 DEF Reached, Finished, PaymentSteps
    <2> QED BY <1>1, <1>3, <1>4, <1>6, <2>1, <2>3, TrustedForward DEF Forward
  <1> QED BY <1>5, <1>6

\* An account is made.
LEMMA InsertPaymentForward ==
  ASSUME IInv, NEW w \in Workers, FlushedWhole(w), Progress(w), InsertPayment(w)
  PROVE  Forward(w)
  <1> DEFINE x == ctx[w]
             r == NewPayment(x)
             y == Made([x EXCEPT !.pc = "insert_owner", !.payment = serial, !.newPayment = TRUE])
  <1>1. /\ x \in Contexts /\ x.pc = "insert_payment"
        /\ x.req.op \in {"create_trusted", "add_payment"}
        /\ Trusted(x) => /\ x.user # 0
                         /\ CardThere(Visible(w), x, {}) /\ LinkThere(Visible(w), x, {})
    BY PayingForward DEF InsertPayment, PaymentSteps
  <1>2. CASE Answer(w, 500) /\ UNCHANGED session
    BY <1>2, RefusalForward, RowsAlone DEF Forward, session, NewSent
  <1>3. CASE Flush(w, r) /\ Goto(w, y)
    <2>1. Flush(w, r) /\ ctx'[w] = y
      BY <1>3 DEF Goto, Moves, IInv
    <2>2. r.table = "payment" /\ r.id = serial
      BY DEF NewPayment
    <2>3. /\ y.pc = "insert_owner" /\ y.payment = serial
          /\ y.card = x.card /\ y.user = x.user /\ y.req = x.req
      BY <1>1 DEF Contexts, Made
    <2> HIDE DEF r, y
    <2>4. DbLasts /\ FlushedWhole(w)' /\ NewSent(w) /\ Visible(w)' = Visible(w) \cup {r}
      BY <2>1, <2>2, RowAdded
    <2>5. CASE Trusted(x)
      <3>1. CardThere(Visible(w)', y, {}) /\ LinkThere(Visible(w)', y, {})
        BY <1>1, <2>3, <2>4, <2>5, StillThere
      <3>2. PaymentThere(Visible(w)', y)
        BY <2>2, <2>3, <2>4 DEF PaymentThere
      <3>3. Reached(Visible(w)', y) /\ ~Finished(y)
        BY <2>3, <3>1, <3>2 DEF Reached, Finished, PaymentSteps
      <3> QED BY <1>1, <2>1, <2>3, <2>4, <2>5, <3>3, TrustedForward DEF Forward
    <2>6. CASE ~Trusted(x)
      BY <1>1, <2>1, <2>3, <2>4, <2>6, OtherForward DEF Forward, Trusted
    <2> QED BY <2>5, <2>6
  <1> QED BY <1>2, <1>3 DEF InsertPayment

\* An owner is made.
LEMMA InsertOwnerForward ==
  ASSUME IInv, NEW w \in Workers, FlushedWhole(w), Progress(w), InsertOwner(w)
  PROVE  Forward(w)
  <1> DEFINE x == ctx[w]
             r == NewOwner(x)
             y == Made(AfterPayment(x))
  <1>1. /\ x \in Contexts /\ x.pc = "insert_owner"
        /\ x.req.op \in {"create_trusted", "add_payment"}
        /\ Trusted(x) => /\ x.user # 0 /\ PaymentThere(Visible(w), x)
                         /\ CardThere(Visible(w), x, {}) /\ LinkThere(Visible(w), x, {})
    BY PayingForward DEF InsertOwner, PaymentSteps
  <1>2. CASE Answer(w, 500) /\ UNCHANGED session
    BY <1>2, RefusalForward, RowsAlone DEF Forward, session, NewSent
  <1>3. CASE Insert(w, r) /\ Goto(w, y)
    <2>1. Insert(w, r) /\ ctx'[w] = y
      BY <1>3 DEF Goto, Moves, IInv
    <2>2. r.table = "owner" /\ r.payment = x.payment /\ r.user = x.user
      BY DEF NewOwner
    <2>3. /\ y.pc = IF Trusted(x) THEN "decide" ELSE "publish"
          /\ y.payment = x.payment /\ y.card = x.card /\ y.user = x.user /\ y.req = x.req
      BY <1>1 DEF Contexts, Made, AfterPayment
    <2> HIDE DEF r, y
    <2>4. DbLasts /\ FlushedWhole(w)' /\ NewSent(w) /\ Visible(w)' = Visible(w) \cup {r}
      BY <2>1, <2>2, RowAdded
    <2>5. CASE Trusted(x)
      <3>1. CardThere(Visible(w)', y, {}) /\ LinkThere(Visible(w)', y, {})
        BY <1>1, <2>3, <2>4, <2>5, StillThere
      <3>2. PaymentThere(Visible(w)', y) /\ OwnerThere(Visible(w)', y)
        BY <1>1, <2>2, <2>3, <2>4, <2>5 DEF PaymentThere, OwnerThere
      <3>3. Reached(Visible(w)', y) /\ ~Finished(y)
        BY <2>3, <2>5, <3>1, <3>2 DEF Reached, Finished, PaymentSteps
      <3> QED BY <1>1, <2>1, <2>3, <2>4, <2>5, <3>3, TrustedForward DEF Forward
    <2>6. CASE ~Trusted(x)
      BY <1>1, <2>1, <2>3, <2>4, <2>6, OtherForward DEF Forward, Trusted
    <2> QED BY <2>5, <2>6
  <1> QED BY <1>2, <1>3 DEF InsertOwner

\* PATCH and DELETE.
LEMMA ChangePaymentForward ==
  ASSUME IInv, NEW w \in Workers, FlushedWhole(w), Progress(w), ChangePayment(w)
  PROVE  Forward(w)
  <1> DEFINE x == ctx[w]
  <1>1. /\ x \in Contexts /\ x.pc = "find_own"
        /\ x.req.op \in {"update_payment", "delete_payment"}
    BY DEF ChangePayment, NotOwned, UpdatePayment, DeletePayment, At, IInv, Fits, FitsOperation
  <1>2. UNCHANGED session => DbLasts /\ FlushedWhole(w)' /\ NewSent(w)
    BY RowsAlone DEF session, NewSent
  <1>3. CASE NotOwned(w)
    BY <1>2, <1>3, RefusalForward DEF NotOwned, Forward
  <1>4. CASE UpdatePayment(w)
    <2>1. Progress(w)'
      BY <1>4, RefusalForward DEF UpdatePayment
    <2>2. ASSUME NEW events, Commit(w, db, {}, events)
          PROVE  DbLasts /\ FlushedWhole(w)' /\ NewSent(w)
      BY <2>2, RowsCommitted, LastsItself
    <2> QED BY <1>2, <1>4, <2>1, <2>2 DEF UpdatePayment, Forward
  <1>5. CASE DeletePayment(w)
    <2>1. ctx'[w] = [x EXCEPT !.pc = "publish"]
      BY <1>5 DEF DeletePayment, Goto, Moves, IInv
    <2>2. ctx'[w].req = x.req /\ ctx'[w].user = x.user
      BY <1>1, <2>1 DEF Contexts
    <2>3. x.req.op = "delete_payment" => x.user # 0
      BY <1>1 DEF Progress, KnowsUser
    <2>4. Progress(w)'
      BY <1>1, <2>2, <2>3, OtherForward DEF Trusted
    <2> QED BY <1>2, <1>5, <2>4 DEF DeletePayment, Forward
  <1> QED BY <1>3, <1>4, <1>5 DEF ChangePayment

\* A change of address.
LEMMA UpdateEmailForward ==
  ASSUME IInv, NEW w \in Workers, FlushedWhole(w), UpdateEmail(w)
  PROVE  Forward(w)
  <1> DEFINE x == ctx[w]
             u == Row(w, "user", x.user)
             s == [u EXCEPT !.email = x.req.email]
  <1>1. /\ x.pc = "update_email" /\ x \in Contexts
        /\ x.req.op = "email_update" /\ x.user # 0 /\ tx[w] = {} /\ Names(w, x.user, "user")
    BY DEF UpdateEmail, At, IInv, Fits, FitsOperation, FitsStep, SeesRows, EmailSteps, Trusted
  <1>2. CASE Answer(w, 500) /\ UNCHANGED session
    BY <1>2, RefusalForward, RowsAlone DEF Forward, session, NewSent
  <1>3. CASE /\ Commit(w, (db \ {u}) \cup {s}, {}, <<>>)
             /\ Goto(w, [x EXCEPT !.pc = "report"])
    <2>1. u \in db /\ u.table = "user" /\ u.id = x.user
      BY <1>1 DEF Row, Names, Visible
    <2>2. IsRow(u)
      BY <2>1, InRows DEF IInv, Orderly, Good
    <2>3. s.table = "user" /\ s.id = u.id
      BY <2>1, <2>2 DEF IsRow, Columns
    <2>4. ctx'[w] = [x EXCEPT !.pc = "report"]
      BY <1>3 DEF Goto, Moves, IInv
    <2>5. ctx'[w].req = x.req
      BY <1>1, <2>4 DEF Contexts
    <2>6. Progress(w)'
      BY <1>1, <2>5, OtherForward DEF Trusted
    <2> HIDE DEF u, s
    <2>7. Lasts(u, s)
      BY <2>1, <2>3 DEF Lasts
    <2>8. \A r \in db : \E t \in (db \ {u}) \cup {s} : Lasts(r, t)
      BY <2>7, LastsItself
    <2> QED BY <1>3, <2>6, <2>8, RowsCommitted DEF Forward
  <1> QED BY <1>2, <1>3 DEF UpdateEmail

\* The commit of the wallet.
LEMMA DecideForward ==
  ASSUME IInv, NEW w \in Workers, FlushedWhole(w), Progress(w), Decide(w)
  PROVE  Forward(w)
  <1> DEFINE x == ctx[w]
             y == [x EXCEPT !.pc = "publish"]
  <1>1. /\ x \in Contexts /\ x.user # 0 /\ x.pc = "decide" /\ Trusted(x)
        /\ Reached(Visible(w), x)
    BY ComposingForward DEF Decide, TrustedSteps
  <1>2. ASSUME NEW status \in {200, 409}, Answer(w, status), UNCHANGED session
        PROVE  Forward(w)
    BY <1>2, RefusalForward, RowsAlone DEF Forward, session, NewSent
  <1>3. CASE Commit(w, db, {}, <<>>) /\ Goto(w, y)
    <2>1. ctx'[w] = y
      BY <1>3 DEF Goto, Moves, IInv
    <2>2. /\ y.pc = "publish" /\ y.payment = x.payment /\ y.card = x.card /\ y.user = x.user
      BY <1>1 DEF Contexts
    <2>3. /\ DbLasts /\ FlushedWhole(w)' /\ NewSent(w)
          /\ db' = db \cup tx[w] /\ tx'[w] = {}
      BY <1>3, RowsCommitted, LastsItself
    <2>4. Visible(w)' = Visible(w)
      BY <2>3 DEF Visible
    <2> HIDE DEF y
    <2>5. Reached(Visible(w), y)
      BY <1>1, <2>2 DEF Reached, CardThere, LinkThere, PaymentThere, OwnerThere, PaymentSteps
    <2> QED BY <1>1, <2>1, <2>2, <2>3, <2>4, <2>5, TrustedForward DEF Forward
  <1> QED BY <1>2, <1>3 DEF Decide

\* The messages, and the answer 201.
LEMMA PublishForward ==
  ASSUME IInv, NEW w \in Workers, FlushedWhole(w), Progress(w), Publish(w)
  PROVE  Forward(w)
  <1> DEFINE x == ctx[w]
             y == Answered(x, Success(x))
  <1>1. /\ x \in Contexts /\ x.pc = "publish" /\ ctx'[w] = y
        /\ db' = db /\ tx' = tx /\ sent' = sent \cup Messages(x)
    BY DEF Publish, At, Answer, Goto, Moves, IInv
  <1>2. DbLasts /\ FlushedWhole(w)'
    BY <1>1, RowsAlone
  <1>3. NewSent(w)
    <2>1. \A m \in Messages(x) :
            m.kind # "remove" \/ (m = Remove(x) /\ x.req.op = "delete_payment")
      BY DEF Messages, Enrol
    <2> QED BY <1>1, <2>1 DEF NewSent
  <1>4. /\ y.pc = "respond" /\ y.status = Success(x) /\ y.req = x.req
        /\ y.payment = x.payment /\ y.card = x.card /\ y.user = x.user
    BY <1>1 DEF Contexts, Answered
  <1> HIDE DEF y
  <1>5. CASE Trusted(x)
    <2>1. y.status = 201
      BY <1>4, <1>5 DEF Success, Trusted
    <2>2. x.user # 0 /\ Reached(Visible(w), x) /\ tx[w] = {}
      BY <1>1, <1>5 DEF Progress, KnowsUser, Finished, Trusted
    <2>3. Reached(Visible(w), y)
      BY <1>1, <1>4, <2>1, <2>2 DEF Reached, Finished, CardThere, LinkThere, PaymentThere,
         OwnerThere, PaymentSteps
    <2>4. Visible(w)' = Visible(w)
      BY <1>1 DEF Visible
    <2> QED BY <1>1, <1>2, <1>3, <1>4, <2>2, <2>3, <2>4, TrustedForward DEF Forward
  <1>6. CASE ~Trusted(x)
    <2>1. x.req.op = "delete_payment" => x.user # 0
      BY <1>1 DEF Progress, KnowsUser, Finished
    <2> QED BY <1>1, <1>2, <1>3, <1>4, <1>6, <2>1, OtherForward DEF Forward, Trusted
  <1> QED BY <1>5, <1>6

\* The rest.
LEMMA RestForward ==
  ASSUME IInv, NEW w \in Workers, FlushedWhole(w), Progress(w),
         Report(w) \/ Close(w) \/ Listener(w) \/ Abort(w) \/ Crash(w)
  PROVE  Forward(w)
  <1>1. CASE Report(w)
    <2>1. db' = db /\ tx' = tx /\ Answer(w, 200)
      BY <1>1 DEF Report
    <2>2. NewSent(w)
      BY <1>1 DEF Report, NewSent
    <2> QED BY <2>1, <2>2, RowsAlone, RefusalForward DEF Forward
  <1>2. CASE Close(w) \/ Crash(w)
    <2>1. db' = db /\ tx'[w] = {} /\ sent' = sent /\ ctx'[w] = Idle
      BY <1>2 DEF Close, Crash, Discard, Die, Goto, Moves, IInv, Orderly
    <2>2. ctx'[w].pc = "idle"
      BY <2>1 DEF Idle
    <2> QED BY <2>1, <2>2, RowsAlone, IdleForward DEF Forward, NewSent
  <1>3. CASE Listener(w)
    <2>1. db' = db /\ tx' = tx /\ ctx' = ctx
      BY <1>3 DEF Listener, Send, Requeue
    <2>2. NewSent(w)
      <3>1. CASE Send(w)
        <4>1. queue[w] \in Seq(Events) /\ queue[w] # <<>>
          BY <3>1 DEF Send, IInv, Orderly, Lists
        <4>2. Head(queue[w]) \in Events
          BY <4>1, HeadAndTail
        <4> QED BY <3>1, <4>2 DEF Send, NewSent, Events
      <3> QED BY <1>3, <3>1 DEF Listener, Requeue, NewSent
    <2>3. Progress(w)'
      BY <2>1 DEF Progress, Visible
    <2> QED BY <2>1, <2>2, <2>3, RowsAlone DEF Forward
  <1>4. CASE Abort(w)
    <2>1. db' = db /\ tx' = tx /\ sent' = sent /\ Moves(w, Answered(ctx[w], 500))
      BY <1>4 DEF Abort, DispatchRaises
    <2>2. PICK status : status # 201 /\ Moves(w, Answered(ctx[w], status))
      BY <2>1
    <2>3. Progress(w)'
      BY <2>2, AnswerForward
    <2> QED BY <2>1, <2>3, RowsAlone DEF Forward, NewSent
  <1> QED BY <1>1, <1>2, <1>3, <1>4

\* Every step of a worker.
LEMMA WorkerForward ==
  ASSUME IInv, NEW w \in Workers, FlushedWhole(w), Progress(w),
         Receive(w) \/ Proceed(w) \/ Listener(w) \/ Abort(w) \/ Crash(w)
  PROVE  Forward(w)
  <1>1. CASE Seeks(w)
    BY <1>1, SeekForward
  <1>2. CASE InsertUser(w) \/ UserTaken(w) \/ InsertConsent(w)
    BY <1>2, LoginForward
  <1>3. CASE TrustedAdd(w)
    BY <1>3, CheckMidForward, FindCardForward, InsertCardForward, InsertLinkForward,
       TouchForward DEF TrustedAdd
  <1>4. CASE AddPayment(w)
    BY <1>4, FindPaymentForward, InsertPaymentForward, InsertOwnerForward DEF AddPayment
  <1>5. CASE ChangePayment(w) \/ UpdateEmail(w) \/ Decide(w) \/ Publish(w)
    BY <1>5, ChangePaymentForward, UpdateEmailForward, DecideForward, PublishForward
  <1>6. CASE Report(w) \/ Close(w) \/ Listener(w) \/ Abort(w) \/ Crash(w)
    BY <1>6, RestForward
  <1> QED BY <1>1, <1>2, <1>3, <1>4, <1>5, <1>6 DEF Proceed, Login, ChangeEmail, Seeks

(***************************************************************************)
(* No user who has a wallet created also takes payment accounts out of it. *)
(***************************************************************************)
LeftAlone ==
    \A r, s \in Requests : r.op = "delete_payment" /\ s.op = "create_trusted" => r.ext # s.ext

(***************************************************************************)
(* Hermes is told to take an account out of a wallet only by its user.     *)
(***************************************************************************)
RemovesOwn ==
    \A m \in sent : m.kind = "remove" =>
        \E u \in db, r \in Requests :
            /\ u.table = "user" /\ u.id = m.user
            /\ r.op = "delete_payment" /\ r.ext = u.ext

WalletsWhole == RemovesOwn /\ \A w \in Workers : FlushedWhole(w) /\ Progress(w)

\* A step of a worker keeps this, for itself and for the others.
LEMMA WholeStep ==
  ASSUME IInv, UsersOwn, WalletsWhole, NEW w \in Workers, UserStep(w), Forward(w)
  PROVE  WalletsWhole'
  <1>1. ASSUME NEW v \in Workers, v # w
        PROVE  FlushedWhole(v)' /\ Progress(v)'
    <2>1. ctx'[v] = ctx[v] /\ tx'[v] = tx[v] /\ FlushedWhole(v) /\ Progress(v)
      BY <1>1 DEF UserStep, WalletsWhole
    <2>2. \A r \in Visible(v) : \E s \in Visible(v)' : Lasts(r, s)
      BY <2>1, LastsItself DEF Forward, DbLasts, Visible
    <2>3. Reached(Visible(v), ctx[v]) => Reached(Visible(v)', ctx[v])
      BY <2>2, ReachedLasts
    <2> QED BY <2>1, <2>3 DEF FlushedWhole, Progress
  <1>2. FlushedWhole(w)' /\ Progress(w)'
    BY DEF Forward
  <1>3. ASSUME NEW u \in db, u.table = "user"
        PROVE  \E s \in db' : s.table = "user" /\ s.id = u.id /\ s.ext = u.ext
    BY <1>3, UsersStay
  <1>4. RemovesOwn'
    <2> SUFFICES ASSUME NEW m \in sent', m.kind = "remove"
                 PROVE  \E u \in db', r \in Requests :
                          /\ u.table = "user" /\ u.id = m.user
                          /\ r.op = "delete_payment" /\ r.ext = u.ext
      BY DEF RemovesOwn
    <2>1. PICK u \in db, r \in Requests :
            /\ u.table = "user" /\ u.id = m.user
            /\ r.op = "delete_payment" /\ r.ext = u.ext
      <3>1. CASE m \in sent
        BY <3>1 DEF WalletsWhole, RemovesOwn
      <3>2. CASE /\ m = Remove(ctx[w])
                 /\ ctx[w].pc = "publish" /\ ctx[w].req.op = "delete_payment"
        <4>1. ctx[w].user # 0 /\ ctx[w].req \in Requests /\ tx[w] = {}
          BY <3>2 DEF WalletsWhole, Progress, KnowsUser, Finished, IInv, Fits, FitsOperation,
             Trusted
        <4>2. PICK u \in Visible(w) : IsOf(u, ctx[w])
          BY <4>1 DEF UsersOwn, OwnUser
        <4> QED BY <3>2, <4>1, <4>2 DEF Visible, IsOf, Remove
      <3> QED BY <3>1, <3>2 DEF Forward, NewSent
    <2> QED BY <1>3, <2>1
  <1> QED BY <1>1, <1>2, <1>4 DEF WalletsWhole

\* What Hermes takes away is of none of them.
LEMMA WholeHermes ==
  ASSUME IInv, UsersOwn, LeftAlone, WalletsWhole, Hermes
  PROVE  WalletsWhole'
  <1>1. ctx' = ctx /\ tx' = tx /\ sent' \subseteq sent
    BY DEF Hermes, HermesLinks, HermesDeletes, HermesRemoves
  <1>2. \A u : u.table = "user" => (u \in db' <=> u \in db)
    BY HermesUsers DEF UsersAlone
  <1>3. RemovesOwn'
    BY <1>1, <1>2 DEF WalletsWhole, RemovesOwn
  <1>4. \A p \in In(db, "payment") : IsRow(p) /\ p.table = "payment" /\ p \in db
    BY InRows DEF In, IInv, Orderly, Good
  <1>5. \A p \in In(db, "payment") : Lasts(p, [p EXCEPT !.pll = TRUE]) /\ Lasts(p, Closed(p))
    BY <1>4, Linked, ClosedKept DEF Kept, Lasts
  <1>6. \A r \in db : \/ \E s \in db' : Lasts(r, s)
                      \/ r.table = "owner" /\ Remove(r) \in sent
    <2>1. ASSUME NEW p \in In(db, "payment"), HermesLinks(p) \/ HermesDeletes(p)
          PROVE  \A r \in db : \E s \in db' : Lasts(r, s)
      <3>1. PICK q : Lasts(p, q) /\ db' = (db \ {p}) \cup {q}
        BY <1>5, <2>1 DEF HermesLinks, HermesDeletes
      <3> QED BY <3>1, LastsItself
    <2>2. ASSUME NEW o \in In(db, "owner"), HermesRemoves(o)
          PROVE  \A r \in db : (\E s \in db' : Lasts(r, s)) \/ (r.table = "owner" /\ Remove(r) \in sent)
      <3>1. o.table = "owner" /\ Remove(o) \in sent
        BY <2>2 DEF In, HermesRemoves
      <3>2. CASE db' = db \ {o}
        BY <3>1, <3>2, LastsItself
      <3>3. ASSUME NEW p \in In(db, "payment"), db' = (db \ {o, p}) \cup {Closed(p)}
            PROVE  \A r \in db : (\E s \in db' : Lasts(r, s)) \/ (r.table = "owner" /\ Remove(r) \in sent)
        <4>1. Lasts(p, Closed(p))
          BY <1>5
        <4> QED BY <3>1, <3>3, <4>1, LastsItself
      <3> QED BY <2>2, <3>2, <3>3 DEF HermesRemoves
    <2> QED BY <2>1, <2>2 DEF Hermes
  <1>7. ASSUME NEW w \in Workers PROVE FlushedWhole(w)' /\ Progress(w)'
    <2> DEFINE x == ctx[w]
    <2>1. FlushedWhole(w) /\ Progress(w)
      BY DEF WalletsWhole
    <2>2. ASSUME Trusted(x) PROVE Reached(Visible(w)', x)
      <3>1. CASE ~KnowsUser(x)
        BY <3>1 DEF Reached, KnowsUser, TrustedSteps, PaymentSteps
      <3>2. CASE KnowsUser(x)
        <4>1. x.user # 0 /\ x.req \in Requests /\ Reached(Visible(w), x)
          BY <2>1, <2>2, <3>2 DEF Progress, Trusted, KnowsUser, Finished, TrustedSteps,
             PaymentSteps, IInv, Fits, FitsOperation
        <4>2. PICK t \in Visible(w) : IsOf(t, x)
          BY <4>1 DEF UsersOwn, OwnUser
        <4>3. ASSUME NEW r \in db, r.table = "owner", r.user = x.user
              PROVE  Remove(r) \notin sent
          <5>1. SUFFICES ASSUME Remove(r) \in sent PROVE FALSE
            OBVIOUS
          <5>2. Remove(r).kind = "remove" /\ Remove(r).user = x.user
            BY <4>3 DEF Remove
          <5>3. PICK u \in db, q \in Requests :
                  /\ u.table = "user" /\ u.id = x.user
                  /\ q.op = "delete_payment" /\ q.ext = u.ext
            BY <5>1, <5>2 DEF WalletsWhole, RemovesOwn
          <5>4. t = u
            BY <4>2, <5>3, InRows DEF IInv, Orderly, Good, Visible, IsOf
          <5> QED BY <2>2, <4>1, <4>2, <5>3, <5>4 DEF LeftAlone, Trusted, IsOf
        <4>4. \A r \in Visible(w) : (r.table = "owner" => r.user = x.user) =>
                 \E s \in Visible(w)' : Lasts(r, s)
          BY <1>1, <1>6, <4>3, LastsItself DEF Visible
        <4> QED BY <4>1, <4>4, ReachedLasts
      <3> QED BY <3>1, <3>2
    <2> QED BY <1>1, <2>1, <2>2 DEF FlushedWhole, Progress
  <1> QED BY <1>3, <1>7 DEF WalletsWhole

(***************************************************************************)
(* What 201 promises is committed when it is given                         *)
(* (resources/wallet.py:211): by any number of workers, with the listener, *)
(* faults and Hermes at work between any two statements.  Only a request   *)
(* of the same user to take the account out could have come in between.    *)
(***************************************************************************)
THEOREM CreatedWalletsComplete == LeftAlone /\ Spec => []WalletComplete
  <1>1. LeftAlone => LeftAlone'
    BY DEF LeftAlone
  <1>2. Init => WalletsWhole
    <2> SUFFICES ASSUME Init PROVE WalletsWhole
      OBVIOUS
    <2>1. \A w \in Workers : tx[w] = {} /\ ctx[w].pc = "idle"
      BY DEF Init, SessionInit, Idle
    <2>2. \A m \in sent : m.kind # "remove"
      BY DEF Init, SessionInit, Enrol
    <2> QED BY <2>1, <2>2 DEF WalletsWhole, RemovesOwn, FlushedWhole, Progress, Reached,
           KnowsUser, Finished, TrustedSteps, PaymentSteps
  <1>3. IInv /\ UsersOwn /\ LeftAlone /\ WalletsWhole /\ [Next]_vars => WalletsWhole'
    <2> SUFFICES ASSUME IInv, UsersOwn, LeftAlone, WalletsWhole, [Next]_vars
                 PROVE  WalletsWhole'
      OBVIOUS
    <2>1. ASSUME NEW w \in Workers,
                 Receive(w) \/ Proceed(w) \/ Listener(w) \/ Abort(w) \/ Crash(w)
          PROVE  WalletsWhole'
      <3>1. FlushedWhole(w) /\ Progress(w)
        BY DEF WalletsWhole
      <3>2. UserStep(w) /\ Forward(w)
        BY <2>1, <3>1, WorkerUsers, WorkerForward
      <3> QED BY <3>2, WholeStep
    <2>2. CASE UNCHANGED vars
      BY <2>2 DEF vars, session, WalletsWhole, RemovesOwn, FlushedWhole, Progress, Visible
    <2> QED BY <2>1, <2>2, WholeHermes DEF Next, Terminated
  <1>4. IInv /\ UsersOwn /\ WalletsWhole => WalletComplete
    <2> SUFFICES ASSUME UsersOwn, WalletsWhole, NEW w \in Workers,
                        ctx[w].pc = "respond", ctx[w].status = 201, Trusted(ctx[w])
                 PROVE  /\ \E u \in In(db, "user") : u.id = ctx[w].user
                        /\ HasCard(ctx[w])
                        /\ HasPayment(ctx[w])
      BY DEF WalletComplete
    <2>1. /\ ctx[w].user # 0 /\ tx[w] = {} /\ Reached(Visible(w), ctx[w])
      BY DEF WalletsWhole, Progress, KnowsUser, Finished, Trusted
    <2>2. Visible(w) = db
      BY <2>1 DEF Visible
    <2>3. \E u \in In(db, "user") : u.id = ctx[w].user
      BY <2>1, <2>2 DEF UsersOwn, OwnUser, IsOf, In
    <2>4. HasCard(ctx[w])
      BY <2>1, <2>2 DEF Reached, Finished, CardThere, LinkThere, HasCard, In
    <2>5. HasPayment(ctx[w])
      BY <2>1, <2>2 DEF Reached, Finished, PaymentThere, OwnerThere, HasPayment, In
    <2> QED BY <2>3, <2>4, <2>5
  <1> QED BY <1>1, <1>2, <1>3, <1>4, UsersOwned, Inductive, PTL DEF Spec
===========================================================================
