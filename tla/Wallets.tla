------------------------------ MODULE Wallets ------------------------------
(***************************************************************************)
(* The endpoints that create and change users and wallets: POST /token     *)
(* (handlers/token.py), POST /wallet/create_trusted (resources/wallet.py), *)
(* POST, PATCH and DELETE of /payment_accounts                             *)
(* (handlers/payment_account.py) and POST /email_update                    *)
(* (handlers/user.py), run by several workers, each with its Sessions      *)
(* session.                                                                *)
(*                                                                         *)
(* The POSTs share their code.  create_trusted runs the token, the trusted *)
(* add and the payment account handlers with commit=False, so that they    *)
(* only flush, and commits at the end; the others run them with            *)
(* commit=True.  One channel, which requires an e-mail address, and one    *)
(* loyalty plan are modelled.                                              *)
(***************************************************************************)
EXTENDS Sessions

CONSTANTS
    Requests,    \* the requests that may be made
    None,
    MaxRequests, \* bound: requests served in one behaviour
    MaxFaults    \* bound: requests that raise and workers that die

Ops == {"token", "create_trusted", "add_payment", "update_payment", "delete_payment",
        "email_update"}

ASSUME RequestsAssumption == \A r \in Requests : r.op \in Ops
ASSUME BoundAssumption == MaxRequests \in Nat /\ MaxFaults \in Nat
ASSUME BrokerAssumption == BrokerFails \in BOOLEAN
\* A database to start from breaks no unique index, and its users have consented.
ASSUME TablesAssumption ==
    \A t \in Tables :
        /\ IsFiniteSet(t)
        /\ \A r \in t : IsRow(r) /\ r.id \in 1..Cardinality(t)
        /\ \A r, s \in t : r.id = s.id \/ Clash(r, s) => r = s
        /\ \A u \in t : u.table = "user" =>
              \E c \in t : c.table = "consent" /\ c.user = u.id

VARIABLES
    ctx,    \* what each worker is doing
    served, \* requests received so far
    faults  \* requests that raised and workers that died so far

vars == <<session, ctx, served, faults>>

(***************************************************************************)
(* What a worker holds of its request: "req" the validated body and token  *)
(* claims, "user", "card" and "payment" the ids the handlers keep, "todo"  *)
(* what the trusted add has to change on rows it found, the three flags    *)
(* the resource decides on, "made" the ids of the rows inserted so far     *)
(* (kept only to state properties) and "status" the answer.                *)
(***************************************************************************)
Idle == [pc |-> "idle", req |-> None, user |-> 0, card |-> 0, payment |-> 0,
         todo |-> {}, newUser |-> FALSE, newCard |-> FALSE, newPayment |-> FALSE,
         made |-> {}, status |-> 0]

In(rows, table) == {r \in rows : r.table = table}

Enrol(o) == [kind |-> "enrol", user |-> o.user, payment |-> o.payment]
Remove(o) == [kind |-> "remove", user |-> o.user, payment |-> o.payment]

Init ==
    /\ SessionInit({Enrol(o) : o \in In(db, "owner")})
    /\ ctx = [w \in Workers |-> Idle]
    /\ served = 0
    /\ faults = 0

At(w, pc) == ctx[w].pc = pc /\ w \notin committing

Moves(w, x) == ctx' = [ctx EXCEPT ![w] = x] /\ UNCHANGED served

Goto(w, x) == Moves(w, x) /\ UNCHANGED faults

Answered(x, status) == [x EXCEPT !.pc = "respond", !.status = status]

Answer(w, status) == Goto(w, Answered(ctx[w], status))

Trusted(x) == x.req.op = "create_trusted"

Row(w, table, id) == CHOOSE r \in Visible(w) : r.table = table /\ r.id = id

(***************************************************************************)
(* The insert of a row that nothing flushed elsewhere holds up: "Flush" in *)
(* the shared transaction of create_trusted, "Commit" in one of its own.   *)
(***************************************************************************)
Insert(w, r) ==
    /\ ~Waits(w, r)
    /\ ~Taken(w, r)
    /\ IF Trusted(ctx[w]) THEN Flush(w, r)
                          ELSE Commit(w, db, {r}, Noted("create", r))

Made(x) == [x EXCEPT !.made = @ \cup {serial}]

-----------------------------------------------------------------------------
(* Receiving a request *)

(***************************************************************************)
(* A token names an external user; the other endpoints carry an access     *)
(* token, which was given for a user's row.  PATCH and DELETE name a       *)
(* payment account by an id that was given out.                            *)
(***************************************************************************)
Named(req) ==
    IF req.op \in {"update_payment", "delete_payment"}
    THEN {p.id : p \in {q \in In(db, "payment") : q.print = req.print}}
    ELSE {0}

FirstQuery == [token |-> "find_user", create_trusted |-> "find_user",
               add_payment |-> "find_payment", update_payment |-> "find_own",
               delete_payment |-> "find_own", email_update |-> "check_email"]

Receive(w) ==
    /\ ctx[w].pc = "idle"
    /\ served < MaxRequests
    /\ served' = served + 1
    /\ \E req \in Requests :
         LET x == [Idle EXCEPT !.req = req, !.pc = FirstQuery[req.op]] IN
         \/ req.op \in {"token", "create_trusted"} /\ ctx' = [ctx EXCEPT ![w] = x]
         \/ /\ req.op \notin {"token", "create_trusted"}
            /\ \E u \in In(db, "user"), p \in Named(req) :
                 /\ u.ext = req.ext
                 /\ ctx' = [ctx EXCEPT ![w] = [x EXCEPT !.user = u.id, !.payment = p]]
    /\ UNCHANGED <<session, faults>>

-----------------------------------------------------------------------------
(* The token handler *)

AfterUser(x) == [x EXCEPT !.pc = IF Trusted(x) THEN "check_mid" ELSE "publish"]

UsersOf(w, ext) == {u \in In(Visible(w), "user") : u.ext = ext}

(***************************************************************************)
(* process_b2b_token: the user by external id, and the e-mail of the token *)
(* against the one in the row.                                             *)
(***************************************************************************)
FindUser(w) ==
    /\ At(w, "find_user")
    /\ LET x == ctx[w]
           found == UsersOf(w, x.req.ext)
       IN \/ Cardinality(found) > 1 /\ Answer(w, 409)
          \/ found = {} /\ Goto(w, [x EXCEPT !.pc = "check_new_email"])
          \/ \E u \in found :
               /\ found = {u}
               /\ IF u.email = x.req.email
                  THEN Goto(w, AfterUser([x EXCEPT !.user = u.id]))
                  ELSE Answer(w, 400)
    /\ UNCHANGED session

\* Mutant: the e-mail of a new user is not looked up.
TakeAnyEmail(w) ==
    /\ At(w, "check_new_email")
    /\ Goto(w, [ctx[w] EXCEPT !.pc = "insert_user"])
    /\ UNCHANGED session

(***************************************************************************)
(* _validate_if_email_exists.                                              *)
(***************************************************************************)
CheckNewEmail(w) ==
    /\ At(w, "check_new_email")
    /\ IF \E u \in In(Visible(w), "user") : u.email = ctx[w].req.email
       THEN Answer(w, 400)
       ELSE Goto(w, [ctx[w] EXCEPT !.pc = "insert_user"])
    /\ UNCHANGED session

NewUser(x) == [table |-> "user", id |-> serial, ext |-> x.req.ext, email |-> x.req.email]

(***************************************************************************)
(* _create_new_user_for_login: the insert, and the consent of the user it  *)
(* inserted in a transaction of its own (except in create_trusted).        *)
(***************************************************************************)
InsertUser(w) ==
    /\ At(w, "insert_user")
    /\ Insert(w, NewUser(ctx[w]))
    /\ Goto(w, Made([ctx[w] EXCEPT !.pc = "insert_consent", !.user = serial,
                                   !.newUser = TRUE]))

(***************************************************************************)
(* The insert meets the user of another login: UniqueViolation, rollback.  *)
(***************************************************************************)
UserTaken(w) ==
    /\ At(w, "insert_user")
    /\ ~Waits(w, NewUser(ctx[w]))
    /\ Taken(w, NewUser(ctx[w]))
    /\ Discard(w)
    /\ Goto(w, [ctx[w] EXCEPT !.pc = "reselect"])

(***************************************************************************)
(* The user of the other login is selected, and counts as created here.    *)
(* scalar_one raises unless there is exactly one.                          *)
(***************************************************************************)
Reselect(w) ==
    /\ At(w, "reselect")
    /\ LET found == UsersOf(w, ctx[w].req.ext)
       IN \/ Cardinality(found) # 1 /\ Answer(w, 500)
          \/ \E u \in found :
               /\ found = {u}
               /\ Goto(w, AfterUser([ctx[w] EXCEPT !.user = u.id, !.newUser = TRUE]))
    /\ UNCHANGED session

\* Mutant: the second commit is left to nobody.
FlushConsent(w) ==
    /\ At(w, "insert_consent")
    /\ Flush(w, [table |-> "consent", id |-> serial, user |-> ctx[w].user])
    /\ Goto(w, AfterUser(Made(ctx[w])))

InsertConsent(w) ==
    /\ At(w, "insert_consent")
    /\ Insert(w, [table |-> "consent", id |-> serial, user |-> ctx[w].user])
    /\ Goto(w, AfterUser(Made(ctx[w])))

-----------------------------------------------------------------------------
(* The trusted add of create_trusted *)

(***************************************************************************)
(* A card is found only together with a link to it.                        *)
(***************************************************************************)
FoundCards(w) ==
    {c \in In(Visible(w), "card") : \E l \in In(Visible(w), "link") : l.card = c.id}

(***************************************************************************)
(* validate_merchant_identifier.                                           *)
(***************************************************************************)
CheckMid(w) ==
    /\ At(w, "check_mid")
    /\ IF \E c \in FoundCards(w) : c.mid = ctx[w].req.mid /\ c.key # ctx[w].req.key
       THEN Answer(w, 409)
       ELSE Goto(w, [ctx[w] EXCEPT !.pc = "find_card"])
    /\ UNCHANGED session

ToDate(c) == IF c.dated THEN {} ELSE {"date"}

(***************************************************************************)
(* _route_trusted_add on the card found, with or without a link of this    *)
(* user: what it will change is decided here, from the rows just read.     *)
(***************************************************************************)
UseCard(w, c) ==
    LET x == [ctx[w] EXCEPT !.card = c.id]
        own == {l \in In(Visible(w), "link") : l.card = c.id /\ l.user = x.user}
    IN \/ c.mid \notin {None, x.req.mid} /\ Answer(w, 409)
       \/ /\ c.mid \in {None, x.req.mid}
          /\ own = {}
          /\ Goto(w, [x EXCEPT !.pc = "insert_link", !.todo = ToDate(c)])
       \/ /\ c.mid \in {None, x.req.mid}
          /\ \E l \in own :
               LET todo == ToDate(c) \cup (IF l.active THEN {} ELSE {"activate"})
               IN Goto(w, [x EXCEPT !.todo = todo,
                                    !.pc = IF todo = {} THEN "find_payment" ELSE "touch"])

FindCard(w) ==
    /\ At(w, "find_card")
    /\ LET found == {c \in FoundCards(w) : c.key = ctx[w].req.key}
       IN \/ found = {} /\ Goto(w, [ctx[w] EXCEPT !.pc = "insert_card"])
          \/ Cardinality(found) > 1 /\ Answer(w, 500)
          \/ \E c \in found : found = {c} /\ UseCard(w, c)
    /\ UNCHANGED session

(***************************************************************************)
(* create_new_loyalty_card flushes the card before it makes the link.      *)
(***************************************************************************)
InsertCard(w) ==
    /\ At(w, "insert_card")
    /\ Insert(w, [table |-> "card", id |-> serial, key |-> ctx[w].req.key,
                  mid |-> ctx[w].req.mid, dated |-> TRUE])
    /\ Goto(w, Made([ctx[w] EXCEPT !.pc = "insert_link", !.card = serial]))

(***************************************************************************)
(* link_account_to_user.                                                   *)
(***************************************************************************)
NewLink(x) == [table |-> "link", id |-> serial, card |-> x.card, user |-> x.user,
               active |-> TRUE]

InsertLink(w) ==
    /\ At(w, "insert_link")
    /\ \/ /\ Insert(w, NewLink(ctx[w]))
          /\ Goto(w, Made([ctx[w] EXCEPT !.newCard = TRUE,
                     !.pc = IF ctx[w].todo = {} THEN "find_payment" ELSE "touch"]))
       \/ /\ ~Waits(w, NewLink(ctx[w]))
          /\ Taken(w, NewLink(ctx[w]))
          /\ Answer(w, 422)
          /\ UNCHANGED session

(***************************************************************************)
(* The end of _route_trusted_add: it commits whatever self.commit says,    *)
(* and with the card everything else the request has flushed.              *)
(***************************************************************************)
Touched(x, r) ==
    CASE r.table = "card" /\ r.id = x.card /\ "date" \in x.todo ->
            [r EXCEPT !.dated = TRUE]
      [] r.table = "link" /\ r.card = x.card /\ r.user = x.user /\ "activate" \in x.todo ->
            [r EXCEPT !.active = TRUE]
      [] OTHER -> r

Touch(w) ==
    /\ At(w, "touch")
    /\ LET x == ctx[w]
           link == CHOOSE l \in Visible(w) :
                     l.table = "link" /\ l.card = x.card /\ l.user = x.user
       IN Commit(w, {Touched(x, r) : r \in db}, {},
                 (IF "activate" \in x.todo THEN Noted("update", link) ELSE <<>>) \o
                 (IF "date" \in x.todo THEN Noted("update", Row(w, "card", x.card))
                                       ELSE <<>>))
    /\ Goto(w, [ctx[w] EXCEPT !.pc = "find_payment"])

-----------------------------------------------------------------------------
(* The payment account handler *)

NewOwner(x) == [table |-> "owner", id |-> serial, payment |-> x.payment, user |-> x.user]

\* Mutant: Hermes is told of new accounts only.
AnnounceNewOnly(x) ==
    [x EXCEPT !.pc = IF Trusted(x) THEN "decide"
                     ELSE IF x.newPayment THEN "publish" ELSE "respond"]

AfterPayment(x) == [x EXCEPT !.pc = IF Trusted(x) THEN "decide" ELSE "publish"]

(***************************************************************************)
(* add_card: the account of the fingerprint that is not deleted, and the   *)
(* users linked to it.  A deleted one is superseded by a new one.  When    *)
(* there is nothing to insert the commit still runs the listener.          *)
(***************************************************************************)
FindPayment(w) ==
    /\ At(w, "find_payment")
    /\ LET x == ctx[w]
           found == {p \in In(Visible(w), "payment") : p.print = x.req.print /\ p.live}
           owned == {p \in found : \E o \in In(Visible(w), "owner") :
                                      o.payment = p.id /\ o.user = x.user}
       IN \/ /\ found = {}
             /\ Goto(w, [x EXCEPT !.pc = "insert_payment"])
             /\ UNCHANGED session
          \/ \E p \in found \ owned :
               /\ Goto(w, [x EXCEPT !.pc = "insert_owner", !.payment = p.id])
               /\ UNCHANGED session
          \/ \E p \in owned :
               /\ Goto(w, AfterPayment([x EXCEPT !.payment = p.id]))
               /\ IF Trusted(x) THEN UNCHANGED session ELSE Commit(w, db, {}, <<>>)

NewPayment(x) == [table |-> "payment", id |-> serial, print |-> x.req.print,
                  live |-> TRUE, pll |-> FALSE]

(***************************************************************************)
(* create and _supersede_old_account: the account is flushed to have its   *)
(* id.  Nothing catches the IntegrityError of a second one.                *)
(***************************************************************************)
InsertPayment(w) ==
    /\ At(w, "insert_payment")
    /\ ~Waits(w, NewPayment(ctx[w]))
    /\ \/ /\ Taken(w, NewPayment(ctx[w]))
          /\ Answer(w, 500)
          /\ UNCHANGED session
       \/ /\ ~Taken(w, NewPayment(ctx[w]))
          /\ Flush(w, NewPayment(ctx[w]))
          /\ Goto(w, Made([ctx[w] EXCEPT !.pc = "insert_owner", !.payment = serial,
                                         !.newPayment = TRUE]))

InsertOwner(w) ==
    /\ At(w, "insert_owner")
    /\ \/ /\ Insert(w, NewOwner(ctx[w]))
          /\ Goto(w, Made(AfterPayment(ctx[w])))
       \/ /\ ~Waits(w, NewOwner(ctx[w]))
          /\ Taken(w, NewOwner(ctx[w]))
          /\ Answer(w, 500)
          /\ UNCHANGED session

(***************************************************************************)
(* update_card and delete_card, from the query for the user's link to the  *)
(* account.  The details themselves are left out: PATCH changes some, so   *)
(* that the listener has an update to report, or finds nothing to change.  *)
(***************************************************************************)
Owns(w) ==
    \E o \in In(db, "owner") : o.payment = ctx[w].payment /\ o.user = ctx[w].user

NotOwned(w) ==
    /\ At(w, "find_own")
    /\ ~Owns(w)
    /\ Answer(w, 404)
    /\ UNCHANGED session

UpdatePayment(w) ==
    /\ At(w, "find_own")
    /\ ctx[w].req.op = "update_payment"
    /\ Owns(w)
    /\ Answer(w, 200)
    /\ \/ UNCHANGED session
       \/ Commit(w, db, {}, Noted("update", Row(w, "payment", ctx[w].payment)))

DeletePayment(w) ==
    /\ At(w, "find_own")
    /\ ctx[w].req.op = "delete_payment"
    /\ Owns(w)
    /\ Goto(w, [ctx[w] EXCEPT !.pc = "publish"])
    /\ UNCHANGED session

-----------------------------------------------------------------------------
(* The end of create_trusted *)

(***************************************************************************)
(* has_ubiquity_collisions: the payment card is linked to a loyalty card.  *)
(***************************************************************************)
Collides(w) ==
    \E p \in In(Visible(w), "payment") : p.print = ctx[w].req.print /\ p.live /\ p.pll

NothingNew(x) == ~x.newUser /\ ~x.newCard /\ ~x.newPayment

\* Mutant: the wallet is announced without having been committed.
DecideWithoutCommit(w) ==
    /\ At(w, "decide")
    /\ IF NothingNew(ctx[w]) THEN Answer(w, 200)
       ELSE IF Collides(w) \/ ~ctx[w].newUser THEN Answer(w, 409)
       ELSE Goto(w, [ctx[w] EXCEPT !.pc = "publish"])
    /\ UNCHANGED session

Decide(w) ==
    /\ At(w, "decide")
    /\ LET x == ctx[w] IN
       \/ NothingNew(x) /\ Answer(w, 200) /\ UNCHANGED session
       \/ /\ ~NothingNew(x)
          /\ Collides(w) \/ ~x.newUser
          /\ Answer(w, 409)
          /\ UNCHANGED session
       \/ /\ x.newUser
          /\ ~Collides(w)
          /\ Commit(w, db, {}, <<>>)
          /\ Goto(w, [x EXCEPT !.pc = "publish"])

-----------------------------------------------------------------------------
(* The change of an e-mail address *)

(***************************************************************************)
(* check_for_existing_email.                                               *)
(***************************************************************************)
CheckEmail(w) ==
    /\ At(w, "check_email")
    /\ LET found == {u \in In(db, "user") : u.email = ctx[w].req.email}
       IN \/ Cardinality(found) > 1 /\ Answer(w, 500)
          \/ /\ Cardinality(found) = 1
             /\ \E u \in found : u.id # ctx[w].user
             /\ Answer(w, 409)
          \/ /\ found \subseteq {u \in found : u.id = ctx[w].user}
             /\ Goto(w, [ctx[w] EXCEPT !.pc = "update_email"])
    /\ UNCHANGED session

(***************************************************************************)
(* The UPDATE and its commit.  It waits for transactions that refer to the *)
(* user (their foreign keys hold the row).  It is no ORM update, so that   *)
(* the listeners see nothing and sql_history reports it instead.           *)
(***************************************************************************)
UpdateEmail(w) ==
    /\ At(w, "update_email")
    /\ LET user == Row(w, "user", ctx[w].user)
           changed == [user EXCEPT !.email = ctx[w].req.email]
       IN /\ ~Waits(w, changed)
          /\ \A v \in Workers : \A r \in tx[v] :
                r.table \in {"consent", "link", "owner"} => r.user # user.id
          /\ IF \E u \in db \ {user} : Clash(u, changed)
             THEN Answer(w, 500) /\ UNCHANGED session
             ELSE /\ Commit(w, (db \ {user}) \cup {changed}, {}, <<>>)
                  /\ Goto(w, [ctx[w] EXCEPT !.pc = "report"])

(***************************************************************************)
(* sql_history traps every exception.                                      *)
(***************************************************************************)
Report(w) ==
    /\ At(w, "report")
    /\ LET e == [kind |-> "update", row |-> ctx[w].user]
       IN \/ sent' = sent \cup {e} /\ UNCHANGED lost
          \/ BrokerFails /\ lost' = lost \cup {e} /\ UNCHANGED sent
    /\ Answer(w, 200)
    /\ UNCHANGED <<db, tx, serial, queue, committing>>

-----------------------------------------------------------------------------
(* Messages to Hermes, and the end of a request *)

(***************************************************************************)
(* The messages of the handlers: what a login reports about its user, the  *)
(* payment account Hermes has to enrol (post_payment_account, or with the  *)
(* whole wallet create_trusted) or to take out of the wallet               *)
(* (delete_payment_account).  A login's two go out in one step: no other   *)
(* step of the program depends on them.                                    *)
(***************************************************************************)
Messages(x) ==
    CASE x.req.op = "token" ->
            {[kind |-> k, user |-> x.user] : k \in {"user_session", "refresh_balances"}}
      [] x.req.op = "delete_payment" -> {Remove(x)}
      [] OTHER -> {Enrol(x)}

Success(x) ==
    CASE Trusted(x) \/ x.newPayment -> 201
      [] x.req.op = "delete_payment" -> 202
      [] OTHER -> 200

Publish(w) ==
    /\ At(w, "publish")
    /\ sent' = sent \cup Messages(ctx[w])
    /\ Answer(w, Success(ctx[w]))
    /\ UNCHANGED <<db, tx, serial, queue, committing, lost>>

\* Mutant: the session is neither rolled back nor closed.
LeaveOpen(w) ==
    /\ At(w, "respond")
    /\ Goto(w, Idle)
    /\ UNCHANGED session

(***************************************************************************)
(* DatabaseSessionManager.process_response: rollback after a failure, and  *)
(* in any case close, which discards what was not committed.               *)
(***************************************************************************)
Close(w) ==
    /\ At(w, "respond")
    /\ Discard(w)
    /\ Goto(w, Idle)

(***************************************************************************)
(* What a request still owes: its messages, and the consent of a user it   *)
(* has committed.                                                          *)
(***************************************************************************)
Consent(u) == [kind |-> "consent", user |-> u]

Owed(x) ==
    CASE x.pc = "publish" -> Messages(x)
      [] x.pc = "insert_consent" /\ ~Trusted(x) -> {Consent(x.user)}
      [] OTHER -> {}

(***************************************************************************)
(* A query, a commit or a publish raises what the handler does not expect. *)
(***************************************************************************)
Abort(w) ==
    /\ faults < MaxFaults
    /\ faults' = faults + 1
    /\ \/ /\ ctx[w].pc \notin {"idle", "report", "respond"}
          /\ w \notin committing
          /\ lost' = lost \cup Owed(ctx[w])
          /\ UNCHANGED <<db, tx, serial, queue, committing, sent>>
       \/ DispatchRaises(w, Owed(ctx[w]))
    /\ Moves(w, Answered(ctx[w], 500))

Crash(w) ==
    /\ faults < MaxFaults
    /\ faults' = faults + 1
    /\ ctx[w].pc # "idle"
    /\ Die(w, Owed(ctx[w]))
    /\ Moves(w, Idle)

-----------------------------------------------------------------------------
(* Hermes (external): it links the payment accounts it was told of to      *)
(* loyalty cards, deletes accounts with their links, and takes an account  *)
(* out of a wallet when it is told to: it has to be told again of the      *)
(* account if the user adds it again.  With its last owner it may delete   *)
(* the account.                                                            *)

Enrolled(p) == p.live /\ \E m \in sent : m.kind = "enrol" /\ m.payment = p.id

Closed(p) == [p EXCEPT !.live = FALSE, !.pll = FALSE]

HermesLinks(p) ==
    /\ Enrolled(p) /\ ~p.pll
    /\ db' = (db \ {p}) \cup {[p EXCEPT !.pll = TRUE]}
    /\ UNCHANGED sent

HermesDeletes(p) ==
    /\ Enrolled(p)
    /\ db' = (db \ {p}) \cup {Closed(p)}
    /\ UNCHANGED sent

HermesRemoves(o) ==
    /\ Remove(o) \in sent
    /\ \/ db' = db \ {o}
       \/ \E p \in In(db, "payment") :
            /\ p.id = o.payment
            /\ \A q \in In(db, "owner") \ {o} : q.payment # p.id
            /\ db' = (db \ {o, p}) \cup {Closed(p)}
    /\ sent' = sent \ {Remove(o), Enrol(o)}

Hermes ==
    /\ \/ \E p \in In(db, "payment") : HermesLinks(p) \/ HermesDeletes(p)
       \/ \E o \in In(db, "owner") : HermesRemoves(o)
    /\ UNCHANGED <<tx, serial, queue, committing, lost, ctx, served, faults>>

-----------------------------------------------------------------------------

Login(w) ==
    FindUser(w) \/ CheckNewEmail(w) \/ InsertUser(w) \/ UserTaken(w) \/ Reselect(w)
        \/ InsertConsent(w)

TrustedAdd(w) ==
    CheckMid(w) \/ FindCard(w) \/ InsertCard(w) \/ InsertLink(w) \/ Touch(w)

AddPayment(w) == FindPayment(w) \/ InsertPayment(w) \/ InsertOwner(w)

ChangePayment(w) == NotOwned(w) \/ UpdatePayment(w) \/ DeletePayment(w)

ChangeEmail(w) == CheckEmail(w) \/ UpdateEmail(w) \/ Report(w)

Listener(w) == (Send(w) \/ Requeue(w)) /\ UNCHANGED <<ctx, served, faults>>

Proceed(w) ==
    \/ Login(w) \/ TrustedAdd(w) \/ AddPayment(w) \/ ChangePayment(w) \/ ChangeEmail(w)
    \/ Decide(w) \/ Publish(w) \/ Close(w)

Terminated ==
    /\ served = MaxRequests
    /\ \A w \in Workers : ctx[w].pc = "idle"
    /\ UNCHANGED vars

Next ==
    \/ \E w \in Workers : Receive(w) \/ Proceed(w) \/ Listener(w) \/ Abort(w) \/ Crash(w)
    \/ Hermes
    \/ Terminated

Spec == Init /\ [][Next]_vars

(***************************************************************************)
(* Fairness: a worker that can go on does, and a broker that is tried      *)
(* again and again is reached at last.                                     *)
(***************************************************************************)
Fairness ==
    \A w \in Workers :
        WF_vars(Proceed(w)) /\ WF_vars(Send(w) /\ UNCHANGED <<ctx, served, faults>>)

FairSpec == Spec /\ Fairness

-----------------------------------------------------------------------------
(* Properties *)

(***************************************************************************)
(* The types, what holds of the sessions, and that ids kept by a worker    *)
(* name rows of the table they are kept for, which it can see.             *)
(***************************************************************************)
Names(w, id, table) == id = 0 \/ \E r \in Visible(w) : r.id = id /\ r.table = table

TypeOK ==
    /\ SessionOK
    /\ served \in 0..MaxRequests
    /\ \A w \in Workers :
         /\ ctx[w].pc = "idle" => ctx[w] = Idle /\ tx[w] = {}
         /\ ctx[w].pc # "idle" => ctx[w].req \in Requests
         /\ ctx[w].pc # "respond" =>
              /\ Names(w, ctx[w].user, "user")
              /\ Names(w, ctx[w].card, "card")
              /\ Names(w, ctx[w].payment, "payment")

(***************************************************************************)
(* An external user has one account.  Two first logins that overlap both   *)
(* find none; the loser of the race must end up with the winner's user, or *)
(* every later login of that user is refused (token.py:152).               *)
(***************************************************************************)
OneUserPerExt ==
    \A u, v \in In(db, "user") : u.ext = v.ext => u = v

(***************************************************************************)
(* "This email is already in use for this channel" (user.py:49): without   *)
(* overlapping requests the look-ups before an insert and an update keep   *)
(* an address to one user.                                                 *)
(***************************************************************************)
OneUserPerEmail ==
    \A u, v \in In(db, "user") : u.email = v.email => u = v

(***************************************************************************)
(* Every user has the service consent that the login gives, or a request   *)
(* is on its way to give it, or that request died between its two commits. *)
(* The loser of a race between two logins gives none.                      *)
(***************************************************************************)
ConsentKept ==
    \A u \in In(db, "user") :
        \/ \E c \in In(db, "consent") : c.user = u.id
        \/ Consent(u.id) \in lost
        \/ \E w \in Workers : ctx[w].pc = "insert_consent" /\ ctx[w].user = u.id

(***************************************************************************)
(* What 201 from create_trusted promises is committed: the user, a dated   *)
(* card, the payment account and the user's links to both (for as long as  *)
(* no request of that user takes the account out again).                   *)
(***************************************************************************)
HasCard(x) ==
    /\ \E c \in In(db, "card") : c.id = x.card /\ c.dated
    /\ \E l \in In(db, "link") : l.card = x.card /\ l.user = x.user /\ l.active

HasPayment(x) ==
    /\ \E p \in In(db, "payment") : p.id = x.payment
    /\ \E o \in In(db, "owner") : o.payment = x.payment /\ o.user = x.user

WalletComplete ==
    \A w \in Workers :
        LET x == ctx[w] IN
        x.pc = "respond" /\ x.status = 201 /\ Trusted(x) =>
            /\ \E u \in In(db, "user") : u.id = x.user
            /\ HasCard(x)
            /\ HasPayment(x)

(***************************************************************************)
(* No payment account is put into a wallet behind Hermes's back: it was    *)
(* told to enrol it for that user, or a request is about to tell it, or    *)
(* that request died between the commit and the message.                   *)
(***************************************************************************)
PaymentAnnounced ==
    \A o \in In(db, "owner") :
        \/ Enrol(o) \in sent \cup lost
        \/ \E w \in Workers : ctx[w].pc = "publish" /\ Enrol(o) \in Messages(ctx[w])

(***************************************************************************)
(* Every request is answered: workers waiting for each other's rows do not *)
(* wait in a circle, and a broker that is down does not keep a worker in   *)
(* after_commit_listener for good once it is back.                         *)
(***************************************************************************)
EveryRequestEnds ==
    \A w \in Workers : ctx[w].pc # "idle" ~> ctx[w].pc = "idle"

(***************************************************************************)
(* "The new wallet will not be created" (wallet.py:205): a create_trusted  *)
(* that is refused leaves none of the rows it inserted.                    *)
(***************************************************************************)
WalletIsAtomic ==
    \A w \in Workers :
        LET x == ctx[w] IN
        x.pc = "respond" /\ x.status = 409 /\ Trusted(x) =>
            \A r \in db : r.id \notin x.made
=============================================================================
