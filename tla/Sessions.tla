------------------------------ MODULE Sessions ------------------------------
(***************************************************************************)
(* The database session of each worker process (angelia/hermes/db.py): the *)
(* rows it has flushed but not committed, and the history events that the  *)
(* mapper listeners collect for Hermes.                                    *)
(*                                                                         *)
(* The session runs at READ COMMITTED.  A worker sees the committed rows   *)
(* and those it flushed itself.  An insert that clashes with a row another *)
(* open transaction flushed waits for that transaction to end; one that    *)
(* clashes with a row it can see is refused.                               *)
(*                                                                         *)
(* history_sessions belongs to the process and not to the transaction: a   *)
(* rollback empties the one and leaves the other.                          *)
(***************************************************************************)
EXTENDS Naturals, Sequences, FiniteSets

CONSTANTS
    Workers,   \* processes serving requests, one at a time
    Tables,    \* the databases a behaviour may start from
    BrokerFails  \* whether the broker is sometimes out of reach

VARIABLES
    db,          \* the committed rows
    tx,          \* for each worker the rows flushed in its open transaction
    serial,      \* the next id; a rollback gives none back
    queue,       \* for each process its history_sessions
    committing,  \* the workers inside after_commit_listener
    sent,        \* the messages published so far
    lost         \* the messages that died with a request or a process

session == <<db, tx, serial, queue, committing, sent, lost>>

(***************************************************************************)
(* The tables.  A row has the name of its table, an id, and the columns of *)
(* the table.  Only the watched tables have history.                       *)
(***************************************************************************)
Columns == [user |-> {"ext", "email"}, consent |-> {"user"},
            card |-> {"key", "mid", "dated"}, link |-> {"card", "user", "active"},
            payment |-> {"print", "live", "pll"}, owner |-> {"payment", "user"}]

IsRow(r) ==
    /\ {"table", "id"} \subseteq DOMAIN r
    /\ r.table \in DOMAIN Columns
    /\ Columns[r.table] \subseteq DOMAIN r

Watched == {"user", "card", "link", "payment", "owner"}

Events == [kind : {"create", "update"}, row : Nat]

\* Mutant: the unique constraint on users is missing.
ClashButUsers(r, s) ==
    /\ r.table = s.table
    /\ \/ r.table = "link" /\ r.card = s.card /\ r.user = s.user
       \/ r.table = "payment" /\ r.print = s.print /\ r.live /\ s.live
       \/ r.table = "owner" /\ r.payment = s.payment /\ r.user = s.user

(***************************************************************************)
(* Two rows that a unique index does not allow together.                   *)
(***************************************************************************)
Clash(r, s) ==
    /\ r.table = s.table
    /\ \/ r.table = "user" /\ r.ext = s.ext /\ r.email = s.email
       \/ r.table = "link" /\ r.card = s.card /\ r.user = s.user
       \/ r.table = "payment" /\ r.print = s.print /\ r.live /\ s.live
       \/ r.table = "owner" /\ r.payment = s.payment /\ r.user = s.user

Visible(w) == db \cup tx[w]

Taken(w, r) == \E s \in Visible(w) : Clash(r, s)

Waits(w, r) == \E v \in Workers \ {w} : \E s \in tx[v] : Clash(r, s)

\* Earlier requests have sent the history of the rows they left, and "told".
SessionInit(told) ==
    /\ db \in Tables
    /\ tx = [w \in Workers |-> {}]
    /\ serial = Cardinality(db) + 1
    /\ queue = [w \in Workers |-> <<>>]
    /\ committing = {}
    /\ sent = {[kind |-> "create", row |-> r.id] : r \in db} \cup told
    /\ lost = {}

(***************************************************************************)
(* What the mapper listeners collect when a row is flushed.                *)
(***************************************************************************)
Noted(kind, r) ==
    IF r.table \in Watched THEN <<[kind |-> kind, row |-> r.id]>> ELSE <<>>

(***************************************************************************)
(* session.add and session.flush of one new row.                           *)
(***************************************************************************)
Flush(w, r) ==
    /\ tx' = [tx EXCEPT ![w] = @ \cup {r}]
    /\ queue' = [queue EXCEPT ![w] = @ \o Noted("create", r)]
    /\ serial' = serial + 1
    /\ UNCHANGED <<db, committing, sent, lost>>

(***************************************************************************)
(* session.commit: "rows" is the database as the transaction's updates     *)
(* leave it, "new" what the commit flushes first, "events" their history.  *)
(* The listener then runs until history_sessions is empty.                 *)
(***************************************************************************)
Commit(w, rows, new, events) ==
    /\ db' = rows \cup tx[w] \cup new
    /\ tx' = [tx EXCEPT ![w] = {}]
    /\ queue' = [queue EXCEPT ![w] = @ \o events]
    /\ serial' = serial + Cardinality(new)
    /\ committing' = IF queue'[w] = <<>> THEN committing ELSE committing \cup {w}
    /\ UNCHANGED <<sent, lost>>

(***************************************************************************)
(* session.rollback and session.close.                                     *)
(***************************************************************************)
Discard(w) ==
    /\ tx' = [tx EXCEPT ![w] = {}]
    /\ UNCHANGED <<db, serial, queue, committing, sent, lost>>

\* Mutant: an event that is sent stays in the list.
SendAndKeep(w) ==
    /\ w \in committing
    /\ sent' = sent \cup {Head(queue[w])}
    /\ UNCHANGED <<db, tx, serial, queue, committing, lost>>

(***************************************************************************)
(* One turn of after_commit_listener: the first event is popped and one of *)
(* the three attempts of try_dispatch gets through.                        *)
(***************************************************************************)
Send(w) ==
    /\ w \in committing
    /\ sent' = sent \cup {Head(queue[w])}
    /\ queue' = [queue EXCEPT ![w] = Tail(@)]
    /\ committing' = IF Len(queue[w]) = 1 THEN committing \ {w} ELSE committing
    /\ UNCHANGED <<db, tx, serial, lost>>

\* Mutant: an event that could not be sent is dropped.
DropUnsent(w) ==
    /\ BrokerFails
    /\ w \in committing
    /\ queue' = [queue EXCEPT ![w] = Tail(@)]
    /\ committing' = IF Len(queue[w]) = 1 THEN committing \ {w} ELSE committing
    /\ UNCHANGED <<db, tx, serial, sent, lost>>

(***************************************************************************)
(* The broker cannot be reached: after three attempts the event goes to    *)
(* the back of the list, and the loop goes on.                             *)
(***************************************************************************)
Requeue(w) ==
    /\ BrokerFails
    /\ w \in committing
    /\ queue' = [queue EXCEPT ![w] = Append(Tail(@), Head(@))]
    /\ UNCHANGED <<db, tx, serial, committing, sent, lost>>

(***************************************************************************)
(* The dispatch raises something try_dispatch does not catch: the popped   *)
(* event is gone, the others wait for the process's next commit, and the   *)
(* exception comes out of session.commit although the rows are committed.  *)
(***************************************************************************)
DispatchRaises(w, owed) ==
    /\ w \in committing
    /\ lost' = lost \cup {Head(queue[w])} \cup owed
    /\ queue' = [queue EXCEPT ![w] = Tail(@)]
    /\ committing' = committing \ {w}
    /\ UNCHANGED <<db, tx, serial, sent>>

(***************************************************************************)
(* The process is killed and started again.                                *)
(***************************************************************************)
Die(w, owed) ==
    /\ tx' = [tx EXCEPT ![w] = {}]
    /\ lost' = lost \cup {queue[w][i] : i \in DOMAIN queue[w]} \cup owed
    /\ queue' = [queue EXCEPT ![w] = <<>>]
    /\ committing' = committing \ {w}
    /\ UNCHANGED <<db, serial, sent>>

-----------------------------------------------------------------------------

(***************************************************************************)
(* The types; a worker is in the listener only while it has something to   *)
(* send and nothing flushed; ids are unique; no unique index is broken.    *)
(***************************************************************************)
SessionOK ==
    /\ serial \in Nat \ {0}
    /\ committing \subseteq {w \in Workers : queue[w] # <<>> /\ tx[w] = {}}
    /\ \A w \in Workers : queue[w] \in Seq(Events)
    /\ LET rows == db \cup UNION {tx[w] : w \in Workers} IN
       /\ \A r \in rows : IsRow(r) /\ r.id \in 1..(serial - 1)
       /\ \A r, s \in rows : r.id = s.id \/ Clash(r, s) => r = s

(***************************************************************************)
(* The history of no committed row is forgotten: its creation has been     *)
(* sent, or waits in the list of some process, or died with a process or   *)
(* in an unexpected exception.  In particular neither a broker that is     *)
(* down nor the exception of one event loses the others.                   *)
(***************************************************************************)
Created(r) == [kind |-> "create", row |-> r.id]

Pending(e) == \E w \in Workers : \E i \in DOMAIN queue[w] : queue[w][i] = e

HistoryKept ==
    \A r \in db : r.table \in Watched =>
        Created(r) \in sent \cup lost \/ Pending(Created(r))

(***************************************************************************)
(* Hermes is never sent the creation of a row it cannot find ("Hermes then *)
(* exceptions with not found", handlers/token.py:277).                     *)
(***************************************************************************)
HistoryOfCommittedOnly ==
    \A e \in sent : e.kind = "create" => \E r \in db : r.id = e.row
=============================================================================
