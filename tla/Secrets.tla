------------------------------ MODULE Secrets ------------------------------
(***************************************************************************)
(* The secrets a worker process keeps from the vault (helpers/vault.py),   *)
(* and the requests it lets in with them (auth.py, encryption.py,          *)
(* resources/token.py).                                                    *)
(*                                                                         *)
(* A process reads a record of the vault when it misses something, and     *)
(* keeps its copy for the rest of its life: nothing tells it that the      *)
(* vault has changed.  The record of the access secrets is read again as a *)
(* whole when a token names a key it lacks; the records of the business    *)
(* clients, of their public keys and of the payload keys are read when     *)
(* absent and never again; the answers about client secrets, which come    *)
(* from the database, stay in an lru_cache.                                *)
(*                                                                         *)
(* Those who run the system change the vault.  They add the next access    *)
(* key, make it the current one, and take an old key away once the tokens  *)
(* signed with it while it was current have expired.                       *)
(***************************************************************************)
EXTENDS Naturals, FiniteSets

CONSTANTS
    Procs,       \* the worker processes
    Clients,     \* records of business clients: their channel
    PublicKeys,  \* records of the public keys of those clients
    ClientOf,    \* the client whose name starts a public key's name
    PayloadKeys, \* key objects that payloads are encrypted to
    Bundles,     \* channels that log in with a client secret
    Passwords,   \* the client secrets they present
    MaxKid,      \* bound: access keys ever made
    MaxVersion,  \* bound: versions of one record of the vault
    MaxChanges,  \* bound: changes to the vault, the database, the processes
    MaxTokens    \* bound: live tokens

Records == Clients \cup PublicKeys \cup PayloadKeys
Pairs == Bundles \X Passwords
Kids == 1 .. MaxKid

ASSUME RecordsAssumption ==
    /\ ClientOf \in [PublicKeys -> Clients]
    /\ Clients \cap PublicKeys = {} /\ Clients \cap PayloadKeys = {}
    /\ PublicKeys \cap PayloadKeys = {}
ASSUME BoundsAssumption ==
    MaxKid \in Nat /\ MaxVersion \in Nat /\ MaxChanges \in Nat /\ MaxTokens \in Nat

VARIABLES
    access,      \* the access secrets in the vault: the current key, the keys
    made,        \* how many access keys were ever made
    vault,       \* the version of each other record in the vault, 0 if absent
    latest,      \* the latest version of each record ever stored
    lapsed,      \* the payload keys' versions up to this one have expired
    registered,  \* the bundles and client secrets in the database
    tokens,      \* the live tokens
    cache,       \* what each process keeps
    seen,        \* what each process could have learnt since it started
    ctx,         \* the request each process is at
    last,        \* the answer just given, until something changes
    changes      \* how many changes so far

world == <<access, made, vault, latest, lapsed, registered>>
vars == <<world, tokens, cache, seen, ctx, last, changes>>

NoSecret == 0  \* the empty string get_access_token_secret may return
NoRecord == [current |-> 0, keys |-> {}]
NoAnswer == [what |-> "none"]
Idle == [pc |-> "idle"]
EmptyAnswers == [q \in {} |-> FALSE]
TokenKinds == {"access", "refresh"}

(***************************************************************************)
(* A token has the key it names, the secret that signed it, and whether    *)
(* the key it names was no longer the current one when it was signed.      *)
(***************************************************************************)
Token == [kind : TokenKinds, kid : Kids, secret : Kids \cup {NoSecret}, stale : BOOLEAN]
AccessRecord == {NoRecord} \cup
    {r \in [current : Kids, keys : SUBSET Kids] : r.current \in r.keys}

Answers == UNION {[S -> BOOLEAN] : S \in SUBSET Pairs}

Answer(what, x, outcome) == [what |-> what, of |-> x, outcome |-> outcome]

\* What there is to learn at this moment.
Truths ==
    {<<"access", access>>}
    \cup {<<"record", n, vault[n]>> : n \in Records}
    \cup {<<"pair", q, q \in registered>> : q \in Pairs}

OneSecretEach(S) == \A q, r \in S : q[1] = r[1] => q = r

(***************************************************************************)
(* At first the vault holds at most one access key, which may have signed  *)
(* tokens, and no other record.                                            *)
(***************************************************************************)
Init ==
    /\ made \in {0, 1} \cap (0 .. MaxKid)
    /\ access = IF made = 1 THEN [current |-> 1, keys |-> {1}] ELSE NoRecord
    /\ vault = [n \in Records |-> 0]
    /\ latest = [n \in Records |-> 0]
    /\ lapsed = [n \in PayloadKeys |-> 0]
    /\ \E S \in SUBSET Pairs : registered = S /\ OneSecretEach(S)
    /\ tokens \in {{}, {t \in Token : t.kid = made /\ t.secret = made /\ ~t.stale}}
    /\ cache = [p \in Procs |-> [access |-> access, records |-> vault, answers |-> EmptyAnswers]]
    /\ seen = [p \in Procs |-> Truths]
    /\ ctx = [p \in Procs |-> Idle]
    /\ last = NoAnswer
    /\ changes = 0

(***************************************************************************)
(* The world changes.                                                      *)
(***************************************************************************)
Change ==
    /\ changes < MaxChanges
    /\ changes' = changes + 1
    /\ last' = NoAnswer
    /\ seen' = [p \in Procs |-> seen[p] \cup Truths']

WorldChange == Change /\ UNCHANGED <<tokens, cache, ctx>>

AddKid ==
    /\ made < MaxKid
    /\ made' = made + 1
    /\ access' = [current |-> IF access = NoRecord THEN made' ELSE access.current,
                  keys |-> access.keys \cup {made'}]
    /\ UNCHANGED <<vault, latest, lapsed, registered>>
    /\ WorldChange

Promote(k) ==
    /\ k \in access.keys /\ k > access.current
    /\ access' = [access EXCEPT !.current = k]
    /\ UNCHANGED <<made, vault, latest, lapsed, registered>>
    /\ WorldChange

RetireKid(k) ==
    /\ k \in access.keys /\ k # access.current
    /\ \A t \in tokens : t.kid = k => t.stale
    /\ access' = [access EXCEPT !.keys = @ \ {k}]
    /\ UNCHANGED <<made, vault, latest, lapsed, registered>>
    /\ WorldChange

\* gen_key_store_obj --save writes a new version over the old one.
Store(n) ==
    /\ latest[n] < MaxVersion
    /\ n \in PayloadKeys \/ vault[n] = 0
    /\ latest' = [latest EXCEPT ![n] = @ + 1]
    /\ vault' = [vault EXCEPT ![n] = latest'[n]]
    /\ UNCHANGED <<access, made, lapsed, registered>>
    /\ WorldChange

Erase(n) ==
    /\ vault[n] # 0
    /\ vault' = [vault EXCEPT ![n] = 0]
    /\ UNCHANGED <<access, made, latest, lapsed, registered>>
    /\ WorldChange

\* The time passes at which the oldest unexpired version of a key expires.
Lapse(j) ==
    /\ lapsed[j] < latest[j]
    /\ lapsed' = [lapsed EXCEPT ![j] = @ + 1]
    /\ UNCHANGED <<access, made, vault, latest, registered>>
    /\ WorldChange

\* A client application has one secret.
Register(q) ==
    /\ q \notin registered
    /\ registered' = {r \in registered : r[1] # q[1]} \cup {q}
    /\ UNCHANGED <<access, made, vault, latest, lapsed>>
    /\ WorldChange

Expire(t) ==
    /\ tokens' = tokens \ {t}
    /\ last' = NoAnswer
    /\ UNCHANGED <<world, cache, seen, ctx, changes>>

\* Mutant: what the process already knows is kept.
LoadedMissing(copy) ==
    IF copy.current = 0 THEN access ELSE [copy EXCEPT !.keys = access.keys]

(***************************************************************************)
(* load_secrets: the record found in the vault replaces the copy; one that *)
(* is not found leaves the copy alone.                                     *)
(***************************************************************************)
Loaded(copy) == IF access = NoRecord THEN copy ELSE access

\* Mutant: an unknown key is unknown, whatever the vault says by now.
LookedUpOnce(p, k) == cache[p].access

(***************************************************************************)
(* get_access_token_secret: the record to look the key up in.              *)
(***************************************************************************)
LookedUp(p, k) ==
    IF k \in cache[p].access.keys THEN cache[p].access ELSE Loaded(cache[p].access)

\* get_or_load_secret, for each of a set of records.
Found(p, S) == [n \in Records |->
    IF n \in S /\ cache[p].records[n] = 0 THEN vault[n] ELSE cache[p].records[n]]

\* Mutant: a process looks for a client's records only the first time.
B2BFoundOnce(p, b) ==
    IF cache[p].records[ClientOf[b]] = 0 THEN Found(p, {ClientOf[b], b}) ELSE cache[p].records

(***************************************************************************)
(* dynamic_get_b2b_token_secret: the client's record comes first.  Without *)
(* it the public key is not looked for.                                    *)
(***************************************************************************)
B2BFound(p, b) ==
    LET c == ClientOf[b]
    IN  IF Found(p, {c})[c] = 0 THEN Found(p, {c}) ELSE Found(p, {c, b})

\* Mutant: the answers are kept by bundle.
ClientSecretAnswerByBundle(p, q) ==
    LET same == {r \in DOMAIN cache[p].answers : r[1] = q[1]}
    IN  IF same # {} THEN cache[p].answers[CHOOSE r \in same : TRUE] ELSE q \in registered

(***************************************************************************)
(* validate_client_secret under its lru_cache.                             *)
(***************************************************************************)
ClientSecretAnswer(p, q) ==
    IF q \in DOMAIN cache[p].answers THEN cache[p].answers[q] ELSE q \in registered

(***************************************************************************)
(* A process starts: create_app loads the access secrets, no more.         *)
(***************************************************************************)
Restart(p) ==
    /\ changes < MaxChanges
    /\ changes' = changes + 1
    /\ cache' = [cache EXCEPT ![p] = [access |-> access,
                                      records |-> [n \in Records |-> 0],
                                      answers |-> EmptyAnswers]]
    /\ seen' = [seen EXCEPT ![p] = Truths]
    /\ ctx' = [ctx EXCEPT ![p] = Idle]
    /\ last' = NoAnswer
    /\ UNCHANGED <<world, tokens>>

Serve(p) ==
    /\ ctx[p] = Idle
    /\ UNCHANGED <<world, tokens, seen, changes>>

(***************************************************************************)
(* A request whose token is checked.  An access token is all that the      *)
(* endpoints ask for; a refresh token leads to new tokens.                 *)
(***************************************************************************)
Present(p, t) ==
    LET copy == LookedUp(p, t.kid)
        good == t.kid \in copy.keys /\ t.secret = t.kid
    IN  /\ Serve(p)
        /\ cache' = [cache EXCEPT ![p].access = copy]
        /\ ctx' = [ctx EXCEPT ![p] = IF good /\ t.kind = "refresh" THEN [pc |-> "issue"] ELSE Idle]
        /\ last' = Answer("token", t, IF good THEN "accepted" ELSE "refused")

(***************************************************************************)
(* A login with a token that a business client signed.                     *)
(***************************************************************************)
B2BLogin(p, b) ==
    LET copies == B2BFound(p, b)
        good == copies[ClientOf[b]] # 0 /\ copies[b] # 0
    IN  /\ Serve(p)
        /\ cache' = [cache EXCEPT ![p].records = copies]
        /\ ctx' = [ctx EXCEPT ![p] = IF good THEN [pc |-> "issue"] ELSE Idle]
        /\ last' = Answer("key", b, IF good THEN "accepted" ELSE "refused")

(***************************************************************************)
(* A login with a bundle and its client secret.                            *)
(***************************************************************************)
BasicLogin(p, q) ==
    LET good == ClientSecretAnswer(p, q)
    IN  /\ Serve(p)
        /\ cache' = [cache EXCEPT ![p].answers =
                        [r \in DOMAIN @ \cup {q} |-> IF r = q THEN good ELSE @[r]]]
        /\ ctx' = [ctx EXCEPT ![p] = IF good THEN [pc |-> "issue"] ELSE Idle]
        /\ last' = Answer("pair", q, IF good THEN "accepted" ELSE "refused")

\* Enough other logins push an answer out of the lru_cache.
Forget(p, q) ==
    /\ q \in DOMAIN cache[p].answers
    /\ cache' = [cache EXCEPT ![p].answers = [r \in DOMAIN @ \ {q} |-> @[r]]]
    /\ UNCHANGED <<world, tokens, seen, ctx, last, changes>>

(***************************************************************************)
(* An encrypted payload: its key object, and the expiry in the copy of it. *)
(***************************************************************************)
Decrypt(p, j) ==
    LET copies == Found(p, {j})
    IN  /\ Serve(p)
        /\ cache' = [cache EXCEPT ![p].records = copies]
        /\ last' = Answer("payload", j, IF copies[j] = 0 THEN "refused"
                                ELSE IF copies[j] <= lapsed[j] THEN "expired"
                                ELSE "accepted")
        /\ UNCHANGED ctx

(***************************************************************************)
(* The vault can not be reached when a request needs it: the request ends  *)
(* with an error and the copies stay as they were.                         *)
(***************************************************************************)
VaultDown(p) ==
    /\ ctx[p] # Idle => cache[p].access.current = 0
    /\ ctx' = [ctx EXCEPT ![p] = Idle]
    /\ last' = NoAnswer
    /\ UNCHANGED <<world, tokens, cache, seen, changes>>

(***************************************************************************)
(* get_current_token_secret, and the tokens signed with what it returns.   *)
(* The key named current in the copy may be missing from a newer record:   *)
(* then the secret is the empty string.                                    *)
(***************************************************************************)
CurrentCopy(p) ==
    IF cache[p].access.current # 0 THEN cache[p].access ELSE Loaded(cache[p].access)

\* create_access_token and create_refresh_token.
Signed(kid, copy) ==
    [kind : TokenKinds, kid : {kid},
     secret : {IF kid \in copy.keys THEN kid ELSE NoSecret}, stale : {kid # access.current}]

Issue(p) ==
    LET named == CurrentCopy(p)
        copy == IF named.current \in named.keys THEN named ELSE Loaded(named)
    IN  /\ ctx[p].pc = "issue"
        /\ ctx' = [ctx EXCEPT ![p] = Idle]
        /\ cache' = [cache EXCEPT ![p].access = copy]
        /\ last' = NoAnswer
        /\ IF named.current = 0
           THEN UNCHANGED tokens  \* HTTPInternalServerError
           ELSE /\ tokens' = tokens \cup Signed(named.current, copy)
                /\ Cardinality(tokens') <= MaxTokens
        /\ UNCHANGED <<world, seen, changes>>

\* TokenGen finds no user to sign tokens for.
LoginFails(p) ==
    /\ ctx[p].pc = "issue"
    /\ ctx' = [ctx EXCEPT ![p] = Idle]
    /\ cache' = [cache EXCEPT ![p].access = CurrentCopy(p)]
    /\ last' = NoAnswer
    /\ UNCHANGED <<world, tokens, seen, changes>>

Operate ==
    \/ AddKid
    \/ \E k \in Kids : Promote(k) \/ RetireKid(k)
    \/ \E n \in Records : Store(n) \/ Erase(n)
    \/ \E j \in PayloadKeys : Lapse(j)
    \/ \E q \in Pairs : Register(q)
    \/ \E t \in tokens : Expire(t)

Request(p) ==
    \/ \E t \in tokens : Present(p, t)
    \/ \E b \in PublicKeys : B2BLogin(p, b)
    \/ \E q \in Pairs : BasicLogin(p, q) \/ Forget(p, q)
    \/ \E j \in PayloadKeys : Decrypt(p, j)

Next ==
    \/ Operate
    \/ \E p \in Procs : Restart(p) \/ Request(p) \/ Issue(p) \/ LoginFails(p) \/ VaultDown(p)

Spec == Init /\ [][Next]_vars

-----------------------------------------------------------------------------
(***************************************************************************)
(* Every variable holds what it should, and every record of access secrets *)
(* and copy of one names as current a key it holds.                        *)
(***************************************************************************)
TypeOK ==
    /\ access \in AccessRecord
    /\ made \in 0 .. MaxKid
    /\ vault \in [Records -> Nat]
    /\ latest \in [Records -> Nat]
    /\ lapsed \in [PayloadKeys -> Nat]
    /\ registered \subseteq Pairs
    /\ tokens \subseteq Token
    /\ cache \in [Procs -> [access : AccessRecord, records : [Records -> Nat], answers : Answers]]
    /\ ctx \in [Procs -> [pc : {"idle", "issue"}]]
    /\ changes \in Nat

(***************************************************************************)
(* A process believes only what was true at some moment of its own life:   *)
(* the copies of the secrets and the answers about client secrets          *)
(* (lru_cache on validate_client_secret) may be out of date, but a restart *)
(* brings them up to date, and the answer for one client secret is never   *)
(* given for another.                                                      *)
(***************************************************************************)
OnceTrue(p) ==
    /\ cache[p].access # NoRecord => <<"access", cache[p].access>> \in seen[p]
    /\ \A n \in Records :
        cache[p].records[n] # 0 => <<"record", n, cache[p].records[n]>> \in seen[p]
    /\ \A q \in DOMAIN cache[p].answers : <<"pair", q, cache[p].answers[q]>> \in seen[p]

EveryAnswerOnceTrue == \A p \in Procs : OnceTrue(p)

(***************************************************************************)
(* No token is signed with the empty string that get_access_token_secret   *)
(* returns for a key it can not find, although the current key's name was  *)
(* read from an older record than the key itself may be.                   *)
(***************************************************************************)
NeverSignsEmpty == \A t \in tokens : t.secret = t.kid

(***************************************************************************)
(* A live token is refused only when the process that signed it used a key *)
(* that was current no longer (vault.py never reads current_key again once *)
(* it has it): rotating the keys logs nobody else out, in whichever        *)
(* process the token is presented.                                         *)
(***************************************************************************)
RefusedOnlyIfStale ==
    last.what = "token" /\ last.of \in tokens /\ last.outcome = "refused" => last.of.stale

(***************************************************************************)
(* A client's public key or a payload key added to the vault works at once *)
(* in every process: what a process lacks it looks for each time.          *)
(***************************************************************************)
RefusedOnlyIfAbsent ==
    /\ last.what = "key" /\ last.outcome = "refused" =>
            vault[last.of] = 0 \/ vault[ClientOf[last.of]] = 0
    /\ last.what = "payload" /\ last.outcome = "refused" => vault[last.of] = 0

(***************************************************************************)
(* What gen_key_store_obj's documentation promises: saving a key object    *)
(* again updates its expiry date, so that a payload encrypted to a key     *)
(* that has not expired in the vault is not refused as expired.            *)
(***************************************************************************)
RenewedKeyDecrypts ==
    last.what = "payload" /\ last.outcome = "expired" => vault[last.of] <= lapsed[last.of]
=============================================================================
