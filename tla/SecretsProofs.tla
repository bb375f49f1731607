--------------------------- MODULE SecretsProofs ---------------------------
(***************************************************************************)
(* Proofs, for any processes, clients, keys and bounds, of the invariants  *)
(* of Secrets.                                                             *)
(***************************************************************************)
EXTENDS Secrets, TLAPS

(***************************************************************************)
(* What is true now could have been learnt by every process, and the vault *)
(* still has the key of each live token that was signed with the key that  *)
(* was current.                                                            *)
(***************************************************************************)
SeenNow == \A p \in Procs : Truths \subseteq seen[p]
SeenFun == seen = [p \in Procs |-> seen[p]]
KeptFor(r) == \A t \in tokens : ~t.stale => t.kid \in r.keys

IInv ==
    /\ TypeOK /\ SeenFun /\ SeenNow /\ KeptFor(access)
    /\ EveryAnswerOnceTrue
    /\ NeverSignsEmpty
    /\ RefusedOnlyIfStale
    /\ RefusedOnlyIfAbsent

\* A copy of the access secrets that the process p may have.
Copy(p, r) == r \in AccessRecord /\ (r # NoRecord => <<"access", r>> \in seen[p])

-----------------------------------------------------------------------------
(***************************************************************************)
(* The invariant holds at first.                                           *)
(***************************************************************************)
LEMMA InitIInv == Init => IInv
  <1> SUFFICES ASSUME Init PROVE IInv
    OBVIOUS
  <1>1. access \in AccessRecord /\ (access # NoRecord => made = 1 /\ access.keys = {1})
    BY DEF Init, AccessRecord, NoRecord, Kids
  <1>2. made \in 0 .. MaxKid /\ changes \in Nat /\ last = NoAnswer /\ registered \subseteq Pairs
    BY DEF Init
  <1>3. tokens \subseteq Token /\ NeverSignsEmpty /\ KeptFor(access)
    BY <1>1 DEF Init, Token, NeverSignsEmpty, KeptFor, Kids
  <1>4. EmptyAnswers \in Answers
    <2>1. EmptyAnswers \in [{} -> BOOLEAN]
      BY DEF EmptyAnswers
    <2>2. {} \in SUBSET Pairs
      OBVIOUS
    <2> QED BY <2>1, <2>2 DEF Answers
  <1>5. vault \in [Records -> Nat] /\ latest \in [Records -> Nat] /\ lapsed \in [PayloadKeys -> Nat]
    BY DEF Init
  <1>6. /\ cache \in [Procs -> [access : AccessRecord, records : [Records -> Nat], answers : Answers]]
        /\ ctx \in [Procs -> [pc : {"idle", "issue"}]]
    BY <1>1, <1>4, <1>5 DEF Init, Idle
  <1>7. SeenFun /\ SeenNow
    BY DEF Init, SeenFun, SeenNow
  <1>8. EveryAnswerOnceTrue
    BY DEF Init, EveryAnswerOnceTrue, OnceTrue, EmptyAnswers, Truths
  <1>9. RefusedOnlyIfStale /\ RefusedOnlyIfAbsent
    BY <1>2 DEF NoAnswer, RefusedOnlyIfStale, RefusedOnlyIfAbsent
  <1> QED BY <1>1, <1>2, <1>3, <1>5, <1>6, <1>7, <1>8, <1>9 DEF IInv, TypeOK

(***************************************************************************)
(* A change of the world that respects the types, and the keys of tokens   *)
(* signed while those keys were current, preserves the invariant.          *)
(***************************************************************************)
LEMMA WorldStep ==
  ASSUME IInv, WorldChange,
         access' \in AccessRecord, made' \in 0 .. MaxKid,
         vault' \in [Records -> Nat], latest' \in [Records -> Nat],
         lapsed' \in [PayloadKeys -> Nat], registered' \subseteq Pairs,
         KeptFor(access')
  PROVE  IInv'
  <1>1. /\ tokens' = tokens /\ cache' = cache /\ ctx' = ctx /\ changes' = changes + 1
        /\ last' = NoAnswer /\ seen' = [p \in Procs |-> seen[p] \cup Truths']
    BY DEF WorldChange, Change
  <1>2. TypeOK'
    BY <1>1 DEF IInv, TypeOK
  <1>3. SeenFun' /\ SeenNow'
    BY <1>1 DEF SeenFun, SeenNow
  <1>4. KeptFor(access)' /\ NeverSignsEmpty'
    BY <1>1 DEF IInv, KeptFor, NeverSignsEmpty
  <1>5. EveryAnswerOnceTrue'
    BY <1>1 DEF IInv, EveryAnswerOnceTrue, OnceTrue
  <1>6. RefusedOnlyIfStale' /\ RefusedOnlyIfAbsent'
    BY <1>1 DEF NoAnswer, RefusedOnlyIfStale, RefusedOnlyIfAbsent
  <1> QED BY <1>2, <1>3, <1>4, <1>5, <1>6 DEF IInv

(***************************************************************************)
(* What those who run the system do preserves the invariant.               *)
(***************************************************************************)
LEMMA OperateIInv ==
  ASSUME IInv, Operate
  PROVE  IInv'
  <1> USE DEF IInv, TypeOK
  <1>1. CASE AddKid
    <2>1. made' \in Kids /\ made' \in 0 .. MaxKid /\ WorldChange
      BY <1>1, BoundsAssumption DEF AddKid, Kids
    <2>2. access' \in AccessRecord /\ access.keys \subseteq access'.keys
      BY <1>1, <2>1 DEF AddKid, AccessRecord, NoRecord
    <2>3. KeptFor(access')
      BY <2>2 DEF KeptFor
    <2> QED BY <1>1, <2>1, <2>2, <2>3, WorldStep DEF AddKid
  <1>2. ASSUME NEW k \in Kids, Promote(k) PROVE IInv'
    <2>1. access' \in AccessRecord /\ access'.keys = access.keys /\ WorldChange
      BY <1>2 DEF Promote, AccessRecord, NoRecord
    <2>2. KeptFor(access')
      BY <2>1 DEF KeptFor
    <2> QED BY <1>2, <2>1, <2>2, WorldStep DEF Promote
  <1>3. ASSUME NEW k \in Kids, RetireKid(k) PROVE IInv'
    <2>1. access' \in AccessRecord /\ access'.keys = access.keys \ {k} /\ WorldChange
      BY <1>3 DEF RetireKid, AccessRecord, NoRecord
    <2>2. KeptFor(access')
      BY <1>3, <2>1 DEF KeptFor, RetireKid
    <2> QED BY <1>3, <2>1, <2>2, WorldStep DEF RetireKid
  <1>4. ASSUME NEW n \in Records, Store(n) PROVE IInv'
    <2>1. latest' \in [Records -> Nat] /\ vault' \in [Records -> Nat] /\ WorldChange
      BY <1>4 DEF Store
    <2> QED BY <1>4, <2>1, WorldStep DEF Store
  <1>5. ASSUME NEW n \in Records, Erase(n) PROVE IInv'
    <2>1. vault' \in [Records -> Nat] /\ WorldChange
      BY <1>5 DEF Erase
    <2> QED BY <1>5, <2>1, WorldStep DEF Erase
  <1>6. ASSUME NEW j \in PayloadKeys, Lapse(j) PROVE IInv'
    <2>1. lapsed' \in [PayloadKeys -> Nat] /\ WorldChange
      BY <1>6 DEF Lapse
    <2> QED BY <1>6, <2>1, WorldStep DEF Lapse
  <1>7. ASSUME NEW q \in Pairs, Register(q) PROVE IInv'
    <2>1. registered' \subseteq Pairs /\ WorldChange
      BY <1>7 DEF Register
    <2> QED BY <1>7, <2>1, WorldStep DEF Register
  <1>8. ASSUME NEW t \in tokens, Expire(t) PROVE IInv'
    <2>1. /\ tokens' \subseteq tokens /\ last' = NoAnswer
          /\ UNCHANGED <<world, cache, seen, ctx, changes>>
      BY <1>8 DEF Expire
    <2>2. TypeOK' /\ NeverSignsEmpty' /\ KeptFor(access)'
      BY <2>1 DEF world, NeverSignsEmpty, KeptFor
    <2>3. SeenFun' /\ SeenNow' /\ EveryAnswerOnceTrue'
      BY <2>1 DEF world, SeenFun, SeenNow, Truths, EveryAnswerOnceTrue, OnceTrue
    <2>4. RefusedOnlyIfStale' /\ RefusedOnlyIfAbsent'
      BY <2>1 DEF NoAnswer, RefusedOnlyIfStale, RefusedOnlyIfAbsent
    <2> QED BY <2>2, <2>3, <2>4
  <1> QED BY <1>1, <1>2, <1>3, <1>4, <1>5, <1>6, <1>7, <1>8 DEF Operate

-----------------------------------------------------------------------------
(***************************************************************************)
(* What a process has is a copy it may have, and so is what it has after   *)
(* reading the vault.                                                      *)
(***************************************************************************)
LEMMA CacheCopy ==
  ASSUME IInv, NEW p \in Procs
  PROVE  Copy(p, cache[p].access) /\ Copy(p, Loaded(cache[p].access))
  <1>1. Copy(p, cache[p].access)
    BY DEF IInv, TypeOK, EveryAnswerOnceTrue, OnceTrue, Copy
  <1>2. access \in AccessRecord /\ <<"access", access>> \in seen[p]
    BY DEF IInv, TypeOK, SeenNow, Truths
  <1> QED BY <1>1, <1>2 DEF Copy, Loaded

(***************************************************************************)
(* A process step that changes only its own copies, to ones it may have,   *)
(* and its request and the answer, preserves the invariant, when what is   *)
(* said of the answer holds and the tokens it makes are sound.             *)
(***************************************************************************)
LEMMA ProcessStep ==
  ASSUME IInv, NEW p \in Procs, NEW r, NEW f, NEW g, NEW c,
         UNCHANGED <<world, seen, changes>>,
         cache' = [cache EXCEPT ![p] = [access |-> r, records |-> f, answers |-> g]],
         ctx' = [ctx EXCEPT ![p] = c], c \in [pc : {"idle", "issue"}],
         Copy(p, r), f \in [Records -> Nat], g \in Answers,
         \A n \in Records : f[n] # 0 => <<"record", n, f[n]>> \in seen[p],
         \A q \in DOMAIN g : <<"pair", q, g[q]>> \in seen[p],
         tokens' \subseteq Token,
         \A t \in tokens' : t.secret = t.kid /\ (~t.stale => t.kid \in access.keys),
         RefusedOnlyIfStale', RefusedOnlyIfAbsent'
  PROVE  IInv'
  <1> USE DEF world
  <1>1. TypeOK'
    <2>1. cache' \in [Procs -> [access : AccessRecord, records : [Records -> Nat], answers : Answers]]
      BY DEF IInv, TypeOK, Copy
    <2>2. ctx' \in [Procs -> [pc : {"idle", "issue"}]]
      BY DEF IInv, TypeOK
    <2> QED BY <2>1, <2>2 DEF IInv, TypeOK
  <1>2. SeenFun' /\ SeenNow'
    BY DEF IInv, SeenFun, SeenNow, Truths
  <1>3. NeverSignsEmpty' /\ KeptFor(access)'
    BY DEF NeverSignsEmpty, KeptFor
  <1>4. EveryAnswerOnceTrue'
    <2> SUFFICES ASSUME NEW x \in Procs PROVE OnceTrue(x)'
      BY DEF EveryAnswerOnceTrue
    <2>1. CASE x = p
      <3>1. cache'[x] = [access |-> r, records |-> f, answers |-> g]
        BY <2>1 DEF IInv, TypeOK
      <3> QED BY <2>1, <3>1 DEF OnceTrue, Copy
    <2>2. CASE x # p
      <3>1. cache'[x] = cache[x]
        BY <2>2 DEF IInv, TypeOK
      <3>2. OnceTrue(x)
        BY DEF IInv, EveryAnswerOnceTrue
      <3> QED BY <3>1, <3>2 DEF OnceTrue
    <2> QED BY <2>1, <2>2
  <1> QED BY <1>1, <1>2, <1>3, <1>4 DEF IInv

(***************************************************************************)
(* The parts of what a process keeps.                                      *)
(***************************************************************************)
LEMMA CacheParts ==
  ASSUME IInv, NEW p \in Procs
  PROVE  /\ Copy(p, cache[p].access)
         /\ cache[p].records \in [Records -> Nat]
         /\ cache[p].answers \in Answers
         /\ \A n \in Records :
              cache[p].records[n] # 0 => <<"record", n, cache[p].records[n]>> \in seen[p]
         /\ \A q \in DOMAIN cache[p].answers : <<"pair", q, cache[p].answers[q]>> \in seen[p]
         /\ cache[p] = [access |-> cache[p].access, records |-> cache[p].records,
                        answers |-> cache[p].answers]
         /\ \A t \in tokens : t.secret = t.kid /\ (~t.stale => t.kid \in access.keys)
         /\ tokens \subseteq Token
  BY DEF IInv, TypeOK, EveryAnswerOnceTrue, OnceTrue, Copy, NeverSignsEmpty, KeptFor

(***************************************************************************)
(* To change one part of what a process keeps is to replace the whole.     *)
(***************************************************************************)
LEMMA CacheEdits ==
  ASSUME IInv, NEW p \in Procs, NEW x
  PROVE  /\ [cache EXCEPT ![p].access = x] =
              [cache EXCEPT ![p] = [access |-> x, records |-> cache[p].records,
                                    answers |-> cache[p].answers]]
         /\ [cache EXCEPT ![p].records = x] =
              [cache EXCEPT ![p] = [access |-> cache[p].access, records |-> x,
                                    answers |-> cache[p].answers]]
         /\ [cache EXCEPT ![p].answers = x] =
              [cache EXCEPT ![p] = [access |-> cache[p].access, records |-> cache[p].records,
                                    answers |-> x]]
  <1>1. cache[p] \in [access : AccessRecord, records : [Records -> Nat], answers : Answers]
    BY DEF IInv, TypeOK
  <1>2. /\ [cache[p] EXCEPT !.access = x] = [access |-> x, records |-> cache[p].records,
                                             answers |-> cache[p].answers]
        /\ [cache[p] EXCEPT !.records = x] = [access |-> cache[p].access, records |-> x,
                                              answers |-> cache[p].answers]
        /\ [cache[p] EXCEPT !.answers = x] = [access |-> cache[p].access,
                                              records |-> cache[p].records, answers |-> x]
    BY <1>1
  <1> QED BY <1>2

(***************************************************************************)
(* get_or_load_secret: what it returns was in the vault now or before.     *)
(***************************************************************************)
LEMMA FoundSeen ==
  ASSUME IInv, NEW p \in Procs, NEW S
  PROVE  /\ Found(p, S) \in [Records -> Nat]
         /\ \A n \in Records : Found(p, S)[n] # 0 => <<"record", n, Found(p, S)[n]>> \in seen[p]
         /\ \A n \in Records \cap S : Found(p, S)[n] = 0 => vault[n] = 0
  <1>1. \A n \in Records : <<"record", n, vault[n]>> \in seen[p] /\ vault[n] \in Nat
    BY DEF IInv, TypeOK, SeenNow, Truths
  <1>2. \A n \in Records : Found(p, S)[n] =
          IF n \in S /\ cache[p].records[n] = 0 THEN vault[n] ELSE cache[p].records[n]
    BY DEF Found
  <1>3. Found(p, S) \in [Records -> Nat]
    BY <1>1, CacheParts DEF Found
  <1> QED BY <1>1, <1>2, <1>3, CacheParts

(***************************************************************************)
(* A request with a token.  A refused one names a key that the vault has   *)
(* not, because the process has looked there, so it is stale.              *)
(***************************************************************************)
LEMMA PresentIInv ==
  ASSUME IInv, NEW p \in Procs, NEW t \in tokens, Present(p, t)
  PROVE  IInv'
  <1> DEFINE copy == LookedUp(p, t.kid)
             good == t.kid \in copy.keys /\ t.secret = t.kid
             c == IF good /\ t.kind = "refresh" THEN [pc |-> "issue"] ELSE Idle
  <1>1. Copy(p, copy)
    BY CacheCopy DEF LookedUp
  <1>2. t.secret = t.kid /\ (~t.stale => t.kid \in access.keys) /\ t \in Token
    BY CacheParts
  <1>3. ~good => t.stale
    <2>1. SUFFICES ASSUME ~good, ~t.stale PROVE FALSE
      BY <1>2 DEF Token
    <2>2. t.kid \in access.keys /\ t.kid \notin copy.keys
      BY <1>2, <2>1
    <2>3. access # NoRecord
      BY <2>2 DEF NoRecord
    <2>4. t.kid \notin cache[p].access.keys => copy = access
      BY <2>3 DEF LookedUp, Loaded
    <2>5. t.kid \in cache[p].access.keys => copy = cache[p].access
      BY DEF LookedUp
    <2> QED BY <2>2, <2>4, <2>5
  <1>4. /\ UNCHANGED <<world, tokens, seen, changes>>
        /\ cache' = [cache EXCEPT ![p].access = copy]
        /\ ctx' = [ctx EXCEPT ![p] = c]
        /\ last' = Answer("token", t, IF good THEN "accepted" ELSE "refused")
    BY DEF Present, Serve
  <1> HIDE DEF copy, good
  <1>5. cache' = [cache EXCEPT ![p] = [access |-> copy, records |-> cache[p].records,
                                       answers |-> cache[p].answers]]
    BY <1>4, CacheEdits
  <1>6. c \in [pc : {"idle", "issue"}]
    BY DEF Idle
  <1>7. RefusedOnlyIfStale' /\ RefusedOnlyIfAbsent'
    BY <1>3, <1>4 DEF Answer, RefusedOnlyIfStale, RefusedOnlyIfAbsent
  <1> QED BY <1>1, <1>4, <1>5, <1>6, <1>7, CacheParts, ProcessStep

(***************************************************************************)
(* A login with a client's token.                                          *)
(***************************************************************************)
LEMMA B2BLoginIInv ==
  ASSUME IInv, NEW p \in Procs, NEW b \in PublicKeys, B2BLogin(p, b)
  PROVE  IInv'
  <1> DEFINE copies == B2BFound(p, b)
             good == copies[ClientOf[b]] # 0 /\ copies[b] # 0
             c == IF good THEN [pc |-> "issue"] ELSE Idle
  <1>1. b \in Records /\ ClientOf[b] \in Records
    BY RecordsAssumption DEF Records
  <1>2. \/ copies = Found(p, {ClientOf[b]}) /\ copies[ClientOf[b]] = 0
        \/ copies = Found(p, {ClientOf[b], b})
    BY DEF B2BFound
  <1>3. /\ copies \in [Records -> Nat]
        /\ \A n \in Records : copies[n] # 0 => <<"record", n, copies[n]>> \in seen[p]
    BY <1>2, FoundSeen
  <1>4. ~good => vault[b] = 0 \/ vault[ClientOf[b]] = 0
    <2>1. CASE copies = Found(p, {ClientOf[b]}) /\ copies[ClientOf[b]] = 0
      BY <1>1, <2>1, FoundSeen
    <2>2. CASE copies = Found(p, {ClientOf[b], b})
      BY <1>1, <2>2, FoundSeen
    <2> QED BY <1>2, <2>1, <2>2
  <1>5. /\ UNCHANGED <<world, tokens, seen, changes>>
        /\ cache' = [cache EXCEPT ![p].records = copies]
        /\ ctx' = [ctx EXCEPT ![p] = c]
        /\ last' = Answer("key", b, IF good THEN "accepted" ELSE "refused")
    BY DEF B2BLogin, Serve
  <1> HIDE DEF copies, good
  <1>6. cache' = [cache EXCEPT ![p] = [access |-> cache[p].access, records |-> copies,
                                       answers |-> cache[p].answers]]
    BY <1>5, CacheEdits
  <1>7. c \in [pc : {"idle", "issue"}]
    BY DEF Idle
  <1>8. RefusedOnlyIfStale' /\ RefusedOnlyIfAbsent'
    BY <1>4, <1>5 DEF Answer, RefusedOnlyIfStale, RefusedOnlyIfAbsent, world
  <1> QED BY <1>3, <1>5, <1>6, <1>7, <1>8, CacheParts, ProcessStep

(***************************************************************************)
(* An encrypted payload.                                                   *)
(***************************************************************************)
LEMMA DecryptIInv ==
  ASSUME IInv, NEW p \in Procs, NEW j \in PayloadKeys, Decrypt(p, j)
  PROVE  IInv'
  <1> DEFINE copies == Found(p, {j})
  <1>1. j \in Records
    BY DEF Records
  <1>2. /\ copies \in [Records -> Nat]
        /\ \A n \in Records : copies[n] # 0 => <<"record", n, copies[n]>> \in seen[p]
        /\ copies[j] = 0 => vault[j] = 0
    BY <1>1, FoundSeen
  <1>3. /\ UNCHANGED <<world, tokens, seen, changes>>
        /\ cache' = [cache EXCEPT ![p].records = copies]
        /\ ctx' = ctx /\ ctx[p] = Idle
        /\ last' = Answer("payload", j, IF copies[j] = 0 THEN "refused"
                                        ELSE IF copies[j] <= lapsed[j] THEN "expired"
                                        ELSE "accepted")
    BY DEF Decrypt, Serve
  <1> HIDE DEF copies
  <1>4. cache' = [cache EXCEPT ![p] = [access |-> cache[p].access, records |-> copies,
                                       answers |-> cache[p].answers]]
    BY <1>3, CacheEdits
  <1>5. ctx' = [ctx EXCEPT ![p] = Idle] /\ Idle \in [pc : {"idle", "issue"}]
    BY <1>3 DEF IInv, TypeOK, Idle
  <1>6. RefusedOnlyIfStale' /\ RefusedOnlyIfAbsent'
    BY <1>2, <1>3 DEF Answer, RefusedOnlyIfStale, RefusedOnlyIfAbsent, world
  <1>7. /\ Copy(p, cache[p].access) /\ cache[p].answers \in Answers
        /\ \A q \in DOMAIN cache[p].answers : <<"pair", q, cache[p].answers[q]>> \in seen[p]
        /\ tokens' \subseteq Token
        /\ \A t \in tokens' : t.secret = t.kid /\ (~t.stale => t.kid \in access.keys)
    BY <1>3, CacheParts
  <1> HIDE DEF Idle
  <1> QED BY <1>2, <1>3, <1>4, <1>5, <1>6, <1>7, ProcessStep

(***************************************************************************)
(* A login with a client secret: the answer is the database's, now or      *)
(* before.                                                                 *)
(***************************************************************************)
LEMMA BasicLoginIInv ==
  ASSUME IInv, NEW p \in Procs, NEW q \in Pairs, BasicLogin(p, q)
  PROVE  IInv'
  <1> DEFINE good == ClientSecretAnswer(p, q)
             old == cache[p].answers
             new == [r \in DOMAIN old \cup {q} |-> IF r = q THEN good ELSE old[r]]
             c == IF good THEN [pc |-> "issue"] ELSE Idle
  <1>1. <<"pair", q, good>> \in seen[p]
    <2>1. q \in DOMAIN old => <<"pair", q, old[q]>> \in seen[p]
      BY CacheParts
    <2>2. <<"pair", q, q \in registered>> \in seen[p]
      BY DEF IInv, SeenNow, Truths
    <2> QED BY <2>1, <2>2 DEF ClientSecretAnswer
  <1>2. PICK S \in SUBSET Pairs : old \in [S -> BOOLEAN]
    BY CacheParts DEF Answers
  <1>3. good \in BOOLEAN
    <2>1. CASE q \in DOMAIN old
      BY <1>2, <2>1 DEF ClientSecretAnswer
    <2>2. CASE q \notin DOMAIN old
      <3>1. good = (q \in registered)
        BY <2>2 DEF ClientSecretAnswer
      <3>2. (q \in registered) \in BOOLEAN
        OBVIOUS
      <3> QED BY <3>1, <3>2, Zenon
    <2> QED BY <2>1, <2>2
  <1>4. new \in [S \cup {q} -> BOOLEAN] /\ S \cup {q} \in SUBSET Pairs
    BY <1>2, <1>3
  <1>5. new \in Answers
    BY <1>4 DEF Answers
  <1>6. \A r \in DOMAIN new : <<"pair", r, new[r]>> \in seen[p]
    BY <1>1, CacheParts
  <1>7. /\ UNCHANGED <<world, tokens, seen, changes>>
        /\ cache' = [cache EXCEPT ![p].answers = new]
        /\ ctx' = [ctx EXCEPT ![p] = c]
        /\ last' = Answer("pair", q, IF good THEN "accepted" ELSE "refused")
    BY DEF BasicLogin, Serve
  <1> HIDE DEF good, new
  <1>8. cache' = [cache EXCEPT ![p] = [access |-> cache[p].access,
                                       records |-> cache[p].records, answers |-> new]]
    BY <1>7, CacheEdits
  <1>9. c \in [pc : {"idle", "issue"}]
    BY DEF Idle
  <1>10. RefusedOnlyIfStale' /\ RefusedOnlyIfAbsent'
    BY <1>7 DEF Answer, RefusedOnlyIfStale, RefusedOnlyIfAbsent
  <1> QED BY <1>5, <1>6, <1>7, <1>8, <1>9, <1>10, CacheParts, ProcessStep

(***************************************************************************)
(* An answer leaves the lru_cache.                                         *)
(***************************************************************************)
LEMMA ForgetIInv ==
  ASSUME IInv, NEW p \in Procs, NEW q \in Pairs, Forget(p, q)
  PROVE  IInv'
  <1> DEFINE old == cache[p].answers
             new == [r \in DOMAIN old \ {q} |-> old[r]]
  <1>1. PICK S \in SUBSET Pairs : old \in [S -> BOOLEAN]
    BY CacheParts DEF Answers
  <1>2. new \in [S \ {q} -> BOOLEAN] /\ S \ {q} \in SUBSET Pairs
    BY <1>1
  <1>3. new \in Answers
    BY <1>2 DEF Answers
  <1>4. \A r \in DOMAIN new : <<"pair", r, new[r]>> \in seen[p]
    BY CacheParts
  <1>5. /\ UNCHANGED <<world, tokens, seen, ctx, last, changes>>
        /\ cache' = [cache EXCEPT ![p].answers = new]
    BY DEF Forget
  <1> HIDE DEF new
  <1>6. cache' = [cache EXCEPT ![p] = [access |-> cache[p].access,
                                       records |-> cache[p].records, answers |-> new]]
    BY <1>5, CacheEdits
  <1>7. ctx' = [ctx EXCEPT ![p] = ctx[p]] /\ ctx[p] \in [pc : {"idle", "issue"}]
    BY <1>5 DEF IInv, TypeOK
  <1>8. RefusedOnlyIfStale' /\ RefusedOnlyIfAbsent'
    BY <1>5 DEF IInv, RefusedOnlyIfStale, RefusedOnlyIfAbsent, world
  <1>9. /\ Copy(p, cache[p].access) /\ cache[p].records \in [Records -> Nat]
        /\ \A n \in Records :
             cache[p].records[n] # 0 => <<"record", n, cache[p].records[n]>> \in seen[p]
        /\ tokens' \subseteq Token
        /\ \A t \in tokens' : t.secret = t.kid /\ (~t.stale => t.kid \in access.keys)
    BY <1>5, CacheParts
  <1> QED BY <1>3, <1>4, <1>5, <1>6, <1>7, <1>8, <1>9, ProcessStep

(***************************************************************************)
(* The copy get_current_token_secret starts from names no current key, or  *)
(* one it holds: the name and the key come from one record.                *)
(***************************************************************************)
LEMMA CurrentCopyHoldsItsKey ==
  ASSUME IInv, NEW p \in Procs
  PROVE  /\ Copy(p, CurrentCopy(p))
         /\ CurrentCopy(p).current # 0 =>
              /\ CurrentCopy(p).current \in Kids
              /\ CurrentCopy(p).current \in CurrentCopy(p).keys
  <1>1. Copy(p, CurrentCopy(p))
    BY CacheCopy DEF CurrentCopy
  <1>2. CurrentCopy(p).current # 0 =>
              /\ CurrentCopy(p).current \in Kids
              /\ CurrentCopy(p).current \in CurrentCopy(p).keys
    BY <1>1 DEF Copy, AccessRecord, NoRecord
  <1> QED BY <1>1, <1>2

(***************************************************************************)
(* Tokens are made.                                                        *)
(***************************************************************************)
LEMMA IssueIInv ==
  ASSUME IInv, NEW p \in Procs, Issue(p)
  PROVE  IInv'
  <1> DEFINE named == CurrentCopy(p)
             copy == IF named.current \in named.keys THEN named ELSE Loaded(named)
  <1>1. /\ UNCHANGED <<world, seen, changes>>
        /\ cache' = [cache EXCEPT ![p].access = copy]
        /\ ctx' = [ctx EXCEPT ![p] = Idle]
        /\ last' = NoAnswer
        /\ tokens' = tokens \/ (named.current # 0 /\ tokens' = tokens \cup Signed(named.current, copy))
    BY DEF Issue
  <1>2. Copy(p, copy)
    <2>1. Copy(p, named)
      BY CurrentCopyHoldsItsKey
    <2>2. <<"access", access>> \in seen[p] /\ access \in AccessRecord
      BY DEF IInv, TypeOK, SeenNow, Truths
    <2> QED BY <2>1, <2>2 DEF Copy, Loaded
  <1>3. ASSUME NEW t \in tokens'
        PROVE  t \in Token /\ t.secret = t.kid /\ (~t.stale => t.kid \in access.keys)
    <2>1. CASE t \in tokens
      BY <2>1, CacheParts
    <2>2. CASE t \notin tokens
      <3>1. named.current \in Kids /\ named.current \in named.keys /\ t \in Signed(named.current, named)
        BY <1>1, <2>2, CurrentCopyHoldsItsKey
      <3>2. /\ t \in Token /\ t.kid = named.current /\ t.secret = named.current
            /\ t.stale = (named.current # access.current)
        BY <3>1 DEF Signed, Token
      <3>3. named.current = access.current => named.current \in access.keys
        BY <3>1 DEF IInv, TypeOK, AccessRecord, NoRecord, Kids
      <3> QED BY <3>2, <3>3
    <2> QED BY <2>1, <2>2
  <1>4. tokens' \subseteq Token
    BY <1>3
  <1> HIDE DEF copy, named
  <1>5. cache' = [cache EXCEPT ![p] = [access |-> copy, records |-> cache[p].records,
                                       answers |-> cache[p].answers]]
    BY <1>1, CacheEdits
  <1>6. Idle \in [pc : {"idle", "issue"}]
    BY DEF Idle
  <1>7. RefusedOnlyIfStale' /\ RefusedOnlyIfAbsent'
    BY <1>1 DEF NoAnswer, RefusedOnlyIfStale, RefusedOnlyIfAbsent
  <1> HIDE DEF Idle
  <1> QED BY <1>1, <1>2, <1>3, <1>4, <1>5, <1>6, <1>7, CacheParts, ProcessStep

(***************************************************************************)
(* A login that ends without tokens.                                       *)
(***************************************************************************)
LEMMA LoginFailsIInv ==
  ASSUME IInv, NEW p \in Procs, LoginFails(p)
  PROVE  IInv'
  <1>1. /\ UNCHANGED <<world, tokens, seen, changes>>
        /\ cache' = [cache EXCEPT ![p].access = CurrentCopy(p)]
        /\ ctx' = [ctx EXCEPT ![p] = Idle]
        /\ last' = NoAnswer
    BY DEF LoginFails
  <1>2. cache' = [cache EXCEPT ![p] = [access |-> CurrentCopy(p), records |-> cache[p].records,
                                       answers |-> cache[p].answers]]
    BY <1>1, CacheEdits
  <1>3. Idle \in [pc : {"idle", "issue"}]
    BY DEF Idle
  <1>4. RefusedOnlyIfStale' /\ RefusedOnlyIfAbsent'
    BY <1>1 DEF NoAnswer, RefusedOnlyIfStale, RefusedOnlyIfAbsent
  <1>5. Copy(p, CurrentCopy(p))
    BY CurrentCopyHoldsItsKey
  <1> QED BY <1>1, <1>2, <1>3, <1>4, <1>5, CacheParts, ProcessStep

(***************************************************************************)
(* A request ends because the vault can not be reached.                    *)
(***************************************************************************)
LEMMA VaultDownIInv ==
  ASSUME IInv, NEW p \in Procs, VaultDown(p)
  PROVE  IInv'
  <1>1. /\ UNCHANGED <<world, tokens, cache, seen, changes>>
        /\ ctx' = [ctx EXCEPT ![p] = Idle]
        /\ last' = NoAnswer
    BY DEF VaultDown
  <1>2. cache' = [cache EXCEPT ![p] = cache[p]]
    BY <1>1 DEF IInv, TypeOK
  <1>3. cache[p] = [access |-> cache[p].access, records |-> cache[p].records,
                    answers |-> cache[p].answers]
    BY CacheParts
  <1>4. cache' = [cache EXCEPT ![p] = [access |-> cache[p].access, records |-> cache[p].records,
                                       answers |-> cache[p].answers]]
    BY <1>2, <1>3
  <1>5. Idle \in [pc : {"idle", "issue"}]
    BY DEF Idle
  <1>6. RefusedOnlyIfStale' /\ RefusedOnlyIfAbsent'
    BY <1>1 DEF NoAnswer, RefusedOnlyIfStale, RefusedOnlyIfAbsent
  <1> QED BY <1>1, <1>4, <1>5, <1>6, CacheParts, ProcessStep

(***************************************************************************)
(* A process starts again: it forgets all it knew, and learns the access   *)
(* secrets.                                                                *)
(***************************************************************************)
LEMMA RestartIInv ==
  ASSUME IInv, NEW p \in Procs, Restart(p)
  PROVE  IInv'
  <1> DEFINE fresh == [access |-> access, records |-> [n \in Records |-> 0], answers |-> EmptyAnswers]
  <1>1. /\ UNCHANGED <<world, tokens>> /\ changes' = changes + 1 /\ last' = NoAnswer
        /\ cache' = [cache EXCEPT ![p] = fresh]
        /\ seen' = [seen EXCEPT ![p] = Truths]
        /\ ctx' = [ctx EXCEPT ![p] = Idle]
    BY DEF Restart
  <1>2. fresh \in [access : AccessRecord, records : [Records -> Nat], answers : Answers]
    <2>1. EmptyAnswers \in [{} -> BOOLEAN] /\ {} \in SUBSET Pairs
      BY DEF EmptyAnswers
    <2>2. EmptyAnswers \in Answers
      BY <2>1 DEF Answers
    <2> QED BY <2>2 DEF IInv, TypeOK
  <1>3. TypeOK'
    BY <1>1, <1>2 DEF IInv, TypeOK, world, Idle
  <1>4. SeenFun' /\ seen'[p] = Truths /\ \A x \in Procs \ {p} : seen'[x] = seen[x]
    BY <1>1 DEF IInv, SeenFun
  <1>5. SeenNow'
    <2>1. Truths' = Truths
      BY <1>1 DEF Truths, world
    <2> QED BY <1>4, <2>1 DEF IInv, SeenNow
  <1>6. NeverSignsEmpty' /\ KeptFor(access)'
    BY <1>1 DEF IInv, NeverSignsEmpty, KeptFor, world
  <1>7. EveryAnswerOnceTrue'
    <2> SUFFICES ASSUME NEW x \in Procs PROVE OnceTrue(x)'
      BY DEF EveryAnswerOnceTrue
    <2>1. CASE x = p
      <3>1. cache'[x] = fresh /\ seen'[x] = Truths
        BY <1>1, <1>4, <2>1 DEF IInv, TypeOK
      <3>2. <<"access", access>> \in Truths
        BY DEF Truths
      <3> QED BY <3>1, <3>2 DEF OnceTrue, EmptyAnswers
    <2>2. CASE x # p
      <3>1. cache'[x] = cache[x] /\ seen'[x] = seen[x]
        BY <1>1, <1>4, <2>2 DEF IInv, TypeOK
      <3>2. OnceTrue(x)
        BY DEF IInv, EveryAnswerOnceTrue
      <3> QED BY <3>1, <3>2 DEF OnceTrue
    <2> QED BY <2>1, <2>2
  <1>8. RefusedOnlyIfStale' /\ RefusedOnlyIfAbsent'
    BY <1>1 DEF NoAnswer, RefusedOnlyIfStale, RefusedOnlyIfAbsent
  <1> QED BY <1>3, <1>4, <1>5, <1>6, <1>7, <1>8 DEF IInv

(***************************************************************************)
(* Every step preserves the invariant.                                     *)
(***************************************************************************)
LEMMA NextIInv == IInv /\ [Next]_vars => IInv'
  <1> SUFFICES ASSUME IInv, [Next]_vars PROVE IInv'
    OBVIOUS
  <1>1. CASE UNCHANGED vars
    BY <1>1 DEF IInv, vars, world, TypeOK, SeenFun, SeenNow, Truths, KeptFor, EveryAnswerOnceTrue,
                OnceTrue, NeverSignsEmpty, RefusedOnlyIfStale, RefusedOnlyIfAbsent
  <1>2. CASE Operate
    BY <1>2, OperateIInv
  <1>3. ASSUME NEW p \in Procs, Request(p) PROVE IInv'
    BY <1>3, PresentIInv, B2BLoginIInv, BasicLoginIInv, ForgetIInv, DecryptIInv DEF Request
  <1>4. ASSUME NEW p \in Procs, Restart(p) \/ Issue(p) \/ LoginFails(p) \/ VaultDown(p) PROVE IInv'
    BY <1>4, RestartIInv, IssueIInv, LoginFailsIInv, VaultDownIInv
  <1> QED BY <1>1, <1>2, <1>3, <1>4 DEF Next

-----------------------------------------------------------------------------
\* So it holds of every behaviour.
LEMMA SpecIInv == Spec => []IInv
  BY InitIInv, NextIInv, PTL DEF Spec

(***************************************************************************)
(* Every variable has its type; every copy of the access secrets names a   *)
(* key it holds (_local_vault_store).                                      *)
(***************************************************************************)
THEOREM TypeCorrect == Spec => []TypeOK
  <1>1. IInv => TypeOK
    BY DEF IInv
  <1> QED BY <1>1, SpecIInv, PTL

(***************************************************************************)
(* What a process believes of the vault and of the client secrets was true *)
(* since it started.                                                       *)
(***************************************************************************)
THEOREM AnswersOnceTrue == Spec => []EveryAnswerOnceTrue
  <1>1. IInv => EveryAnswerOnceTrue
    BY DEF IInv
  <1> QED BY <1>1, SpecIInv, PTL

(***************************************************************************)
(* get_current_token_secret never hands out the empty secret.              *)
(***************************************************************************)
THEOREM TokensSigned == Spec => []NeverSignsEmpty
  <1>1. IInv => NeverSignsEmpty
    BY DEF IInv
  <1> QED BY <1>1, SpecIInv, PTL

(***************************************************************************)
(* Only tokens signed with a key no longer current are ever refused.       *)
(***************************************************************************)
THEOREM LiveTokensAccepted == Spec => []RefusedOnlyIfStale
  <1>1. IInv => RefusedOnlyIfStale
    BY DEF IInv
  <1> QED BY <1>1, SpecIInv, PTL

(***************************************************************************)
(* A key in the vault is found by every process that needs it.             *)
(***************************************************************************)
THEOREM NewKeysFound == Spec => []RefusedOnlyIfAbsent
  <1>1. IInv => RefusedOnlyIfAbsent
    BY DEF IInv
  <1> QED BY <1>1, SpecIInv, PTL
=============================================================================
