-------------------------- MODULE PlanFieldsProofs --------------------------
(***************************************************************************)
(* Proofs, for any plans, slugs and bounds, of the invariants of           *)
(* PlanFields: what a client is shown agrees with what is accepted.        *)
(***************************************************************************)
EXTENDS PlanFields, FunctionTheorems, FiniteSetTheorems, WellFoundedInduction, TLAPS

(***************************************************************************)
(* Which of its statements a request is past.  The look-up at the end of   *)
(* the list of plans and of a single plan finds the three of them done.    *)
(***************************************************************************)
Pcs == {"questions", "info", "consents", "look up", "format"}
LooksAgain == req.pc = "look up" /\ req.op # "fields"
PastQuestions == req.pc \in {"info", "consents", "format"} \/ LooksAgain
PastInfo == req.pc \in {"consents", "format"} \/ LooksAgain
PastConsents == req.pc = "format" \/ LooksAgain

QuestionSets == {p.questions : p \in PlanSet} \cup {{}}
Requests ==
    [pc : Pcs, op : Reads, questions : QuestionSets, docs : SUBSET Classes,
     consents : {p.consents : p \in PlanSet} \cup {{}}, authorisation : BOOLEAN]

RequestOK ==
    req # Idle =>
        /\ req \in Requests /\ shown = NotShown
        /\ PastQuestions => req.questions # {}
        /\ req.pc \in {"questions", "info"} => req.op # "fields"

(***************************************************************************)
(* While the plan has not been edited, what a request has taken is what is *)
(* stored, and the plan is still one it may show.                          *)
(***************************************************************************)
NothingStale ==
    req # Idle /\ quiet =>
        /\ PastQuestions => req.questions = plan.questions /\ Offered(TRUE)
        /\ PastQuestions /\ req.op # "fields" => req.authorisation = plan.authorisationRequired
        /\ PastInfo => req.docs = plan.docs
        /\ PastConsents => req.consents = plan.consents

PlanFieldsNow == Fields(plan.questions, plan.docs, plan.consents)
ShownOK ==
    shown # NotShown =>
        /\ shown.outcome \in {"ok", "not found", "not listed"} /\ shown.op \in Reads
        /\ \A k \in Classes : shown.fields[k].credentials \subseteq CredentialField
        /\ quiet /\ shown.op = "plans" => shown.outcome # "not found"
        /\ quiet /\ shown.outcome = "ok" =>
              /\ shown.fields = PlanFieldsNow
              /\ shown.journeys \subseteq Journeys(PlanFieldsNow, plan.authorisationRequired)

(***************************************************************************)
(* The plan a journey was decided on is not edited any more.               *)
(***************************************************************************)
Attempts ==
    [journey : JourneyNames, consents : Seq(ConsentSlugs), answers : [Classes -> Seq(Slugs)]]
VerdictOK ==
    verdict # NoVerdict =>
        /\ verdict.of \in Attempts /\ WellFormed(verdict.of)
        /\ verdict.outcome = Verdict(verdict.of)

IInv ==
    /\ plan \in PlanSet /\ changes \in 0 .. MaxChanges
    /\ RequestOK /\ NothingStale /\ ShownOK /\ VerdictOK

-----------------------------------------------------------------------------
(***************************************************************************)
(* Of finitely many questions one comes last: the one with the fewest      *)
(* after it.                                                               *)
(***************************************************************************)
LEMMA LastIn ==
  ASSUME NEW S \in SUBSET Question, IsFiniteSet(S), S # {}
  PROVE  LastOf(S) \in S /\ \A r \in S : r.order <= LastOf(S).order
  <1> DEFINE After(q) == {r \in S : r.order > q.order}
             R == OpToRel(<, Nat)
             N == {Cardinality(After(q)) : q \in S}
  <1>1. \A q \in S : IsFiniteSet(After(q)) /\ Cardinality(After(q)) \in Nat
    <2> TAKE q \in S
    <2>1. After(q) \in SUBSET S
      OBVIOUS
    <2> HIDE DEF After
    <2> QED BY <2>1, FS_Subset, FS_CardinalityType
  <1>2. PICK q \in S : \A r \in S : ~(Cardinality(After(r)) < Cardinality(After(q)))
    <2> HIDE DEF After
    <2>1. N \subseteq Nat /\ N # {}
      BY <1>1
    <2>2. PICK n \in N : \A m \in N : <<m, n>> \notin R
      <3> HIDE DEF N, R
      <3> QED BY <2>1, NatLessThanWellFounded, WFMin DEF R
    <2>3. \A m \in N : ~(m < n)
      BY <2>1, <2>2 DEF OpToRel
    <2> QED BY <2>3
  <1>3. \A r \in S : r.order <= q.order
    <2> SUFFICES ASSUME NEW r \in S, ~(r.order <= q.order) PROVE FALSE
      OBVIOUS
    <2>1. r.order \in Nat /\ q.order \in Nat /\ r.order > q.order
      BY DEF Question
    <2>2. After(r) \subseteq After(q) /\ r \in After(q) /\ r \notin After(r)
      BY <2>1 DEF Question
    <2> HIDE DEF After
    <2>3. Cardinality(After(r)) < Cardinality(After(q))
      <3>1. /\ Cardinality(After(r)) <= Cardinality(After(q))
            /\ Cardinality(After(q)) = Cardinality(After(r)) => After(q) = After(r)
        BY <1>1, <2>2, FS_Subset
      <3>2. Cardinality(After(r)) \in Nat /\ Cardinality(After(q)) \in Nat
        BY <1>1
      <3> QED BY <2>2, <3>1, <3>2
    <2> QED BY <1>2, <2>3
  <1>4. \E x \in S : \A r \in S : r.order <= x.order
    BY <1>3
  <1> QED BY <1>4 DEF LastOf

LEMMA PlanTypes ==
  ASSUME NEW p \in PlanSet
  PROVE  /\ p.questions \subseteq Question /\ IsFiniteSet(p.questions)
         /\ p.consents \subseteq Consent /\ p.docs \subseteq Classes
         /\ p.authorisationRequired \in BOOLEAN /\ p.status \in Statuses
         /\ \A q, r \in p.questions : q.slug = r.slug \/ q.order = r.order => q = r
  BY PlanAssumption

(***************************************************************************)
(* The invariant holds at first, and an edit disturbs nothing that does    *)
(* not ask for quiet.                                                      *)
(***************************************************************************)
LEMMA InitIInv == Init => IInv
  BY BoundsAssumption DEF Init, IInv, RequestOK, NothingStale, ShownOK, VerdictOK

LEMMA EditStep ==
  ASSUME IInv, Edit
  PROVE  IInv'
  <1>1. /\ req' = req /\ shown' = shown /\ verdict' = verdict /\ verdict = NoVerdict
        /\ plan' \in PlanSet /\ changes' = changes + 1 /\ changes < MaxChanges
    BY DEF Edit
  <1>2. changes' \in 0 .. MaxChanges /\ changes' # 0
    BY <1>1, BoundsAssumption DEF IInv
  <1>3. RequestOK'
    BY <1>1 DEF IInv, RequestOK, PastQuestions, LooksAgain
  <1>4. NothingStale'
    BY <1>2 DEF NothingStale, quiet
  <1>5. ShownOK'
    BY <1>1, <1>2 DEF IInv, ShownOK, quiet
  <1>6. VerdictOK'
    BY <1>1 DEF VerdictOK
  <1> QED BY <1>1, <1>2, <1>3, <1>4, <1>5, <1>6 DEF IInv

LEMMA ReceiveStep ==
  ASSUME IInv, Receive
  PROVE  IInv'
  <1>1. req = Idle /\ shown = NotShown /\ UNCHANGED <<plan, shown, verdict, changes>>
    BY DEF Receive
  <1>2. PICK op \in Reads :
          req' = [pc |-> IF op = "fields" THEN "look up" ELSE "questions", op |-> op,
                  questions |-> {}, docs |-> {}, consents |-> {}, authorisation |-> TRUE]
    BY DEF Receive
  <1>3. /\ req' \in Requests /\ req'.op = op
        /\ req'.pc = IF op = "fields" THEN "look up" ELSE "questions"
    BY <1>2 DEF Requests, Pcs, QuestionSets
  <1>4. ~PastQuestions' /\ ~PastInfo' /\ ~PastConsents'
    BY <1>3 DEF PastQuestions, PastInfo, PastConsents, LooksAgain
  <1>5. RequestOK'
    BY <1>1, <1>3, <1>4 DEF RequestOK
  <1>6. NothingStale'
    BY <1>4 DEF NothingStale
  <1>7. ShownOK' /\ VerdictOK'
    BY <1>1 DEF IInv, ShownOK, VerdictOK, Verdict, ValidIn, QuestionsOf, Required, KeyCredentials,
                ValidConsents, Asked
  <1> QED BY <1>1, <1>5, <1>6, <1>7 DEF IInv

LEMMA KeyQuestions ==
  ASSUME NEW Q \in QuestionSets
  PROVE  /\ Q \subseteq Question
         /\ Manual(Q) \in Q \cup {NoQuestion} /\ Scan(Q) \in Q \cup {NoQuestion}
  <1>1. Q \subseteq Question /\ IsFiniteSet(Q)
    BY PlanTypes, FS_EmptySet DEF QuestionSets
  <1>2. ASSUME NEW S \in SUBSET Q PROVE LastOf(S) \in Q \cup {NoQuestion}
    <2>1. IsFiniteSet(S)
      BY <1>1, FS_Subset
    <2>2. CASE S = {}
      BY <2>2 DEF LastOf
    <2>3. CASE S # {}
      BY <1>1, <2>1, <2>3, LastIn
    <2> QED BY <2>2, <2>3
  <1>3. {q \in Q : "manual" \in q.key} \in SUBSET Q /\ {q \in Q : "scan" \in q.key} \in SUBSET Q
    OBVIOUS
  <1> QED BY <1>1, <1>2, <1>3 DEF Manual, Scan

(***************************************************************************)
(* The fields made of a plan's questions are credential fields.            *)
(***************************************************************************)
LEMMA FieldTypes ==
  ASSUME NEW Q \in QuestionSets, NEW docs, NEW consents, NEW k \in Classes
  PROVE  Fields(Q, docs, consents)[k].credentials \subseteq CredentialField
  <1> DEFINE credentials == {Field(Q, q) : q \in {r \in Listed(Q) : k \in r.classes}}
  <1>1. Fields(Q, docs, consents)[k].credentials = credentials
    BY DEF Fields
  <1>2. Listed(Q) \subseteq Q
    BY DEF Listed
  <1>3. Q \subseteq Question /\ Manual(Q) \in Q \cup {NoQuestion}
    BY KeyQuestions
  <1>4. ASSUME NEW q \in Q PROVE Field(Q, q) \in CredentialField
    <2>1. Manual(Q).slug \in Slugs \cup {MERCHANT_IDENTIFIER, NoQuestion.slug}
      BY <1>3 DEF Question
    <2>2. q.slug \in Slugs \cup {MERCHANT_IDENTIFIER} /\ q.optional \in BOOLEAN
      BY <1>3 DEF Question
    <2> QED BY <2>1, <2>2 DEF Field, CredentialField
  <1> QED BY <1>1, <1>2, <1>4

-----------------------------------------------------------------------------
(***************************************************************************)
(* The statements of a request.  What was decided on a journey stays what  *)
(* it is, for the plan does.                                               *)
(***************************************************************************)
LEMMA VerdictKept ==
  ASSUME VerdictOK, UNCHANGED <<plan, verdict>>
  PROVE  VerdictOK'
  BY DEF VerdictOK, Verdict, ValidIn, QuestionsOf, Required, KeyCredentials, ValidConsents, Asked

LEMMA NowKept ==
  ASSUME UNCHANGED <<plan, changes>>
  PROVE  PlanFieldsNow' = PlanFieldsNow /\ quiet' = quiet /\ Offered(TRUE)' = Offered(TRUE)
  BY DEF PlanFieldsNow, quiet, Offered

LEMMA RestKept ==
  ASSUME IInv, UNCHANGED <<plan, req, shown, changes>>
  PROVE  RequestOK' /\ NothingStale' /\ ShownOK'
  <1>1. /\ PlanFieldsNow' = PlanFieldsNow /\ quiet' = quiet /\ Offered(TRUE)' = Offered(TRUE)
        /\ plan' = plan /\ req' = req /\ shown' = shown
    BY NowKept
  <1>2. RequestOK'
    BY <1>1 DEF IInv, RequestOK, PastQuestions, LooksAgain
  <1>3. NothingStale'
    BY <1>1 DEF IInv, NothingStale, PastQuestions, PastInfo, PastConsents, LooksAgain
  <1>4. ShownOK'
    BY <1>1 DEF IInv, ShownOK
  <1> QED BY <1>2, <1>3, <1>4

(***************************************************************************)
(* A request that goes on.                                                 *)
(***************************************************************************)
LEMMA GotoStep ==
  ASSUME IInv, req # Idle, NEW r \in Requests, NEW pc \in Pcs, Goto(r, pc), r.op = req.op,
         UNCHANGED <<plan, shown, verdict, changes>>
  PROVE  /\ req' \in Requests /\ req' # Idle /\ req'.pc = pc /\ req'.op = req.op
         /\ req'.questions = r.questions /\ req'.docs = r.docs /\ req'.consents = r.consents
         /\ req'.authorisation = r.authorisation
         /\ shown' = NotShown /\ ShownOK' /\ VerdictOK' /\ plan' \in PlanSet
         /\ changes' \in 0 .. MaxChanges
  <1>1. req' = [r EXCEPT !.pc = pc]
    BY DEF Goto
  <1>2. /\ req' \in Requests /\ req'.pc = pc /\ req'.op = req.op
        /\ req'.questions = r.questions /\ req'.docs = r.docs /\ req'.consents = r.consents
        /\ req'.authorisation = r.authorisation
    BY <1>1 DEF Requests
  <1>3. req' # Idle
    <2>1. pc # "idle" /\ Idle.pc = "idle"
      BY DEF Idle, Pcs
    <2> QED BY <1>2, <2>1
  <1>4. shown' = NotShown /\ ShownOK'
    BY DEF IInv, RequestOK, ShownOK
  <1> QED BY <1>2, <1>3, <1>4, VerdictKept DEF IInv

LEMMA ActiveRequest ==
  ASSUME IInv, req.pc # "idle"
  PROVE  req # Idle /\ req \in Requests
  <1>1. Idle.pc = "idle"
    BY DEF Idle
  <1>2. req # Idle
    BY <1>1
  <1> QED BY <1>2 DEF IInv, RequestOK

(***************************************************************************)
(* A request that is answered without fields.                              *)
(***************************************************************************)
LEMMA NowhereStep ==
  ASSUME IInv, req # Idle, NEW outcome \in {"not found", "not listed"}, Nowhere(outcome),
         UNCHANGED <<plan, verdict, changes>>,
         quiet /\ req.op = "plans" => outcome # "not found"
  PROVE  IInv'
  <1>1. req' = Idle
    BY DEF Nowhere, Show
  <1>2. /\ shown'.outcome = outcome /\ shown'.op = req.op
        /\ \A k \in Classes : shown'.fields[k].credentials = {}
    BY DEF Nowhere, Show, NoFields
  <1>3. req.op \in Reads
    BY DEF IInv, RequestOK, Requests
  <1>4. ShownOK'
    BY <1>2, <1>3, NowKept DEF ShownOK
  <1>5. RequestOK' /\ NothingStale'
    BY <1>1 DEF RequestOK, NothingStale
  <1> QED BY <1>4, <1>5, VerdictKept DEF IInv

LEMMA FetchQuestionsStep ==
  ASSUME IInv, FetchQuestions
  PROVE  IInv'
  <1>1. req.pc = "questions" /\ UNCHANGED <<plan, verdict, changes>>
    BY DEF FetchQuestions
  <1>2. req # Idle /\ req \in Requests /\ req.op # "fields"
    BY <1>1 DEF IInv, RequestOK, Idle
  <1>3. CASE Nowhere(IF req.op = "plans" THEN "not listed" ELSE "not found")
    <2> DEFINE o == IF req.op = "plans" THEN "not listed" ELSE "not found"
    <2>1. o \in {"not found", "not listed"} /\ (req.op = "plans" => o # "not found") /\ Nowhere(o)
      BY <1>3
    <2> HIDE DEF o
    <2> QED BY <1>1, <1>2, <2>1, NowhereStep
  <1>4. CASE ~Nowhere(IF req.op = "plans" THEN "not listed" ELSE "not found")
    <2> DEFINE r == [req EXCEPT !.questions = plan.questions,
                                !.authorisation = plan.authorisationRequired]
    <2>1. Offered(req.op = "plan") /\ Goto(r, "info") /\ UNCHANGED shown
      BY <1>4 DEF FetchQuestions
    <2>2. plan \in PlanSet /\ plan.authorisationRequired \in BOOLEAN
      BY PlanTypes DEF IInv
    <2>3. /\ r \in Requests /\ r.op = req.op /\ r.questions = plan.questions
          /\ r.authorisation = plan.authorisationRequired
      BY <1>2, <2>2 DEF Requests, QuestionSets
    <2>4. plan.questions # {} /\ Offered(TRUE)
      BY <2>1 DEF Offered
    <2> HIDE DEF r
    <2>5. /\ req' \in Requests /\ req' # Idle /\ req'.pc = "info" /\ req'.op = req.op
          /\ req'.questions = r.questions /\ req'.authorisation = r.authorisation
          /\ shown' = NotShown /\ ShownOK' /\ VerdictOK' /\ plan' \in PlanSet
          /\ changes' \in 0 .. MaxChanges
      BY <1>1, <1>2, <2>1, <2>3, GotoStep DEF Pcs
    <2>6. RequestOK'
      BY <1>2, <2>3, <2>4, <2>5 DEF RequestOK
    <2>7. NothingStale'
      <3>1. Offered(TRUE)'
        BY <1>1, <2>4, NowKept
      <3> QED BY <1>1, <2>3, <2>5, <3>1 DEF NothingStale, PastInfo, PastConsents, LooksAgain
    <2> QED BY <2>5, <2>6, <2>7 DEF IInv
  <1> QED BY <1>3, <1>4

LEMMA FetchInfoStep ==
  ASSUME IInv, FetchInfo
  PROVE  IInv'
  <1> DEFINE r == [req EXCEPT !.docs = plan.docs]
  <1>1. /\ req.pc = "info" /\ Goto(r, "consents") /\ UNCHANGED <<plan, shown, verdict, changes>>
    BY DEF FetchInfo
  <1>2. req # Idle /\ req \in Requests /\ req.op # "fields"
    BY <1>1 DEF IInv, RequestOK, Idle
  <1>3. PastQuestions /\ req.questions # {}
    BY <1>1, <1>2 DEF IInv, RequestOK, PastQuestions
  <1>4. /\ r \in Requests /\ r.op = req.op /\ r.questions = req.questions
        /\ r.authorisation = req.authorisation /\ r.docs = plan.docs
    BY <1>2, PlanTypes DEF IInv, Requests
  <1> HIDE DEF r
  <1>5. /\ req' \in Requests /\ req' # Idle /\ req'.pc = "consents" /\ req'.op = req.op
        /\ req'.questions = r.questions /\ req'.authorisation = r.authorisation
        /\ req'.docs = r.docs
        /\ shown' = NotShown /\ ShownOK' /\ VerdictOK' /\ plan' \in PlanSet
        /\ changes' \in 0 .. MaxChanges
    BY <1>1, <1>2, <1>4, GotoStep DEF Pcs
  <1>6. RequestOK'
    BY <1>3, <1>4, <1>5 DEF RequestOK
  <1>7. NothingStale'
    BY <1>1, <1>2, <1>3, <1>4, <1>5, NowKept DEF IInv, NothingStale, PastConsents, LooksAgain
  <1> QED BY <1>5, <1>6, <1>7 DEF IInv

LEMMA FetchConsentsStep ==
  ASSUME IInv, FetchConsents
  PROVE  IInv'
  <1> DEFINE r == [req EXCEPT !.consents = plan.consents]
             pc == IF req.op = "fields" \/ req.docs # {} THEN "format" ELSE "look up"
  <1>1. /\ req.pc = "consents" /\ Goto(r, pc) /\ UNCHANGED <<plan, shown, verdict, changes>>
    BY DEF FetchConsents
  <1>2. req # Idle /\ req \in Requests
    BY <1>1, ActiveRequest
  <1>3. PastQuestions /\ PastInfo /\ req.questions # {}
    BY <1>1, <1>2 DEF IInv, RequestOK, PastQuestions, PastInfo
  <1>4. /\ r \in Requests /\ r.op = req.op /\ r.questions = req.questions
        /\ r.authorisation = req.authorisation /\ r.docs = req.docs /\ r.consents = plan.consents
    BY <1>2 DEF IInv, Requests
  <1>5. pc \in {"format", "look up"} /\ pc \in Pcs
    BY DEF Pcs
  <1> HIDE DEF r, pc
  <1>6. /\ req' \in Requests /\ req' # Idle /\ req'.pc = pc /\ req'.op = req.op
        /\ req'.questions = r.questions /\ req'.authorisation = r.authorisation
        /\ req'.docs = r.docs /\ req'.consents = r.consents
        /\ shown' = NotShown /\ ShownOK' /\ VerdictOK' /\ plan' \in PlanSet
        /\ changes' \in 0 .. MaxChanges
    BY <1>1, <1>2, <1>4, <1>5, GotoStep
  <1>7. RequestOK'
    BY <1>3, <1>4, <1>5, <1>6 DEF RequestOK
  <1>8. NothingStale'
    BY <1>1, <1>2, <1>3, <1>4, <1>6, NowKept DEF IInv, NothingStale
  <1> QED BY <1>6, <1>7, <1>8 DEF IInv

LEMMA LookUpStep ==
  ASSUME IInv, LookUp
  PROVE  IInv'
  <1>1. req.pc = "look up" /\ UNCHANGED <<plan, verdict, changes>>
    BY DEF LookUp
  <1>2. req # Idle /\ req \in Requests
    BY <1>1, ActiveRequest
  <1>3. CASE ~Offered(TRUE)
    <2>1. Nowhere("not found")
      BY <1>3 DEF LookUp
    <2>2. ~(quiet /\ req.op = "plans")
      BY <1>1, <1>2, <1>3 DEF IInv, NothingStale, PastQuestions, LooksAgain
    <2> QED BY <1>1, <1>2, <2>1, <2>2, NowhereStep
  <1>4. CASE Offered(TRUE)
    <2> DEFINE r == [req EXCEPT !.questions = plan.questions, !.docs = plan.docs]
               pc == IF req.op = "fields" THEN "consents" ELSE "format"
    <2>1. Goto(r, pc) /\ UNCHANGED shown
      BY <1>4 DEF LookUp
    <2>2. plan \in PlanSet /\ plan.docs \subseteq Classes
      BY PlanTypes DEF IInv
    <2>3. /\ r \in Requests /\ r.op = req.op /\ r.questions = plan.questions
          /\ r.authorisation = req.authorisation /\ r.docs = plan.docs /\ r.consents = req.consents
      BY <1>2, <2>2 DEF Requests, QuestionSets
    <2>4. plan.questions # {} /\ Offered(TRUE)'
      BY <1>1, <1>4, NowKept DEF Offered
    <2>5. pc \in Pcs /\ pc \in {"consents", "format"} /\ (pc = "format" => LooksAgain)
      BY <1>1 DEF Pcs, LooksAgain
    <2> HIDE DEF r, pc
    <2>6. /\ req' \in Requests /\ req' # Idle /\ req'.pc = pc /\ req'.op = req.op
          /\ req'.questions = r.questions /\ req'.authorisation = r.authorisation
          /\ req'.docs = r.docs /\ req'.consents = r.consents
          /\ shown' = NotShown /\ ShownOK' /\ VerdictOK' /\ plan' \in PlanSet
          /\ changes' \in 0 .. MaxChanges
      BY <1>1, <1>2, <2>1, <2>3, <2>5, GotoStep
    <2>7. RequestOK'
      BY <2>3, <2>4, <2>5, <2>6 DEF RequestOK
    <2>8. NothingStale'
      <3>1. pc = "format" \/ req.op = "fields"
        BY DEF pc
      <3>2. PastConsents' => pc = "format"
        BY <2>5, <2>6 DEF PastConsents, LooksAgain
      <3>3. LooksAgain /\ quiet => /\ req.consents = plan.consents
                                   /\ req.authorisation = plan.authorisationRequired
        BY <1>2 DEF IInv, NothingStale, PastQuestions, PastConsents, LooksAgain
      <3>4. plan' = plan /\ quiet' = quiet
        BY <1>1, NowKept
      <3> QED BY <2>3, <2>4, <2>5, <2>6, <3>1, <3>2, <3>3, <3>4 DEF NothingStale
    <2> QED BY <2>6, <2>7, <2>8 DEF IInv
  <1> QED BY <1>3, <1>4

LEMMA FormatStep ==
  ASSUME IInv, Format
  PROVE  IInv'
  <1> DEFINE fields == Fields(req.questions, req.docs, req.consents)
             journeys == IF req.op = "fields" THEN {} ELSE Journeys(fields, req.authorisation)
  <1>1. req.pc = "format" /\ Show("ok", fields, journeys) /\ UNCHANGED <<plan, verdict, changes>>
    BY DEF Format
  <1>2. req # Idle /\ req \in Requests
    BY <1>1 DEF IInv, RequestOK, Idle
  <1>3. \A k \in Classes : fields[k].credentials \subseteq CredentialField
    BY <1>2, FieldTypes DEF Requests
  <1>4. quiet => /\ fields = PlanFieldsNow
                 /\ journeys \subseteq Journeys(PlanFieldsNow, plan.authorisationRequired)
    <2>1. PastQuestions /\ PastInfo /\ PastConsents
      BY <1>1 DEF PastQuestions, PastInfo, PastConsents
    <2>2. quiet => /\ req.questions = plan.questions /\ req.docs = plan.docs
                   /\ req.consents = plan.consents
                   /\ req.op # "fields" => req.authorisation = plan.authorisationRequired
      BY <1>2, <2>1 DEF IInv, NothingStale
    <2> QED BY <2>2 DEF PlanFieldsNow
  <1> HIDE DEF fields, journeys
  <1>5. /\ req' = Idle /\ shown'.outcome = "ok" /\ shown'.op = req.op /\ shown'.fields = fields
        /\ shown'.journeys = journeys
    BY <1>1 DEF Show
  <1>6. ShownOK'
    <2>1. req.op \in Reads
      BY <1>2 DEF Requests
    <2>2. plan' = plan
      BY <1>1
    <2> QED BY <1>1, <1>3, <1>4, <1>5, <2>1, <2>2, NowKept DEF ShownOK
  <1>7. RequestOK' /\ NothingStale'
    BY <1>5 DEF RequestOK, NothingStale
  <1> QED BY <1>1, <1>6, <1>7, VerdictKept DEF IInv

(***************************************************************************)
(* A journey is decided on at once; its outcome is one of three.           *)
(***************************************************************************)
LEMMA JourneysNamed ==
  /\ JourneyNames = {"add", "trusted_add", "add_and_authorise", "authorise", "add_and_register",
                     "register", "join"}
  /\ AnsweredIn["add"] = {"add"} /\ AnsweredIn["trusted_add"] = {"add", "auth"}
  /\ AnsweredIn["add_and_authorise"] = {"add", "auth"} /\ AnsweredIn["authorise"] = {"add", "auth"}
  /\ AnsweredIn["add_and_register"] = {"add", "register"}
  /\ AnsweredIn["register"] = {"register"} /\ AnsweredIn["join"] = {"join"}
  BY DEF JourneyNames, AnsweredIn

LEMMA VerdictType ==
  ASSUME NEW a
  PROVE  Verdict(a) \in {"accepted", "refused", "error"}
  BY DEF Verdict

LEMMA UpToSeq == ASSUME NEW S, NEW n \in Nat PROVE UpTo(S, n) \subseteq Seq(S)
  BY DEF UpTo

LEMMA PostStep ==
  ASSUME IInv, Post
  PROVE  IInv'
  <1>1. verdict = NoVerdict /\ UNCHANGED <<plan, req, shown, changes>>
    BY DEF Post
  <1>2. PICK j \in JourneyNames, consents \in UpTo(ConsentSlugs, Cardinality(ConsentSlugs)) :
          \E answers \in [AnsweredIn[j] -> UpTo(Slugs, MaxAnswers)] :
              LET a == [journey |-> j, consents |-> consents,
                        answers |-> [k \in Classes |->
                                       IF k \in AnsweredIn[j] THEN answers[k] ELSE <<>>]]
              IN  WellFormed(a) /\ verdict' = [outcome |-> Verdict(a), of |-> a]
    BY <1>1 DEF Post
  <1>9. PICK answers \in [AnsweredIn[j] -> UpTo(Slugs, MaxAnswers)] :
          LET a == [journey |-> j, consents |-> consents,
                    answers |-> [k \in Classes |-> IF k \in AnsweredIn[j] THEN answers[k] ELSE <<>>]]
          IN  WellFormed(a) /\ verdict' = [outcome |-> Verdict(a), of |-> a]
    BY <1>2
  <1> DEFINE given == [k \in Classes |-> IF k \in AnsweredIn[j] THEN answers[k] ELSE <<>>]
             a == [journey |-> j, consents |-> consents, answers |-> given]
  <1>3. WellFormed(a) /\ verdict' = [outcome |-> Verdict(a), of |-> a]
    BY <1>9
  <1>4. a \in Attempts
    <2>1. UpTo(Slugs, MaxAnswers) \subseteq Seq(Slugs)
      BY UpToSeq, BoundsAssumption
    <2>2. Cardinality(ConsentSlugs) \in Nat
      BY SlugsAssumption, FS_CardinalityType
    <2>3. consents \in Seq(ConsentSlugs)
      BY <2>2, UpToSeq
    <2>4. \A k \in Classes : given[k] \in Seq(Slugs)
      BY <2>1
    <2>5. given \in [Classes -> Seq(Slugs)]
      BY <2>4
    <2> HIDE DEF given
    <2> QED BY <2>3, <2>5 DEF Attempts
  <1> HIDE DEF a
  <1>5. verdict'.of = a /\ verdict'.outcome = Verdict(a)
    BY <1>3
  <1>6. Verdict(a)' = Verdict(a)
    BY <1>1 DEF Verdict, ValidIn, QuestionsOf, Required, KeyCredentials, ValidConsents, Asked
  <1>7. VerdictOK'
    BY <1>3, <1>4, <1>5, <1>6 DEF VerdictOK
  <1>8. RequestOK' /\ NothingStale' /\ ShownOK'
    BY <1>1, RestKept
  <1> QED BY <1>1, <1>7, <1>8 DEF IInv

LEMMA NextStep ==
  ASSUME IInv, [Next]_vars
  PROVE  IInv'
  <1>1. CASE UNCHANGED vars
    <2>1. UNCHANGED <<plan, req, shown, verdict, changes>>
      BY <1>1 DEF vars
    <2>2. RequestOK' /\ NothingStale' /\ ShownOK'
      BY <2>1, RestKept
    <2> QED BY <2>1, <2>2, VerdictKept DEF IInv
  <1> QED BY <1>1, EditStep, ReceiveStep, FetchQuestionsStep, FetchInfoStep, FetchConsentsStep,
             LookUpStep, FormatStep, PostStep DEF Next

LEMMA Invariant == Spec => []IInv
  BY InitIInv, NextStep, PTL DEF Spec

(***************************************************************************)
(* The plan, the request, the fields shown and the outcome of the journey  *)
(* are always of the right kind; the fields are only ever made of a plan's *)
(* questions.                                                              *)
(***************************************************************************)
THEOREM TypeCorrect == Spec => []TypeOK
  <1>1. IInv => TypeOK
    <2> SUFFICES ASSUME IInv PROVE TypeOK
      OBVIOUS
    <2>1. req.pc \in {"idle", "questions", "info", "consents", "look up", "format"}
      <3>1. CASE req = Idle
        BY <3>1 DEF Idle
      <3>2. CASE req # Idle
        BY <3>2 DEF IInv, RequestOK, Requests, Pcs
      <3> QED BY <3>1, <3>2
    <2>2. req # Idle => req.op \in Reads /\ req.docs \subseteq Classes
      BY DEF IInv, RequestOK, Requests
    <2>3. req.pc = "format" => req.questions # {}
      <3> SUFFICES ASSUME req.pc = "format" PROVE req.questions # {}
        OBVIOUS
      <3>1. req # Idle
        BY ActiveRequest
      <3> QED BY <3>1 DEF IInv, RequestOK, PastQuestions
    <2>4. shown.outcome \in {"none", "ok", "not found", "not listed"}
      <3>1. CASE shown = NotShown
        BY <3>1 DEF NotShown
      <3>2. CASE shown # NotShown
        BY <3>2 DEF IInv, ShownOK
      <3> QED BY <3>1, <3>2
    <2>5. shown # NotShown => \A k \in Classes : shown.fields[k].credentials \subseteq CredentialField
      BY DEF IInv, ShownOK
    <2>6. verdict.outcome \in {"none", "accepted", "refused", "error"}
      <3>1. CASE verdict = NoVerdict
        BY <3>1 DEF NoVerdict
      <3>2. CASE verdict # NoVerdict
        BY <3>2, VerdictType DEF IInv, VerdictOK
      <3> QED BY <3>1, <3>2
    <2> QED BY <2>1, <2>2, <2>3, <2>4, <2>5, <2>6 DEF IInv, TypeOK
  <1> QED BY Invariant, <1>1, PTL

(***************************************************************************)
(* The list of plans is answered with 404 only if a plan was edited while  *)
(* it was put together: what the second look-up of a plan without          *)
(* documents asks for is no more than the list itself did.                 *)
(***************************************************************************)
THEOREM ListRefusedOnlyAfterEdit == Spec => []ListRefusedOnlyIfChanged
  <1>1. IInv => ListRefusedOnlyIfChanged
    <2>1. NotShown.outcome # "not found"
      BY DEF NotShown
    <2> QED BY <2>1 DEF IInv, ShownOK, ListRefusedOnlyIfChanged
  <1> QED BY Invariant, <1>1, PTL

-----------------------------------------------------------------------------
(***************************************************************************)
(* What is shown of a sound plan.  Only the manual question is not listed, *)
(* and then it is the alternative of the listed scan question; both belong *)
(* to the add class.  One of the questions listed finds the card.          *)
(***************************************************************************)
KeyOf(q) == q.key # {}

SoundFacts(p) ==
    LET Q == p.questions
        L == Listed(Q)
    IN  /\ L \subseteq Q
        /\ \A q \in Q \ L : /\ q = Manual(Q) /\ q.classes = {"add"} /\ KeyOf(q)
                            /\ Scan(Q) \in L /\ Scan(Q).classes = {"add"} /\ KeyOf(Scan(Q))
        /\ \A q \in L : \/ Field(Q, q).alternative = NoQuestion.slug
                        \/ /\ q = Scan(Q) /\ Manual(Q) \in Q \ L
                           /\ Field(Q, q).alternative = Manual(Q).slug
        /\ \A q \in Q : KeyOf(q) => q.classes \in {{"add"}, {"auth"}}
        /\ \A q, r \in L : KeyOf(q) /\ KeyOf(r) => q = r
        /\ \E q \in L : KeyOf(q)
        /\ \A q \in Q : "add" \in q.classes => KeyOf(q)
        /\ \A c \in p.consents : "add" \notin c.classes
        /\ \A k \in p.docs : \E q \in Q : k \in q.classes
        /\ \A c \in p.consents : \A k \in c.classes : \E q \in Q : k \in q.classes
        /\ "add" \notin p.docs

LEMMA LastOfOne ==
  ASSUME NEW q \in Question
  PROVE  LastOf({q}) = q /\ q # NoQuestion
  <1>1. LastOf({q}) = q
    <2>1. IsFiniteSet({q}) /\ {q} \in SUBSET Question /\ {q} # {}
      BY FS_Singleton
    <2>2. LastOf({q}) \in {q}
      BY <2>1, LastIn
    <2> QED BY <2>2
  <1>2. q # NoQuestion
    BY DEF Question, NoQuestion
  <1> QED BY <1>1, <1>2

LEMMA PairFacts ==
  ASSUME NEW p \in PlanSet, Sound(p),
         NEW m \in p.questions, NEW s \in p.questions,
         m.key = {"manual"}, s.key = {"scan"}, m.classes = {"add"}, s.classes = {"add"},
         {q \in p.questions : KeyOf(q)} = {m, s}
  PROVE  SoundFacts(p)
  <1> DEFINE Q == p.questions
  <1>1. Q \subseteq Question /\ m \in Question /\ s \in Question
    BY PlanTypes
  <1>2. \A q \in Q : ("manual" \in q.key => q = m) /\ ("scan" \in q.key => q = s)
    BY DEF KeyOf
  <1>3. {q \in Q : "manual" \in q.key} = {m} /\ {q \in Q : "scan" \in q.key} = {s}
    BY <1>2
  <1>4. Manual(Q) = m /\ Scan(Q) = s /\ s # NoQuestion /\ m # s
    BY <1>1, <1>3, LastOfOne DEF Manual, Scan
  <1>5. Listed(Q) = Q \ {m}
    BY <1>4 DEF Listed
  <1>6. \A q \in Q : Field(Q, q).alternative = IF q = s THEN m.slug ELSE NoQuestion.slug
    BY <1>4 DEF Field
  <1>7. \A q \in Q : KeyOf(q) <=> q \in {m, s}
    OBVIOUS
  <1>8. /\ \A q \in p.questions : "add" \in q.classes => KeyOf(q)
        /\ \A c \in p.consents : "add" \notin c.classes
        /\ \A k \in p.docs : \E q \in p.questions : k \in q.classes
        /\ \A c \in p.consents : \A k \in c.classes : \E q \in p.questions : k \in q.classes
        /\ "add" \notin p.docs
    BY DEF Sound, KeyOf
  <1> HIDE DEF KeyOf
  <1> QED BY <1>4, <1>5, <1>6, <1>7, <1>8 DEF SoundFacts

LEMMA SingleFacts ==
  ASSUME NEW p \in PlanSet, Sound(p), NEW x \in p.questions,
         Cardinality(x.key) = 1, x.classes \in {{"add"}, {"auth"}},
         {q \in p.questions : KeyOf(q)} = {x}
  PROVE  SoundFacts(p)
  <1> DEFINE Q == p.questions
             M == {q \in Q : "manual" \in q.key}
             S == {q \in Q : "scan" \in q.key}
  <1>1. Q \subseteq Question /\ x \in Question
    BY PlanTypes
  <1>2. PICK y : x.key = {y}
    <2>1. x.key \subseteq {"manual", "scan", "link"}
      BY <1>1 DEF Question
    <2>2. IsFiniteSet({"manual", "scan", "link"})
      <3>1. IsFiniteSet({}) /\ IsFiniteSet({"manual"})
        BY FS_EmptySet, FS_Singleton
      <3>2. IsFiniteSet({"manual"} \cup {"scan"})
        BY <3>1, FS_AddElement
      <3>3. IsFiniteSet(({"manual"} \cup {"scan"}) \cup {"link"})
        BY <3>2, FS_AddElement
      <3>4. ({"manual"} \cup {"scan"}) \cup {"link"} = {"manual", "scan", "link"}
        OBVIOUS
      <3> QED BY <3>3, <3>4
    <2>3. IsFiniteSet(x.key)
      BY <2>1, <2>2, FS_Subset
    <2> QED BY <2>3, FS_Singleton
  <1>3. \A q \in Q : KeyOf(q) <=> q = x
    OBVIOUS
  <1>4. M = {} \/ S = {}
    BY <1>2, <1>3 DEF KeyOf
  <1>5. Manual(Q) = NoQuestion \/ Scan(Q) = NoQuestion
    BY <1>4 DEF Manual, Scan, LastOf
  <1>6. NoQuestion \notin Q
    BY <1>1, LastOfOne
  <1>7. Listed(Q) = Q
    BY <1>5, <1>6 DEF Listed
  <1>8. \A q \in Q : Field(Q, q).alternative = NoQuestion.slug
    BY <1>5, <1>6 DEF Field
  <1>9. /\ \A q \in p.questions : "add" \in q.classes => KeyOf(q)
        /\ \A c \in p.consents : "add" \notin c.classes
        /\ \A k \in p.docs : \E q \in p.questions : k \in q.classes
        /\ \A c \in p.consents : \A k \in c.classes : \E q \in p.questions : k \in q.classes
        /\ "add" \notin p.docs
    BY DEF Sound, KeyOf
  <1> HIDE DEF KeyOf
  <1> QED BY <1>3, <1>7, <1>8, <1>9 DEF SoundFacts

LEMMA SoundPlan ==
  ASSUME NEW p \in PlanSet, Sound(p)
  PROVE  SoundFacts(p)
  <1> DEFINE keys == {q \in p.questions : KeyOf(q)}
  <1>1. CASE \E q, r \in keys : /\ q.key = {"manual"} /\ r.key = {"scan"} /\ keys = {q, r}
                                /\ q.classes = {"add"} /\ r.classes = {"add"}
    BY <1>1, PairFacts
  <1>2. CASE /\ Cardinality(keys) = 1
             /\ \A q \in keys : Cardinality(q.key) = 1 /\ q.classes \in {{"add"}, {"auth"}}
    <2>1. IsFiniteSet(keys)
      BY PlanTypes, FS_Subset
    <2>2. PICK x : keys = {x}
      <3> HIDE DEF keys
      <3> QED BY <1>2, <2>1, FS_Singleton
    <2> QED BY <1>2, <2>2, SingleFacts
  <1> QED BY <1>1, <1>2 DEF Sound, KeyOf

(***************************************************************************)
(* The credential fields shown in a class of a sound plan: one for each    *)
(* question listed, with an alternative only in the add class.             *)
(***************************************************************************)
ShownOf(p, k) == Fields(p.questions, p.docs, p.consents)[k].credentials
Alternatives(f) == {f.slug, f.alternative} \ {NoQuestion.slug}

LEMMA ShownFields ==
  ASSUME NEW p \in PlanSet, NEW k \in Classes
  PROVE  /\ ShownOf(p, k) = {Field(p.questions, q) : q \in {r \in Listed(p.questions) : k \in r.classes}}
         /\ \A q : Field(p.questions, q).slug = q.slug
         /\ \A q \in p.questions : q.slug # NoQuestion.slug
  <1>1. ShownOf(p, k) = {Field(p.questions, q) : q \in {r \in Listed(p.questions) : k \in r.classes}}
    BY DEF ShownOf, Fields
  <1>2. \A q : Field(p.questions, q).slug = q.slug
    BY DEF Field
  <1>3. \A q \in p.questions : q.slug # NoQuestion.slug
    BY PlanTypes, SlugsAssumption DEF Question, NoQuestion, MERCHANT_IDENTIFIER
  <1> QED BY <1>1, <1>2, <1>3

LEMMA AnswersOf ==
  ASSUME NEW p \in PlanSet, SoundFacts(p), NEW k \in Classes, NEW f \in ShownOf(p, k)
  PROVE  \E q \in Listed(p.questions) :
            /\ k \in q.classes /\ f = Field(p.questions, q) /\ f.slug = q.slug
            /\ \/ Alternatives(f) = {q.slug}
               \/ /\ q = Scan(p.questions) /\ k = "add" /\ q.classes = {"add"}
                  /\ Manual(p.questions) \in p.questions \ Listed(p.questions)
                  /\ Manual(p.questions).classes = {"add"} /\ KeyOf(Manual(p.questions))
                  /\ Alternatives(f) = {q.slug, Manual(p.questions).slug}
  <1> DEFINE Q == p.questions
  <1>1. PICK q \in Listed(Q) : k \in q.classes /\ f = Field(Q, q)
    BY ShownFields
  <1>2. q \in Q /\ f.slug = q.slug /\ q.slug # NoQuestion.slug
    BY <1>1, ShownFields DEF SoundFacts
  <1>3. CASE f.alternative = NoQuestion.slug
    BY <1>1, <1>2, <1>3 DEF Alternatives
  <1>4. CASE /\ q = Scan(Q) /\ Manual(Q) \in Q \ Listed(Q) /\ f.alternative = Manual(Q).slug
    <2>1. Manual(Q).slug # NoQuestion.slug
      BY <1>4, ShownFields
    <2>2. Alternatives(f) = {q.slug, Manual(Q).slug}
      BY <1>2, <1>4, <2>1 DEF Alternatives
    <2>3. /\ Manual(Q).classes = {"add"} /\ KeyOf(Manual(Q)) /\ q.classes = {"add"}
      BY <1>4 DEF SoundFacts
    <2>4. k = "add"
      BY <1>1, <2>3
    <2> QED BY <1>1, <1>2, <1>4, <2>2, <2>3, <2>4
  <1>5. f.alternative = NoQuestion.slug \/ (q = Scan(Q) /\ Manual(Q) \in Q \ Listed(Q)
                                            /\ f.alternative = Manual(Q).slug)
    BY <1>1 DEF SoundFacts
  <1> QED BY <1>3, <1>4, <1>5

LEMMA AnswersDiffer ==
  ASSUME NEW p \in PlanSet, SoundFacts(p), NEW k \in Classes,
         NEW f \in ShownOf(p, k), NEW g \in ShownOf(p, k), f # g
  PROVE  Alternatives(f) \cap Alternatives(g) = {}
  <1> DEFINE Q == p.questions
             L == Listed(Q)
             m == Manual(Q)
  <1>1. PICK q \in L :
          /\ f = Field(Q, q)
          /\ \/ Alternatives(f) = {q.slug}
             \/ q = Scan(Q) /\ m \in Q \ L /\ Alternatives(f) = {q.slug, m.slug}
    BY AnswersOf
  <1>2. PICK r \in L :
          /\ g = Field(Q, r)
          /\ \/ Alternatives(g) = {r.slug}
             \/ r = Scan(Q) /\ m \in Q \ L /\ Alternatives(g) = {r.slug, m.slug}
    BY AnswersOf
  <1>3. L \subseteq Q /\ q # r
    BY <1>1, <1>2 DEF SoundFacts
  <1>4. q.slug # r.slug
    BY <1>3, PlanTypes
  <1>5. m \in Q \ L => m.slug # q.slug /\ m.slug # r.slug
    BY <1>3, PlanTypes
  <1> HIDE DEF L, m
  <1> QED BY <1>1, <1>2, <1>3, <1>4, <1>5

(***************************************************************************)
(* A client that answers each of some fields once, and nothing else,       *)
(* answers questions of the class, and none of them twice.                 *)
(***************************************************************************)
LEMMA ChosenAnswers ==
  ASSUME NEW p \in PlanSet, SoundFacts(p), NEW k \in Classes, NEW F \in SUBSET ShownOf(p, k),
         NEW given \in Seq(Slugs), Chosen(F, given)
  PROVE  /\ ToSet(given) \subseteq UNION {Alternatives(f) : f \in F}
         /\ \A f \in F : ToSet(given) \cap Alternatives(f) # {}
         /\ IsInjective(given)
  <1> DEFINE N == 1 .. Len(given)
             Answer(f, i) == i \in N /\ given[i] \in Alternatives(f)
             at == [f \in F |-> CHOOSE i \in N : given[i] \in Alternatives(f)]
  <1>1. /\ DOMAIN given = N /\ Len(given) \in Nat /\ Len(given) = Cardinality(F)
        /\ \A i \in N : given[i] \in Slugs
    BY DEF Chosen
  <1>2. \A f \in F : \E i \in N : given[i] \in Alternatives(f)
    BY <1>1, SlugsAssumption DEF Chosen, Alternatives
  <1>3. \A f \in F : at[f] \in N /\ given[at[f]] \in Alternatives(f)
    BY <1>2
  <1>4. \A f, g \in F : f # g => Alternatives(f) \cap Alternatives(g) = {}
    BY AnswersDiffer
  <1>5. at \in [F -> N] /\ \A f, g \in F : at[f] = at[g] => f = g
    <2>1. at \in [F -> N]
      BY <1>3
    <2> HIDE DEF at
    <2> QED BY <1>3, <1>4, <2>1
  <1>6. \A i \in N : \E f \in F : at[f] = i
    <2> HIDE DEF at
    <2>1. at \in Injection(F, N)
      BY <1>5, Fun_IsInj
    <2>2. IsFiniteSet(N) /\ Cardinality(N) = Len(given)
      BY <1>1, FS_Interval
    <2> HIDE DEF N
    <2>3. at \in Surjection(F, N)
      BY <1>1, <2>1, <2>2, FS_Injection
    <2> QED BY <2>3 DEF Surjection
  <1> HIDE DEF at
  <1>7. \A i \in N : \E f \in F : at[f] = i /\ given[i] \in Alternatives(f)
    BY <1>3, <1>6
  <1>8. IsInjective(given)
    <2> SUFFICES ASSUME NEW i \in N, NEW j \in N, given[i] = given[j] PROVE i = j
      BY <1>1 DEF IsInjective
    <2> QED BY <1>4, <1>7
  <1>9. ToSet(given) \subseteq UNION {Alternatives(f) : f \in F}
    BY <1>1, <1>7 DEF ToSet
  <1>10. \A f \in F : ToSet(given) \cap Alternatives(f) # {}
    BY <1>1, <1>3 DEF ToSet
  <1> QED BY <1>8, <1>9, <1>10

LEMMA ShownNow ==
  ASSUME IInv, quiet, shown.outcome = "ok"
  PROVE  /\ \A k \in Classes : shown.fields[k].credentials = ShownOf(plan, k)
         /\ \A k \in Classes : shown.fields[k].documents = (k \in plan.docs)
         /\ \A k \in Classes :
               shown.fields[k].consents = {c.slug : c \in {d \in plan.consents : k \in d.classes}}
         /\ shown.journeys \subseteq {k \in Classes :
               \/ ShownOf(plan, k) # {} \/ k \in plan.docs
                  \/ {d \in plan.consents : k \in d.classes} # {}
               \/ k = "auth" /\ ~plan.authorisationRequired}
  <1>1. NotShown.outcome # "ok"
    BY DEF NotShown
  <1>2. /\ shown.fields = PlanFieldsNow
        /\ shown.journeys \subseteq Journeys(PlanFieldsNow, plan.authorisationRequired)
    BY <1>1 DEF IInv, ShownOK
  <1>3. ASSUME NEW k \in Classes
        PROVE  /\ PlanFieldsNow[k].credentials = ShownOf(plan, k)
               /\ PlanFieldsNow[k].documents = (k \in plan.docs)
               /\ PlanFieldsNow[k].consents =
                     {c.slug : c \in {d \in plan.consents : k \in d.classes}}
    <2>1. PlanFieldsNow[k].credentials = ShownOf(plan, k)
      BY DEF PlanFieldsNow, ShownOf
    <2>2. PlanFieldsNow[k].documents = (k \in plan.docs)
      BY DEF PlanFieldsNow, Fields
    <2>3. PlanFieldsNow[k].consents = {c.slug : c \in {d \in plan.consents : k \in d.classes}}
      BY DEF PlanFieldsNow, Fields
    <2> QED BY <2>1, <2>2, <2>3
  <1>4. ASSUME NEW k \in shown.journeys
        PROVE  /\ k \in Classes
               /\ \/ ShownOf(plan, k) # {} \/ k \in plan.docs
                     \/ {d \in plan.consents : k \in d.classes} # {}
                  \/ k = "auth" /\ ~plan.authorisationRequired
    <2>1. k \in Classes /\ (~Empty(PlanFieldsNow[k]) \/ (k = "auth" /\ ~plan.authorisationRequired))
      BY <1>2 DEF Journeys
    <2>2. ~Empty(PlanFieldsNow[k]) =>
             \/ ShownOf(plan, k) # {} \/ k \in plan.docs
             \/ {d \in plan.consents : k \in d.classes} # {}
      BY <1>3, <2>1 DEF Empty
    <2> QED BY <2>1, <2>2
  <1> QED BY <1>2, <1>3, <1>4

LEMMA AttemptFacts ==
  ASSUME NEW a \in Attempts
  PROVE  /\ a.journey \in JourneyNames /\ a.consents \in Seq(ConsentSlugs)
         /\ \A k \in Classes : a.answers[k] \in Seq(Slugs)
  BY DEF Attempts

-----------------------------------------------------------------------------
(***************************************************************************)
(* The scan question of a plan is one of its questions, and is listed      *)
(* unless it is the manual question as well.                               *)
(***************************************************************************)
LEMMA ScanListed ==
  ASSUME NEW p \in PlanSet, Scan(p.questions) # NoQuestion,
         Scan(p.questions) # Manual(p.questions)
  PROVE  Scan(p.questions) \in Listed(p.questions)
  <1> DEFINE Scans == {q \in p.questions : "scan" \in q.key}
  <1>1. Scans \in SUBSET Question /\ IsFiniteSet(Scans)
    BY PlanTypes, FS_Subset
  <1>2. Scan(p.questions) = LastOf(Scans)
    BY DEF Scan
  <1>3. Scans # {}
    BY <1>2 DEF LastOf
  <1>4. LastOf(Scans) \in Scans
    BY <1>1, <1>3, LastIn
  <1> QED BY <1>2, <1>4 DEF Listed

(***************************************************************************)
(* Every question of any plan is shown in each of its classes, be it as    *)
(* the alternative of another, if the plan is not edited meanwhile; only   *)
(* the manual question may be missing where the scan question is not asked.*)
(***************************************************************************)
THEOREM EveryQuestionShown == Spec => []NoQuestionLost
  <1>1. IInv => NoQuestionLost
    <2> SUFFICES ASSUME IInv, shown.outcome = "ok", quiet,
                        NEW q \in plan.questions, NEW k \in Classes, k \in q.classes,
                        ~WithoutScan(plan.questions, q, k)
                 PROVE  \E f \in shown.fields[k].credentials : q.slug \in {f.slug, f.alternative}
      BY DEF NoQuestionLost
    <2> DEFINE Q == plan.questions
               L == Listed(Q)
    <2>1. plan \in PlanSet
      BY DEF IInv
    <2>2. shown.fields[k].credentials = {Field(Q, r) : r \in {x \in L : k \in x.classes}}
      BY <2>1, ShownNow, ShownFields
    <2>3. CASE q \in L
      <3>1. Field(Q, q) \in shown.fields[k].credentials /\ Field(Q, q).slug = q.slug
        BY <2>1, <2>2, <2>3, ShownFields
      <3> QED BY <3>1
    <2>4. CASE q \notin L
      <3> DEFINE s == Scan(Q)
      <3>1. q = Manual(Q) /\ s # NoQuestion
        BY <2>4 DEF Listed
      <3>2. s # q /\ k \in s.classes
        BY <3>1 DEF WithoutScan
      <3>3. s \in L
        BY <2>1, <3>1, <3>2, ScanListed
      <3>4. Field(Q, s).alternative = q.slug
        BY <3>1 DEF Field
      <3>5. Field(Q, s) \in shown.fields[k].credentials
        BY <2>2, <3>2, <3>3
      <3> QED BY <3>4, <3>5
    <2> QED BY <2>3, <2>4
  <1> QED BY Invariant, <1>1, PTL

(***************************************************************************)
(* The consents of a class are finitely many, and a list that gives none   *)
(* twice is as long as its set.                                            *)
(***************************************************************************)
LEMMA AskedFinite ==
  ASSUME IInv, NEW a
  PROVE  IsFiniteSet(Asked(a))
  <1>1. Asked(a) \subseteq ConsentSlugs
    BY PlanTypes DEF IInv, Asked, Consent
  <1> QED BY <1>1, SlugsAssumption, FS_Subset

LEMMA InjectiveLength ==
  ASSUME NEW S, NEW s \in Seq(S), IsInjective(s)
  PROVE  IsFiniteSet(ToSet(s)) /\ Cardinality(ToSet(s)) = Len(s)
  <1> DEFINE N == 1 .. Len(s)
             T == ToSet(s)
  <1>1. DOMAIN s = N /\ Len(s) \in Nat /\ T = {s[i] : i \in N}
    BY DEF ToSet
  <1>2. s \in [N -> T] /\ (\A t \in T : \E i \in N : s[i] = t)
    BY <1>1
  <1>3. IsFiniteSet(N) /\ Cardinality(N) = Len(s)
    BY <1>1, FS_Interval
  <1>4. \A i, j \in N : s[i] = s[j] => i = j
    BY <1>1 DEF IsInjective
  <1> HIDE DEF T, N
  <1>5. ExistsBijection(N, T)
    BY <1>2, <1>4, Fun_IsBij DEF ExistsBijection
  <1> QED BY <1>3, <1>5, FS_Bijection DEF T

(***************************************************************************)
(* The consents of an accepted journey that gives none twice are those the *)
(* plan asks for: they are asked for and as many, and these are finitely   *)
(* many.                                                                   *)
(***************************************************************************)
THEOREM ConsentsAsAsked == Spec => []ConsentsAnswered
  <1>1. IInv => ConsentsAnswered
    <2> SUFFICES ASSUME IInv, verdict.outcome = "accepted",
                        verdict.of.journey \notin {"add", "trusted_add"},
                        IsInjective(verdict.of.consents)
                 PROVE  ToSet(verdict.of.consents) = Asked(verdict.of)
      BY DEF ConsentsAnswered
    <2> DEFINE a == verdict.of
    <2>1. NoVerdict.outcome # "accepted"
      BY DEF NoVerdict
    <2>2. a \in Attempts /\ Verdict(a) = "accepted"
      BY <2>1 DEF IInv, VerdictOK
    <2>3. ValidConsents(a)
      BY <2>2 DEF Verdict
    <2>4. IsFiniteSet(ToSet(a.consents)) /\ Cardinality(ToSet(a.consents)) = Len(a.consents)
      BY <2>2, AttemptFacts, InjectiveLength
    <2>5. IsFiniteSet(Asked(a))
      BY AskedFinite
    <2>6. ToSet(a.consents) \in SUBSET Asked(a) /\ Cardinality(ToSet(a.consents)) = Cardinality(Asked(a))
      BY <2>3, <2>4 DEF ValidConsents
    <2> HIDE DEF a
    <2> QED BY <2>5, <2>6, FS_Subset DEF a
  <1> QED BY Invariant, <1>1, PTL

-----------------------------------------------------------------------------
(***************************************************************************)
(* What a client that follows the fields posts: it answers in the classes  *)
(* of its journey, one of the add fields where only one may be given, all  *)
(* fields of a class elsewhere.                                            *)
(***************************************************************************)
Used(a) == AnsweredIn[a.journey] \ (IF a.journey = "authorise" THEN {"add"} ELSE {})
OneAddField(a, k) == k = "add" /\ a.journey \in {"add", "add_and_register"}

LEMMA Following ==
  ASSUME IInv, quiet, shown.outcome = "ok", SoundFacts(plan), NEW a \in Attempts, Follows(a)
  PROVE  /\ a.journey # "trusted_add" /\ Used(a) \subseteq Classes
         /\ IF a.journey = "add_and_authorise" THEN "auth" \in shown.journeys
            ELSE Used(a) \subseteq shown.journeys
         /\ \A k \in Classes \ Used(a) : a.answers[k] = <<>>
         /\ \A k \in Used(a) : \E F \in SUBSET ShownOf(plan, k) :
               /\ Chosen(F, a.answers[k])
               /\ IF OneAddField(a, k) THEN \E f : F = {f} ELSE F = ShownOf(plan, k)
         /\ IsInjective(a.consents)
         /\ ToSet(a.consents) = UNION {shown.fields[k].consents : k \in Used(a)}
  <1>1. Used(a) \subseteq Classes
    BY AttemptFacts, JourneysNamed DEF Used, Classes
  <1>2. \A k \in Used(a) : shown.fields[k].credentials = ShownOf(plan, k)
    BY <1>1, ShownNow
  <1>3. /\ a.journey # "trusted_add"
        /\ \A k \in Classes \ Used(a) : a.answers[k] = <<>>
        /\ IsInjective(a.consents)
        /\ ToSet(a.consents) = UNION {shown.fields[k].consents : k \in Used(a)}
    BY DEF Follows, Used
  <1>4. IF a.journey = "add_and_authorise" THEN "auth" \in shown.journeys
        ELSE Used(a) \subseteq shown.journeys
    BY DEF Follows, Used
  <1>5. ASSUME NEW k \in Used(a)
        PROVE  \E F \in SUBSET ShownOf(plan, k) :
                  /\ Chosen(F, a.answers[k])
                  /\ IF OneAddField(a, k) THEN \E f : F = {f} ELSE F = ShownOf(plan, k)
    <2>1. CASE OneAddField(a, k)
      <3>1. PICK f \in shown.fields[k].credentials : Chosen({f}, a.answers[k])
        BY <2>1 DEF Follows, Used, OneAddField
      <3>2. {f} \in SUBSET ShownOf(plan, k)
        BY <1>2
      <3> QED BY <2>1, <3>1, <3>2
    <2>2. CASE ~OneAddField(a, k)
      <3>1. Chosen(shown.fields[k].credentials, a.answers[k])
        BY <2>2 DEF Follows, Used, OneAddField
      <3> QED BY <1>2, <2>2, <3>1
    <2> QED BY <2>1, <2>2
  <1> QED BY <1>1, <1>3, <1>4, <1>5

(***************************************************************************)
(* The answer to one add field is that of one key question, or of its      *)
(* alternative, and of no other question of the class.                     *)
(***************************************************************************)
LEMMA OneAnswer ==
  ASSUME NEW p \in PlanSet, SoundFacts(p), NEW f \in ShownOf(p, "add"),
         NEW given \in Seq(Slugs), Chosen({f}, given)
  PROVE  \E y \in p.questions : KeyOf(y) /\ "add" \in y.classes /\ ToSet(given) = {y.slug}
  <1> DEFINE Q == p.questions
  <1>1. "add" \in Classes /\ {f} \in SUBSET ShownOf(p, "add")
    BY DEF Classes
  <1>2. ToSet(given) \subseteq Alternatives(f) /\ Len(given) = 1
    <2>1. ToSet(given) \subseteq UNION {Alternatives(g) : g \in {f}}
      BY <1>1, ChosenAnswers
    <2>2. Len(given) = 1
      BY FS_Singleton DEF Chosen
    <2> QED BY <2>1, <2>2
  <1>3. ToSet(given) = {given[1]} /\ given[1] \in Alternatives(f)
    <2>1. DOMAIN given = {1}
      BY <1>2
    <2> QED BY <1>2, <2>1 DEF ToSet
  <1>4. PICK q \in Listed(Q) :
          /\ "add" \in q.classes
          /\ \/ Alternatives(f) = {q.slug}
             \/ /\ Manual(Q) \in Q /\ Manual(Q).classes = {"add"} /\ KeyOf(Manual(Q))
                /\ Alternatives(f) = {q.slug, Manual(Q).slug}
    <2>1. \A k \in Classes : f \in ShownOf(p, k) =>
            \E q \in Listed(Q) :
               /\ k \in q.classes
               /\ \/ Alternatives(f) = {q.slug}
                  \/ /\ Manual(Q) \in Q /\ Manual(Q).classes = {"add"} /\ KeyOf(Manual(Q))
                     /\ Alternatives(f) = {q.slug, Manual(Q).slug}
      BY AnswersOf
    <2> QED BY <1>1, <2>1
  <1>5. q \in Q /\ KeyOf(q)
    BY <1>4 DEF SoundFacts
  <1>6. CASE given[1] = q.slug
    BY <1>3, <1>4, <1>5, <1>6
  <1>7. CASE given[1] # q.slug
    <2>1. given[1] = Manual(Q).slug /\ Manual(Q) \in Q /\ Manual(Q).classes = {"add"} /\ KeyOf(Manual(Q))
      BY <1>3, <1>4, <1>7
    <2> QED BY <1>3, <2>1
  <1> QED BY <1>6, <1>7

LEMMA KeyClasses ==
  ASSUME IInv, SoundFacts(plan), NEW a, NEW q \in KeyCredentials(a)
  PROVE  /\ q \in plan.questions /\ KeyOf(q)
         /\ \/ q.classes = {"add"} /\ q.slug \in ToSet(a.answers["add"])
            \/ q.classes = {"auth"} /\ q.slug \in ToSet(a.answers["auth"])
  <1>1. q \in plan.questions /\ KeyOf(q)
    BY DEF KeyCredentials, KeyOf
  <1>2. PICK k \in q.classes : q.slug \in ToSet(a.answers[k])
    BY DEF KeyCredentials
  <1>3. q.classes \in {{"add"}, {"auth"}}
    BY <1>1 DEF SoundFacts
  <1> QED BY <1>1, <1>2, <1>3

LEMMA KeyOfAnswer ==
  ASSUME NEW a, NEW k, NEW y \in plan.questions, KeyOf(y), k \in y.classes,
         y.slug \in ToSet(a.answers[k])
  PROVE  y \in KeyCredentials(a)
  BY DEF KeyCredentials, KeyOf

LEMMA OneKey ==
  ASSUME IInv, quiet, shown.outcome = "ok", SoundFacts(plan), NEW a \in Attempts, Follows(a),
         a.journey \in {"add", "add_and_authorise", "add_and_register"}
  PROVE  \E y : KeyCredentials(a) = {y}
  <1> DEFINE Q == plan.questions
             L == Listed(Q)
  <1>1. plan \in PlanSet
    BY DEF IInv
  <1>2. "add" \in Classes /\ "auth" \in Classes /\ ToSet(<<>>) = {}
    BY DEF Classes, ToSet
  <1>3. \A k \in Classes : a.answers[k] \in Seq(Slugs)
    BY AttemptFacts
  <1>4. "add" \in Used(a) /\ ("auth" \in Used(a) <=> a.journey = "add_and_authorise")
    BY JourneysNamed DEF Used
  <1>5. \A q, r \in Q : q.slug = r.slug => q = r
    BY <1>1, PlanTypes
  <1>6. ASSUME NEW y \in Q, KeyOf(y), "add" \in y.classes, ToSet(a.answers["add"]) = {y.slug},
               \A q \in KeyCredentials(a) : q.classes # {"auth"}
        PROVE  KeyCredentials(a) = {y}
    <2>1. y \in KeyCredentials(a)
      BY <1>6, KeyOfAnswer
    <2>2. \A q \in KeyCredentials(a) : q = y
      BY <1>5, <1>6, KeyClasses
    <2> QED BY <2>1, <2>2
  <1>7. CASE a.journey # "add_and_authorise"
    <2>1. PICK F \in SUBSET ShownOf(plan, "add") : Chosen(F, a.answers["add"]) /\ \E f : F = {f}
      BY <1>4, <1>7, Following DEF OneAddField
    <2>2. PICK f \in ShownOf(plan, "add") : Chosen({f}, a.answers["add"])
      BY <2>1
    <2>3. PICK y \in Q : KeyOf(y) /\ "add" \in y.classes /\ ToSet(a.answers["add"]) = {y.slug}
      BY <1>1, <1>2, <1>3, <2>2, OneAnswer
    <2>4. a.answers["auth"] = <<>>
      BY <1>2, <1>4, <1>7, Following
    <2>5. \A q \in KeyCredentials(a) : q.classes # {"auth"}
      BY <1>2, <2>4, KeyClasses
    <2> QED BY <1>6, <2>3, <2>5
  <1>8. CASE a.journey = "add_and_authorise"
    <2>1. PICK x \in L : KeyOf(x)
      BY DEF SoundFacts
    <2>2. x \in Q /\ x.classes \in {{"add"}, {"auth"}} /\ \A q \in L : KeyOf(q) => q = x
      BY <2>1 DEF SoundFacts
    <2>3. \A q \in Q \ L : q.classes = {"add"} /\ Scan(Q) = x /\ x.classes = {"add"}
      BY <2>2 DEF SoundFacts
    <2>4. /\ Chosen(ShownOf(plan, "add"), a.answers["add"])
          /\ Chosen(ShownOf(plan, "auth"), a.answers["auth"])
      BY <1>4, <1>8, Following DEF OneAddField
    <2>5. CASE x.classes = {"add"}
      <3>1. ShownOf(plan, "add") = {Field(Q, x)}
        <4>1. \A q \in L : "add" \in q.classes <=> q = x
          BY <2>1, <2>2, <2>5 DEF SoundFacts
        <4>2. {q \in L : "add" \in q.classes} = {x}
          BY <2>1, <4>1
        <4>3. ShownOf(plan, "add") = {Field(Q, q) : q \in {x}}
          BY <1>1, <1>2, <4>2, ShownFields
        <4> QED BY <4>3
      <3>2. Field(Q, x) \in ShownOf(plan, "add") /\ Chosen({Field(Q, x)}, a.answers["add"])
        BY <2>4, <3>1
      <3>3. PICK y \in Q : KeyOf(y) /\ "add" \in y.classes /\ ToSet(a.answers["add"]) = {y.slug}
        BY <1>1, <1>2, <1>3, <3>2, OneAnswer
      <3>4. \A q \in KeyCredentials(a) : q.classes # {"auth"}
        BY <2>2, <2>3, <2>5, KeyClasses
      <3> QED BY <1>6, <3>3, <3>4
    <2>6. CASE x.classes = {"auth"}
      <3>1. Q = L /\ \A q \in Q : KeyOf(q) => q = x
        BY <2>2, <2>3, <2>6 DEF SoundFacts
      <3>2. Field(Q, x) \in ShownOf(plan, "auth")
        <4>1. ShownOf(plan, "auth") = {Field(Q, q) : q \in {r \in L : "auth" \in r.classes}}
          BY <1>1, <1>2, ShownFields
        <4>2. x \in {r \in L : "auth" \in r.classes}
          BY <2>1, <2>6
        <4> HIDE DEF L
        <4> QED BY <4>1, <4>2
      <3>3. Alternatives(Field(Q, x)) = {x.slug}
        <4>1. Field(Q, x).slug = x.slug /\ x.slug # NoQuestion.slug
          BY <1>1, <1>2, <2>2, ShownFields
        <4>2. Field(Q, x).alternative = NoQuestion.slug
          BY <2>1, <3>1 DEF SoundFacts
        <4> QED BY <4>1, <4>2 DEF Alternatives
      <3>4. x.slug \in ToSet(a.answers["auth"])
        <4> DEFINE F == ShownOf(plan, "auth")
                   given == a.answers["auth"]
        <4>1. F \in SUBSET ShownOf(plan, "auth") /\ given \in Seq(Slugs) /\ Chosen(F, given)
          BY <1>2, <1>3, <2>4
        <4> HIDE DEF F, given
        <4>2. \A f \in F : ToSet(given) \cap Alternatives(f) # {}
          BY <1>1, <1>2, <4>1, ChosenAnswers
        <4> QED BY <3>2, <3>3, <4>2 DEF F, given
      <3>5. x \in KeyCredentials(a)
        BY <2>1, <2>2, <2>6, <3>4, KeyOfAnswer
      <3>6. \A q \in KeyCredentials(a) : q = x
        BY <3>1, KeyClasses
      <3> QED BY <3>5, <3>6
    <2> QED BY <2>2, <2>5, <2>6
  <1> QED BY <1>7, <1>8

(***************************************************************************)
(* What is known of a journey posted by a client that follows the fields.  *)
(***************************************************************************)
LEMMA FollowedFacts ==
  ASSUME IInv, Followed, Sound(plan)
  PROVE  /\ shown.outcome = "ok" /\ SoundFacts(plan) /\ verdict.of \in Attempts
         /\ Follows(verdict.of) /\ verdict.outcome = Verdict(verdict.of) /\ WellFormed(verdict.of)
  BY SoundPlan DEF IInv, VerdictOK, Followed

(***************************************************************************)
(* A client that follows the fields it was shown of a sound plan posts one *)
(* key credential, where one is needed to find the card.                   *)
(***************************************************************************)
THEOREM OneKeyPosted == Spec => []OneKeyIfFollowed
  <1>1. IInv => OneKeyIfFollowed
    <2> SUFFICES ASSUME IInv, Followed, quiet, Sound(plan),
                        verdict.of.journey \in {"add", "add_and_authorise", "add_and_register"}
                 PROVE  Cardinality(KeyCredentials(verdict.of)) = 1
      BY DEF OneKeyIfFollowed
    <2>1. PICK y : KeyCredentials(verdict.of) = {y}
      BY FollowedFacts, OneKey
    <2> QED BY <2>1, FS_Singleton
  <1> QED BY Invariant, <1>1, PTL

-----------------------------------------------------------------------------
(***************************************************************************)
(* Nothing such a client posts is refused: its answers, its consents and   *)
(* the authorise fields are those the handler looks for.                   *)
(***************************************************************************)
LEMMA ValidAnswers ==
  ASSUME IInv, quiet, shown.outcome = "ok", SoundFacts(plan), NEW a \in Attempts, Follows(a),
         NEW k \in Classes
  PROVE  ValidIn(a, k)
  <1> DEFINE Q == plan.questions
             L == Listed(Q)
             given == a.answers[k]
  <1> SUFFICES ASSUME given # <<>> PROVE ValidIn(a, k)
    BY DEF ValidIn
  <1>1. plan \in PlanSet /\ given \in Seq(Slugs)
    BY AttemptFacts DEF IInv
  <1>2. k \in Used(a)
    BY Following
  <1>3. PICK F \in SUBSET ShownOf(plan, k) :
          Chosen(F, given) /\ (~OneAddField(a, k) => F = ShownOf(plan, k))
    BY <1>2, Following
  <1> HIDE DEF given
  <1>4. /\ ToSet(given) \subseteq UNION {Alternatives(f) : f \in F} /\ IsInjective(given)
        /\ \A f \in F : ToSet(given) \cap Alternatives(f) # {}
    BY <1>1, <1>3, ChosenAnswers
  <1>5. ToSet(given) \subseteq SlugsOf(QuestionsOf(k))
    <2> SUFFICES ASSUME NEW s \in ToSet(given) PROVE s \in SlugsOf(QuestionsOf(k))
      OBVIOUS
    <2>1. PICK f \in ShownOf(plan, k) : s \in Alternatives(f)
      BY <1>3, <1>4
    <2>2. PICK q \in Listed(plan.questions) :
            /\ k \in q.classes
            /\ \/ Alternatives(f) = {q.slug}
               \/ /\ k = "add" /\ Manual(plan.questions) \in plan.questions \ Listed(plan.questions)
                  /\ Manual(plan.questions).classes = {"add"}
                  /\ Alternatives(f) = {q.slug, Manual(plan.questions).slug}
      BY <1>1, AnswersOf
    <2>3. q \in QuestionsOf(k)
      BY <2>2 DEF SoundFacts, QuestionsOf
    <2>4. CASE s = q.slug
      BY <2>3, <2>4 DEF SlugsOf
    <2>5. CASE s # q.slug
      <3>1. s = Manual(plan.questions).slug /\ Manual(plan.questions) \in QuestionsOf(k)
        BY <2>1, <2>2, <2>5 DEF QuestionsOf
      <3> QED BY <3>1 DEF SlugsOf
    <2> QED BY <2>4, <2>5
  <1>6. ASSUME RequireAll(a, k), NEW q \in Required(k)
        PROVE  q.slug \in ToSet(given)
    <2>1. k # "add" /\ q \in Q /\ k \in q.classes
      BY <1>6 DEF RequireAll, Required, QuestionsOf
    <2>2. q \in L
      BY <2>1 DEF SoundFacts
    <2>3. Field(Q, q) \in F
      <3>1. F = {Field(Q, r) : r \in {x \in L : k \in x.classes}}
        BY <1>1, <1>3, <2>1, ShownFields DEF OneAddField
      <3> HIDE DEF L, Q
      <3> QED BY <2>1, <2>2, <3>1
    <2>4. Field(Q, q).slug = q.slug
      BY <1>1, ShownFields
    <2> DEFINE f == Field(Q, q)
    <2>5. f \in ShownOf(plan, k)
      BY <2>3
    <2> HIDE DEF f, Q, L
    <2>6. PICK r \in Listed(plan.questions) : f.slug = r.slug /\ Alternatives(f) = {r.slug}
      BY <1>1, <2>1, <2>5, AnswersOf
    <2> QED BY <1>4, <2>3, <2>4, <2>6 DEF f
  <1> QED BY <1>4, <1>5, <1>6 DEF ValidIn, SlugsOf, given

LEMMA ConsentsGiven ==
  ASSUME IInv, quiet, shown.outcome = "ok", SoundFacts(plan), NEW a \in Attempts, Follows(a),
         a.journey # "add"
  PROVE  ValidConsents(a)
  <1>1. /\ ConsentClass(a) \in Used(a) /\ Used(a) \subseteq {"add", ConsentClass(a)}
        /\ ConsentClass(a) \in Classes /\ "add" \in Classes
    BY AttemptFacts, JourneysNamed, Following DEF Used, ConsentClass, Classes
  <1>2. shown.fields["add"].consents = {}
    <2>1. shown.fields["add"].consents = {c.slug : c \in {d \in plan.consents : "add" \in d.classes}}
      BY <1>1, ShownNow
    <2> QED BY <2>1 DEF SoundFacts
  <1>3. shown.fields[ConsentClass(a)].consents = Asked(a)
    BY <1>1, ShownNow DEF Asked
  <1>4. ToSet(a.consents) = Asked(a)
    <2>1. ToSet(a.consents) = UNION {shown.fields[k].consents : k \in Used(a)}
      BY Following
    <2> QED BY <1>1, <1>2, <1>3, <2>1
  <1>5. Cardinality(ToSet(a.consents)) = Len(a.consents)
    BY AttemptFacts, Following, InjectiveLength
  <1> QED BY <1>4, <1>5 DEF ValidConsents

LEMMA AuthoriseGiven ==
  ASSUME IInv, quiet, shown.outcome = "ok", SoundFacts(plan), NEW a \in Attempts, Follows(a),
         a.journey = "add_and_authorise", plan.authorisationRequired
  PROVE  a.answers["auth"] # <<>>
  <1> DEFINE Q == plan.questions
             L == Listed(Q)
  <1>1. "auth" \in Classes /\ plan \in PlanSet /\ "auth" \in Used(a)
    BY JourneysNamed DEF IInv, Classes, Used
  <1>2. "auth" \in shown.journeys
    BY Following
  <1>3. \/ ShownOf(plan, "auth") # {} \/ "auth" \in plan.docs
        \/ {d \in plan.consents : "auth" \in d.classes} # {}
    BY <1>2, ShownNow
  <1>4. ShownOf(plan, "auth") = {Field(Q, r) : r \in {x \in L : "auth" \in x.classes}}
    BY <1>1, ShownFields
  <1>5. PICK q \in Q : "auth" \in q.classes
    <2>1. CASE ShownOf(plan, "auth") # {}
      <3>1. {x \in L : "auth" \in x.classes} # {}
        BY <1>4, <2>1
      <3>2. L \subseteq Q
        BY DEF SoundFacts
      <3> QED BY <3>1, <3>2
    <2>2. CASE "auth" \in plan.docs
      BY <2>2 DEF SoundFacts
    <2>3. CASE {d \in plan.consents : "auth" \in d.classes} # {}
      BY <2>3 DEF SoundFacts
    <2> QED BY <1>3, <2>1, <2>2, <2>3
  <1>6. q \in L
    BY <1>5 DEF SoundFacts
  <1> DEFINE f == Field(Q, q)
             F == ShownOf(plan, "auth")
             given == a.answers["auth"]
  <1>7. f \in F
    <2> HIDE DEF L, Q
    <2> QED BY <1>4, <1>5, <1>6
  <1>8. F \in SUBSET ShownOf(plan, "auth") /\ given \in Seq(Slugs) /\ Chosen(F, given)
    BY <1>1, Following, AttemptFacts DEF OneAddField
  <1> HIDE DEF f, F, given
  <1>9. ToSet(given) \cap Alternatives(f) # {}
    BY <1>1, <1>7, <1>8, ChosenAnswers
  <1>10. ToSet(<<>>) = {}
    BY DEF ToSet
  <1> QED BY <1>9, <1>10 DEF given

(***************************************************************************)
(* A client that answers the fields it was shown, for a journey the plan   *)
(* offers, is not refused, if the plan is sound and active and was not     *)
(* edited meanwhile: whatever questions, documents and consents it has.    *)
(***************************************************************************)
THEOREM FollowedAccepted == Spec => []FollowedListAccepted
  <1>1. IInv => FollowedListAccepted
    <2> SUFFICES ASSUME IInv, Followed, quiet, Sound(plan), plan.status = "ACTIVE"
                 PROVE  verdict.outcome = "accepted"
      BY DEF FollowedListAccepted
    <2> DEFINE a == verdict.of
    <2>1. /\ shown.outcome = "ok" /\ SoundFacts(plan) /\ a \in Attempts /\ Follows(a)
          /\ verdict.outcome = Verdict(a)
      BY FollowedFacts
    <2> HIDE DEF a
    <2>2. plan.questions # {}
      BY <2>1 DEF SoundFacts
    <2>3. \A k \in Classes : ValidIn(a, k)
      BY <2>1, ValidAnswers
    <2>4. a.journey # "trusted_add" /\ a.journey \in JourneyNames
      BY <2>1, Following, AttemptFacts
    <2>5. a.journey \notin {"authorise", "register", "join"} => KeyCredentials(a) # {}
      BY <2>1, <2>4, OneKey, JourneysNamed
    <2>6. a.journey \notin {"add", "trusted_add"} => ValidConsents(a)
      BY <2>1, ConsentsGiven
    <2>7. a.journey = "add_and_authorise" /\ plan.authorisationRequired => a.answers["auth"] # <<>>
      BY <2>1, AuthoriseGiven
    <2>8. Verdict(a) = "accepted"
      BY <2>2, <2>3, <2>4, <2>5, <2>6, <2>7 DEF Verdict
    <2> QED BY <2>1, <2>8
  <1> QED BY Invariant, <1>1, PTL

=============================================================================
