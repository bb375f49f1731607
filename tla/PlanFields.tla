----------------------------- MODULE PlanFields -----------------------------
(***************************************************************************)
(* The fields of a loyalty plan: the questions, documents and consents a   *)
(* client is told to answer (handlers/loyalty_plan.py, get_plan,           *)
(* get_all_plans and get_journey_fields), and what becomes of the answers  *)
(* it then posts (LoyaltyCardHandler, from the request schemas to          *)
(* validate_all_credentials and validate_and_refactor_consents).           *)
(*                                                                         *)
(* A client reads the fields of the plan and starts one journey; between   *)
(* the statements of either request the plan may be edited.  The values of *)
(* the answers are left out: what counts is which question they answer.    *)
(***************************************************************************)
EXTENDS Naturals, Sequences, FiniteSets, SequencesExt

CONSTANTS
    PlanSet,      \* the forms the plan may take
    Slugs,        \* the slugs of questions
    ConsentSlugs, \* and of consents
    MaxAnswers,   \* bound: answers a client gives in one class
    MaxChanges    \* bound: edits of the plan

Classes == {"add", "auth", "register", "join"}
Statuses == {"ACTIVE", "SUSPENDED", "INACTIVE"}
MERCHANT_IDENTIFIER == "merchant_identifier"

(***************************************************************************)
(* A question is asked in some classes, in an order among those of the     *)
(* plan, and may be one that finds the card: the manual question, the one  *)
(* that is scanned, or the one question that links.                        *)
(***************************************************************************)
Question ==
    [slug : Slugs \cup {MERCHANT_IDENTIFIER}, order : Nat, classes : SUBSET Classes,
     key : SUBSET {"manual", "scan", "link"}, optional : BOOLEAN, thirdParty : BOOLEAN]
Consent == [slug : ConsentSlugs, classes : SUBSET Classes]

ASSUME PlanAssumption ==
    \A p \in PlanSet :
        /\ p.status \in Statuses
        /\ p.questions \subseteq Question /\ IsFiniteSet(p.questions)
        /\ \A q, r \in p.questions : q # r => q.slug # r.slug /\ q.order # r.order
        /\ Cardinality({q \in p.questions : q.thirdParty}) <= 1
        /\ p.consents \subseteq Consent
        /\ p.docs \subseteq Classes  \* the classes a document is displayed in
        /\ p.authorisationRequired \in BOOLEAN
ASSUME BoundsAssumption == MaxAnswers \in Nat /\ MaxChanges \in Nat

VARIABLES
    plan,     \* the plan as stored
    req,      \* the request being answered
    shown,    \* the fields the client was shown
    verdict,  \* what became of its journey
    changes   \* how often the plan was edited

vars == <<plan, req, shown, verdict, changes>>

Idle == [pc |-> "idle"]
NotShown == [outcome |-> "none"]
NoVerdict == [outcome |-> "none"]
NoQuestion == [slug |-> "none"]
ASSUME SlugsAssumption == NoQuestion.slug \notin Slugs /\ IsFiniteSet(ConsentSlugs)

Init ==
    /\ plan \in PlanSet
    /\ req = Idle
    /\ shown = NotShown
    /\ verdict = NoVerdict
    /\ changes = 0

(***************************************************************************)
(* Someone edits the plan, or its status in the channel.                   *)
(***************************************************************************)
Edit ==
    /\ changes < MaxChanges /\ verdict = NoVerdict
    /\ plan' \in PlanSet \ {plan}
    /\ changes' = changes + 1
    /\ UNCHANGED <<req, shown, verdict>>

(***************************************************************************)
(* The fields.  Of several manual or scan questions the last one counts.   *)
(* A manual question is only shown as the alternative of the scan question.*)
(***************************************************************************)
LastOf(S) ==
    IF S = {} THEN NoQuestion ELSE CHOOSE q \in S : \A r \in S : r.order <= q.order

Manual(questions) == LastOf({q \in questions : "manual" \in q.key})
Scan(questions) == LastOf({q \in questions : "scan" \in q.key})

\* Mutant: with the manual question still in the list.
ListedAll(questions) == questions

Listed(questions) ==
    IF Scan(questions) = NoQuestion THEN questions ELSE questions \ {Manual(questions)}

\* Mutant: without the alternative.
FieldAlone(questions, q) ==
    [slug |-> q.slug, optional |-> q.optional, alternative |-> NoQuestion.slug]

Field(questions, q) ==
    [slug |-> q.slug, optional |-> q.optional,
     alternative |-> IF q = Scan(questions) THEN Manual(questions).slug ELSE NoQuestion.slug]

Fields(questions, docs, consents) ==
    [k \in Classes |->
        [credentials |-> {Field(questions, q) : q \in {r \in Listed(questions) : k \in r.classes}},
         documents |-> k \in docs,
         consents |-> {c.slug : c \in {d \in consents : k \in d.classes}}]]

Empty(f) == f.credentials = {} /\ ~f.documents /\ f.consents = {}

\* The journeys of the plan's features.
Journeys(fields, authorisationRequired) ==
    {k \in Classes :
        \/ ~Empty(fields[k])
        \/ k = "auth" /\ ~authorisationRequired /\ ~Empty(fields["add"])}

(***************************************************************************)
(* Reading them.  "plan" and "plans" take the plan with its questions,     *)
(* then its documents and consents; a plan without documents is looked up  *)
(* again by get_journey_fields, which "fields" calls at once.              *)
(***************************************************************************)
Reads == {"plan", "plans", "fields"}

\* Mutant: with the flag the other way round.
OfferedSwapped(showSuspended) ==
    /\ plan.questions # {}
    /\ plan.status \in {"ACTIVE"} \cup (IF showSuspended THEN {} ELSE {"SUSPENDED"})

\* The list is of active plans, everything about one plan of suspended ones too.
Offered(showSuspended) ==
    /\ plan.questions # {}
    /\ plan.status \in {"ACTIVE"} \cup (IF showSuspended THEN {"SUSPENDED"} ELSE {})

\* Mutant: with the fields alone taken from no plan.
ReceiveNoPlan ==
    /\ req = Idle /\ shown = NotShown
    /\ \E op \in Reads :
        req' = [pc |-> IF op = "fields" THEN "consents" ELSE "questions", op |-> op,
                questions |-> {}, docs |-> {}, consents |-> {}, authorisation |-> TRUE]
    /\ UNCHANGED <<plan, shown, verdict, changes>>

Receive ==
    /\ req = Idle /\ shown = NotShown
    /\ \E op \in Reads :
        req' = [pc |-> IF op = "fields" THEN "look up" ELSE "questions", op |-> op,
                questions |-> {}, docs |-> {}, consents |-> {}, authorisation |-> TRUE]
    /\ UNCHANGED <<plan, shown, verdict, changes>>

Show(outcome, fields, journeys) ==
    /\ shown' = [outcome |-> outcome, op |-> req.op, fields |-> fields, journeys |-> journeys]
    /\ req' = Idle

NoFields == [k \in Classes |-> [credentials |-> {}, documents |-> FALSE, consents |-> {}]]
Nowhere(outcome) == Show(outcome, NoFields, {})

Goto(r, pc) == req' = [r EXCEPT !.pc = pc]

FetchQuestions ==
    /\ req.pc = "questions"
    /\ \/ /\ ~Offered(req.op = "plan")
          /\ Nowhere(IF req.op = "plans" THEN "not listed" ELSE "not found")
       \/ /\ Offered(req.op = "plan")
          /\ Goto([req EXCEPT !.questions = plan.questions,
                              !.authorisation = plan.authorisationRequired], "info")
          /\ UNCHANGED shown
    /\ UNCHANGED <<plan, verdict, changes>>

FetchInfo ==
    /\ req.pc = "info"
    /\ Goto([req EXCEPT !.docs = plan.docs], "consents")
    /\ UNCHANGED <<plan, shown, verdict, changes>>

FetchConsents ==
    /\ req.pc = "consents"
    /\ Goto([req EXCEPT !.consents = plan.consents],
            IF req.op = "fields" \/ req.docs # {} THEN "format" ELSE "look up")
    /\ UNCHANGED <<plan, shown, verdict, changes>>

LookUp ==
    /\ req.pc = "look up"
    /\ \/ ~Offered(TRUE) /\ Nowhere("not found")
       \/ /\ Offered(TRUE)
          /\ Goto([req EXCEPT !.questions = plan.questions, !.docs = plan.docs],
                  IF req.op = "fields" THEN "consents" ELSE "format")
          /\ UNCHANGED shown
    /\ UNCHANGED <<plan, verdict, changes>>

Format ==
    /\ req.pc = "format"
    /\ LET fields == Fields(req.questions, req.docs, req.consents)
       IN  Show("ok", fields,
                IF req.op = "fields" THEN {} ELSE Journeys(fields, req.authorisation))
    /\ UNCHANGED <<plan, verdict, changes>>

(***************************************************************************)
(* A journey: the answers in each class, the consents given, and whether   *)
(* the merchant's identifier is.  Fields left out count as empty ones.     *)
(***************************************************************************)
AnsweredIn ==
    [add |-> {"add"}, trusted_add |-> {"add", "auth"},
     add_and_authorise |-> {"add", "auth"}, authorise |-> {"add", "auth"},
     add_and_register |-> {"add", "register"}, register |-> {"register"},
     join |-> {"join"}]
JourneyNames == DOMAIN AnsweredIn

\* The schemas of the requests, as far as they count fields.
WellFormed(a) ==
    CASE a.journey = "add" -> Len(a.answers["add"]) = 1 /\ a.consents = <<>>
      [] a.journey = "trusted_add" ->
            Len(a.answers["add"]) + Len(a.answers["auth"]) = 1
      [] a.journey = "add_and_register" -> Len(a.answers["add"]) = 1
      [] OTHER -> TRUE

QuestionsOf(k) == {q \in plan.questions : k \in q.classes}
SlugsOf(S) == {q.slug : q \in S}
Required(k) ==
    {q \in QuestionsOf(k) : ~(k \in {"register", "join"} /\ q.optional)}

(***************************************************************************)
(* The answers of one class.  Where all questions must be answered each    *)
(* answer strikes its question out, and a second one finds none.  A class  *)
(* without answers is not looked at.                                       *)
(***************************************************************************)
RequireAll(a, k) == k # "add" /\ ~(k = "auth" /\ a.journey = "trusted_add")

ValidIn(a, k) ==
    LET given == a.answers[k]
    IN  given # <<>> =>
            /\ ToSet(given) \subseteq SlugsOf(QuestionsOf(k))
            /\ RequireAll(a, k) =>
                  IsInjective(given) /\ SlugsOf(Required(k)) \subseteq ToSet(given)

KeyCredentials(a) ==
    {q \in plan.questions :
        q.key # {} /\ \E k \in q.classes : q.slug \in ToSet(a.answers[k])}

\* Mutant: with the authorise fields forgotten in one journey.
ConsentClassAdd(a) ==
    CASE a.journey \in {"add_and_register", "register"} -> "register"
      [] a.journey = "authorise" -> "auth"
      [] a.journey = "join" -> "join"
      [] OTHER -> "add"

\* The consents of the class the journey is named for.
ConsentClass(a) ==
    CASE a.journey \in {"add_and_register", "register"} -> "register"
      [] a.journey \in {"authorise", "add_and_authorise"} -> "auth"
      [] a.journey = "join" -> "join"
      [] OTHER -> "add"

Asked(a) == {c.slug : c \in {d \in plan.consents : ConsentClass(a) \in d.classes}}

\* Mutant: with the consents only counted.
ValidConsentsCounted(a) == Len(a.consents) = Cardinality(Asked(a))

ValidConsents(a) ==
    ToSet(a.consents) \subseteq Asked(a) /\ Len(a.consents) = Cardinality(Asked(a))

Verdict(a) ==
    LET thirdParty == {q \in plan.questions : q.thirdParty}
        merchant == a.journey = "trusted_add"
    IN  CASE plan.status # "ACTIVE" \/ plan.questions = {} -> "refused"
          [] \E k \in Classes : ~ValidIn(a, k) -> "refused"
          [] merchant /\ thirdParty = {} -> "error"
          [] merchant /\ MERCHANT_IDENTIFIER \notin SlugsOf(thirdParty) -> "refused"
          [] KeyCredentials(a) = {} /\ a.journey \notin {"authorise", "register", "join"} -> "refused"
          [] a.journey \notin {"add", "trusted_add"} /\ ~ValidConsents(a) -> "refused"
          [] /\ a.journey = "add_and_authorise" /\ plan.authorisationRequired
             /\ a.answers["add"] # <<>> /\ a.answers["auth"] = <<>> -> "refused"
          [] OTHER -> "accepted"

UpTo(S, n) == UNION {[1 .. i -> S] : i \in 0 .. n}

Post ==
    /\ req = Idle /\ verdict = NoVerdict
    /\ \E j \in JourneyNames, consents \in UpTo(ConsentSlugs, Cardinality(ConsentSlugs)) :
        \E answers \in [AnsweredIn[j] -> UpTo(Slugs, MaxAnswers)] :
            LET a == [journey |-> j, consents |-> consents,
                      answers |-> [k \in Classes |-> IF k \in AnsweredIn[j] THEN answers[k] ELSE <<>>]]
            IN  /\ WellFormed(a)
                /\ verdict' = [outcome |-> Verdict(a), of |-> a]
    /\ UNCHANGED <<plan, req, shown, changes>>

Next ==
    \/ Edit \/ Receive \/ FetchQuestions \/ FetchInfo \/ FetchConsents
    \/ LookUp \/ Format \/ Post

Spec == Init /\ [][Next]_vars
-----------------------------------------------------------------------------
CredentialField ==
    [slug : Slugs \cup {MERCHANT_IDENTIFIER}, optional : BOOLEAN,
     alternative : Slugs \cup {MERCHANT_IDENTIFIER, NoQuestion.slug}]

TypeOK ==
    /\ plan \in PlanSet
    /\ req.pc \in {"idle", "questions", "info", "consents", "look up", "format"}
    /\ req # Idle => req.op \in Reads /\ req.docs \subseteq Classes
    /\ req.pc = "format" => req.questions # {}
    /\ shown.outcome \in {"none", "ok", "not found", "not listed"}
    /\ shown # NotShown =>
         \A k \in Classes : shown.fields[k].credentials \subseteq CredentialField
    /\ verdict.outcome \in {"none", "accepted", "refused", "error"}
    /\ changes \in 0 .. MaxChanges

quiet == changes = 0

(***************************************************************************)
(* A plan as its owners mean it to be: one question finds the card, alone  *)
(* or as a manual and a scan question of the same class, which is the add  *)
(* class; every other question of that class is one of these; consents and *)
(* documents belong to classes that ask something, and no consent is asked *)
(* for with the add fields.                                                *)
(***************************************************************************)
Sound(p) ==
    LET keys == {q \in p.questions : q.key # {}}
        pair == \E q, r \in keys : q.key = {"manual"} /\ r.key = {"scan"} /\ keys = {q, r}
                                  /\ q.classes = {"add"} /\ r.classes = {"add"}
        single == Cardinality(keys) = 1 /\ \A q \in keys :
                     Cardinality(q.key) = 1 /\ q.classes \in {{"add"}, {"auth"}}
    IN  /\ pair \/ single
        /\ \A q \in p.questions : "add" \in q.classes => q.key # {}
        /\ \A k \in p.docs \cup UNION {c.classes : c \in p.consents} :
              k # "add" /\ \E q \in p.questions : k \in q.classes

\* The client answered with one slug for each field it was shown.
Chosen(fields, given) ==
    /\ Len(given) = Cardinality(fields)
    /\ \A f \in fields : \E i \in DOMAIN given : given[i] \in {f.slug, f.alternative}

\* A journey the features offer, with one add field where one is asked for.
Follows(a) ==
    LET shownIn(k) == shown.fields[k].credentials
        one == a.journey \in {"add", "add_and_register"}
        used == AnsweredIn[a.journey] \ (IF a.journey = "authorise" THEN {"add"} ELSE {})
    IN  /\ CASE a.journey = "add_and_authorise" -> {"auth"} \subseteq shown.journeys
              [] OTHER -> used \subseteq shown.journeys
        /\ a.journey # "trusted_add"
        /\ \A k \in Classes \ used : a.answers[k] = <<>>
        /\ \A k \in used :
              IF one /\ k = "add" THEN \E f \in shownIn(k) : Chosen({f}, a.answers[k])
              ELSE Chosen(shownIn(k), a.answers[k])
        /\ IsInjective(a.consents)
        /\ ToSet(a.consents) = UNION {shown.fields[k].consents : k \in used}

Followed == shown.outcome = "ok" /\ verdict # NoVerdict /\ Follows(verdict.of)

(***************************************************************************)
(* A client that answers the fields it was shown for a journey the plan    *)
(* offers is not refused, if the plan is sound, active and not edited      *)
(* meanwhile.  What is shown and what is accepted are worked out by two    *)
(* handlers from the same rows.                                            *)
(***************************************************************************)
FollowedListAccepted ==
    Followed /\ quiet /\ Sound(plan) /\ plan.status = "ACTIVE" => verdict.outcome = "accepted"

(***************************************************************************)
(* There is one key credential ("There should only be one (this is checked *)
(* later)", _check_answer_has_matching_question) in what such a client     *)
(* posts: the two questions that find a card are shown as alternatives,    *)
(* and nothing in the code checks it.                                      *)
(***************************************************************************)
OneKeyIfFollowed ==
    ( /\ Followed /\ quiet /\ Sound(plan) /\ verdict.outcome = "accepted"
      /\ verdict.of.journey \in {"add", "add_and_authorise", "add_and_register"} )
        => Cardinality(KeyCredentials(verdict.of)) = 1

(***************************************************************************)
(* Every question of a plan, sound or not, is shown in each of its         *)
(* classes, if only as an alternative (_categorise_creds_by_class takes    *)
(* the manual question away, _credentials_to_dict brings it back).  The    *)
(* one exception is the manual question in a class in which the scan       *)
(* question is not asked, or when it is the scan question itself.          *)
(***************************************************************************)
WithoutScan(questions, q, k) ==
    LET scan == Scan(questions)
    IN  q = Manual(questions) /\ scan # NoQuestion /\ (q = scan \/ k \notin scan.classes)

NoQuestionLost ==
    shown.outcome = "ok" /\ quiet =>
        \A q \in plan.questions, k \in Classes : k \in q.classes =>
            \/ \E f \in shown.fields[k].credentials : q.slug \in {f.slug, f.alternative}
            \/ WithoutScan(plan.questions, q, k)

(***************************************************************************)
(* The list of plans is not answered with 404, unless a plan was edited    *)
(* while it was put together: a plan without documents is looked up again, *)
(* and if it is gone by then there is no list at all.                      *)
(***************************************************************************)
ListRefusedOnlyIfChanged ==
    shown.outcome = "not found" /\ shown.op = "plans" => ~quiet

(***************************************************************************)
(* An accepted journey that gives no consent twice gives those the plan    *)
(* asks for and no other ("Checks necessary consents are present, and that *)
(* present consents are necessary", validate_and_refactor_consents, which  *)
(* only counts them).                                                      *)
(***************************************************************************)
ConsentsAnswered ==
    ( /\ verdict.outcome = "accepted" /\ verdict.of.journey \notin {"add", "trusted_add"}
      /\ IsInjective(verdict.of.consents) )
        => ToSet(verdict.of.consents) = Asked(verdict.of)

(***************************************************************************)
(* An accepted registration or join answers every question the plan        *)
(* requires for it ("No need to relate this to with journey type - this is *)
(* done in request validation", validate_all_credentials).                 *)
(***************************************************************************)
RequiredAnswered ==
    verdict.outcome = "accepted" /\ verdict.of.journey \in {"add_and_register", "register", "join"} =>
        LET k == ConsentClass(verdict.of)
        IN  SlugsOf(Required(k)) \subseteq ToSet(verdict.of.answers[k])
=============================================================================
