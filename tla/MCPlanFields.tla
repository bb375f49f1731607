---------------------------- MODULE MCPlanFields ----------------------------
(***************************************************************************)
(* PlanFields with plans of the kinds the channels have: a card found by   *)
(* number or barcode, by an add field only, by an authorise field only,    *)
(* one whose two key questions belong to the authorise class, one with a   *)
(* key question in each class and one with both in a single question.      *)
(***************************************************************************)
EXTENDS PlanFields

Q(slug, order, classes, key) ==
    [slug |-> slug, order |-> order, classes |-> classes, key |-> key,
     optional |-> FALSE, thirdParty |-> FALSE]
Optional(q) == [q EXCEPT !.optional = TRUE]
Merchant == [Q(MERCHANT_IDENTIFIER, 9, {}, {}) EXCEPT !.thirdParty = TRUE]
C(slug, classes) == [slug |-> slug, classes |-> classes]

Number(classes) == Q("card_number", 1, classes, {"manual"})
Barcode(classes) == Q("barcode", 2, classes, {"scan"})
Password == Q("password", 3, {"auth", "join"}, {})
Phone == Optional(Q("phone", 4, {"register", "join"}, {}))

Plan(questions, consents, docs, required) ==
    [questions |-> questions, consents |-> consents, docs |-> docs, status |-> "ACTIVE",
     authorisationRequired |-> required]

Scanned == Plan({Number({"add"}), Barcode({"add"}), Password, Phone, Merchant},
                {C("news", {"join", "auth"}), C("terms", {"join"})}, {"join"}, TRUE)
Linked == Plan({Q("card_number", 1, {"add"}, {"link"}), Q("password", 3, {"register"}, {}), Phone},
               {C("terms", {"register"})}, {}, FALSE)
ByAuth == Plan({Q("barcode", 1, {"auth"}, {"link"}), Password}, {}, {}, TRUE)
TwoInAuth == Plan({Number({"auth"}), Barcode({"auth"})}, {}, {}, TRUE)
Apart == Plan({Number({"add", "join"}), Barcode({"auth"}), Password}, {}, {}, TRUE)
InOne == Plan({Q("card_number", 1, {"add"}, {"manual", "scan"}), Password}, {}, {}, TRUE)

MCPlanSet ==
    {Scanned, Linked, ByAuth, TwoInAuth, Apart, InOne}
        \cup {[p EXCEPT !.status = s] : p \in {Scanned, Linked}, s \in {"SUSPENDED", "INACTIVE"}}
=============================================================================
