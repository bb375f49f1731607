------------------------- MODULE LoyaltyCardStatus -------------------------
(***************************************************************************)
(* angelia/lib/loyalty_card.py: the status codes a wallet entry            *)
(* (scheme_schemeaccountuserassociation.link_status) can carry, and the    *)
(* classes of them that the handlers branch on.                            *)
(***************************************************************************)
EXTENDS Integers

PENDING == 0
ACTIVE == 1
WALLET_ONLY == 10
PRE_REGISTERED_CARD == 406
CARD_NOT_REGISTERED == 438
JOIN_IN_PROGRESS == 441
JOIN_ASYNC_IN_PROGRESS == 442
REGISTRATION_ASYNC_IN_PROGRESS == 443
ACCOUNT_ALREADY_EXISTS == 445
UNKNOWN_ERROR == 520
JOIN_ERROR == 538
JOIN == 900
ENROL_FAILED == 901
REGISTRATION_FAILED == 902
JOIN_WEAK_PASSWORD == 905
ADD_AUTH_PENDING == 1001
AUTH_PENDING == 2001

(***************************************************************************)
(* The codes no handler compares with: they only reach the catch-all       *)
(* branches, and Hermes is free to set any of them.                        *)
(***************************************************************************)
OtherStatuses ==
    {5, 9, 204, 401, 403, 404, 429, 432, 434, 436, 437, 439, 444, 446, 447,
     503, 530, 531, 532, 533, 535, 536, 537}

AUTH_IN_PROGRESS == {PENDING, ADD_AUTH_PENDING, AUTH_PENDING}
REGISTRATION_IN_PROGRESS == {PENDING, REGISTRATION_ASYNC_IN_PROGRESS}
REGISTRATION_FAILED_STATES == {UNKNOWN_ERROR, REGISTRATION_FAILED}
JOIN_PENDING_STATES == {JOIN_IN_PROGRESS, JOIN_ASYNC_IN_PROGRESS}
JOIN_FAILED_STATES == {JOIN_ERROR, ENROL_FAILED, JOIN_WEAK_PASSWORD}
FAILED_JOIN_STATUS ==
    {UNKNOWN_ERROR, CARD_NOT_REGISTERED, JOIN, ACCOUNT_ALREADY_EXISTS}
        \cup JOIN_FAILED_STATES

Statuses ==
    {ACTIVE, WALLET_ONLY, PRE_REGISTERED_CARD} \cup AUTH_IN_PROGRESS
        \cup REGISTRATION_IN_PROGRESS \cup REGISTRATION_FAILED_STATES
        \cup JOIN_PENDING_STATES \cup FAILED_JOIN_STATUS \cup OtherStatuses

(***************************************************************************)
(* What a code is to the API's clients (STATUS_MAPPING).  A dependant code *)
(* is shown as authorised or pending, whichever the entry was before.      *)
(***************************************************************************)
JOIN_STATES == JOIN_PENDING_STATES \cup {JOIN} \cup JOIN_FAILED_STATES

Api2State(s) ==
    CASE s = ACTIVE -> "authorised"
      [] s \in {PENDING, ADD_AUTH_PENDING, AUTH_PENDING, WALLET_ONLY, 204,
                JOIN_IN_PROGRESS, JOIN_ASYNC_IN_PROGRESS,
                REGISTRATION_ASYNC_IN_PROGRESS} -> "pending"
      [] s \in {5, 401, 403, 432, 434, 436, 439, 444, 446, 447, 533,
                JOIN_WEAK_PASSWORD} -> "unauthorised"
      [] s \in {PRE_REGISTERED_CARD, CARD_NOT_REGISTERED, ACCOUNT_ALREADY_EXISTS,
                JOIN, ENROL_FAILED, REGISTRATION_FAILED} -> "failed"
      [] s \in {9, 404, 429, 437, 503, UNKNOWN_ERROR, 530, 531, 532, 535, 536,
                537, JOIN_ERROR} -> "dependant"
=============================================================================
