CONSTANTS
    PlanSet <- MCPlanSet
    Slugs = {"card_number", "barcode", "password", "phone"}
    ConsentSlugs = {"news", "terms"}
    MaxAnswers = 2
    MaxChanges = 1
SPECIFICATION Spec
INVARIANTS
    TypeOK
    FollowedListAccepted
    OneKeyIfFollowed
    NoQuestionLost
    ListRefusedOnlyIfChanged
    ConsentsAnswered
CHECK_DEADLOCK FALSE
