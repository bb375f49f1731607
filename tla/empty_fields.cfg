CONSTANTS
    PlanSet <- MCPlanSet
    Slugs = {"card_number", "barcode", "password", "phone"}
    ConsentSlugs = {"news", "terms"}
    MaxAnswers = 2
    MaxChanges = 1
SPECIFICATION Spec
INVARIANT RequiredAnswered
CHECK_DEADLOCK FALSE
