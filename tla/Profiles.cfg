SPECIFICATION ProfilesSpec
CONSTANTS
    default = default
    ann = ann
    Bob = Bob
    bob = bob
    File = {default, ann, Bob, bob}
    Lower <- Lowered
    Default = default
    CaseSensitive = TRUE
    Earlier = {ann}
    Page = {page1, page2}
    MaxAnswers = 2
    MaxKills = 2
INVARIANTS NoGhosts Offered
PROPERTIES Recovers
CHECK_DEADLOCK FALSE
