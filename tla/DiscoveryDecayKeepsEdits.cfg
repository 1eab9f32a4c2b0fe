SPECIFICATION MCSpec
CONSTANTS
    Scenarios = {"hygiene"}
    Crossing = {}
    Names = {1, 2}
    Editors = {e1}
    Janitors = {j1}
    Pruners = {p1}
    Writers = {w1}
    Topics = {"auth", "db"}
    Importances = {50}
    Edits <- SmallEdits
    Corpus <- AnyCorpus
    MaxDay = 3
    MaxCaptures = 5
    AgeDays = 1
    CaptureDedups = TRUE
    Keep = Keep
    None = None
INVARIANT DecayKeepsEdits
