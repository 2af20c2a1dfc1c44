\* Two requests and one reader over one passage; every edit alone.
CONSTANTS
    p = p
    x = x
    y = y
    u = u
    v = v
    Passages = {p}
    Texts = {x, y}
    Readers = {r}
    People = {u, v}
    None = None
    Offers <- TwoOffers
    Edits <- SomeEdits
    Overlapping = FALSE
    MaxDecisions = 2
    MaxOutcomes = 1
    MaxSuggestions = 1

SPECIFICATION Spec
SYMMETRY Alike
VIEW Seen
INVARIANTS
    ChosenAgrees
    AcceptedMeansRecorded
