SPECIFICATION SuiteSpec
CONSTANTS
  Outcome <- MCOutcome
  NoOutcome = NoOutcome
  N = 3
  Client = {c1, c2, c3}
  Jobs = {j1, j2}
  Executors = {ei, e1, e2}
  Inline = {ei}
  NoOne = NoOne
  Inputs = 3
  MaxAwaits = 3
  Length = 4
  Contexts = {1, 2, 3}
  Stored = {1, 2, 3, 4}
INVARIANTS NoUseAfterDelete DeletedOnce DoneWhenSatisfied
INVARIANTS WhenAnySafe SharedSafe CoroutinesSafe 
PROPERTY WaitersReleased
