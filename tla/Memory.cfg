SPECIFICATION Spec
CONSTANTS
  NPaths = 2
  MaxLines = 3
  Scopes = {{1, 2}, {1}}
  Habits = {{"halves", "growing", "full", "picky", "raise", "crash", "short"}, {"raise", "save", "crash"}}
INVARIANTS NothingWithheld SavedIsStored StoredOnce
