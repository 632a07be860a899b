SPECIFICATION PlaneSpec
CONSTANTS
  Call = {c1, c2, c3}
  Stores = {"jsonl", "postgres"}
  Faults = {"record", "crash"}
INVARIANTS AnsweredAudited JournalTruthful AuditServes
CHECK_DEADLOCK FALSE
