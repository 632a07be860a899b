SPECIFICATION FairSpec
CONSTANTS
  Call = {1, 2, 3}
  Actor = {"user"}
  Tool = {"send", "draft", "mail", "list"}
  Key = {"key"}
  Writes = {"send", "draft"}
  Enabled = {"send"}
  Configured = {"send", "mail", "list"}
  Threaded = {"send", "mail"}
  Bounded = {"send"}
  Limit = 2
  Window = 1
  Workers = 2
  Asks <- Mixes
  MaxTime = 1
  MaxLives = 2
CHECK_DEADLOCK FALSE
INVARIANTS KeysSound FreshAuthority RateWindow
PROPERTIES CallsEnd
