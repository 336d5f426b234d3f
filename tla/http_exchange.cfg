CONSTANTS
  own = own
  endless = endless
  corrupt = corrupt
  post = post
  get = get
  Request <- MCRequest
  Stranger <- MCStranger
  MaxFd = 2
  Endless <- MCEndless
  Posts <- MCPosts
  Corrupt <- MCCorrupt
  Parts <- MCParts
  Addresses = 2
SPECIFICATION Spec
INVARIANTS
  OwnAnswerOnly
  StraysOnlyWhenRaced
  NothingFreedIsUsed
  CancelledIsWoken
CONSTRAINT MCTogether
CHECK_DEADLOCK FALSE
