SPECIFICATION Spec
CONSTANTS
  CR = CR
  LF = LF
  MaxEventBytes = 11
  Settings <- MCSettings
  Posts <- MCPosts
  Replies <- MCReplies
  MaxAttempts = 2
  MaxChunk = 3
INVARIANTS
  DeliveredAsProduced
  WireIsWellFormed
  ClientsAcceptGateway
  OutputIsValidated
  NothingIsDropped
  OnlyFailureAfterExpiry
  ChunksDoNotMatter
