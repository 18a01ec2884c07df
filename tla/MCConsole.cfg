SPECIFICATION Spec
CONSTANTS
  CR = CR
  LF = LF
  MaxEventBytes = 11
  Settings <- ConsoleSettings
  Posts <- MCPosts
  Replies <- MCReplies
  MaxAttempts = 2
  MaxChunk = 3
INVARIANTS
  ConsoleSurfacesFailure
