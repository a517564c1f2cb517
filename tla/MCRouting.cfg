CONSTANTS
  Inbound <- MCInbound
  Typed <- MCTyped
  Own <- MCOwn
  Parts <- MCParts
  ChatOf <- MCChatOf
  TextOf <- MCTextOf
  Unnamed <- MCUnnamed
  DefaultChat = "chat1"
  None = None
  MaxPosts = 2
  MaxMishaps = 2
SPECIFICATION RoutingSpec
INVARIANTS PostedAgainOnlyIfUnsure ReturnedMeansImported ImportedMeansLinked EchoIsNotImported
PROPERTIES LinkKept
CHECK_DEADLOCK FALSE
