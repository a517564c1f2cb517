------------------------ MODULE MCConversationRouting ------------------------
(* A message with two attachments and two messages of the same text from two  *)
(* amoCRM chats; the echo of the latter is what is imported as typed.  amoCRM   *)
(* names the chat only when it accepts the second attachment.                  *)
EXTENDS ConversationRouting

MCInbound == {"in"}
MCTyped == {}
MCOwn == {"own1", "own2"}
MCParts == [m \in MCInbound \cup MCTyped \cup MCOwn |-> IF m = "in" THEN 2 ELSE 1]
MCChatOf == [m \in MCOwn |-> IF m = "own1" THEN "chat1" ELSE "chat2"]
MCUnnamed == {<<"in", 1>>}
MCTextOf == [m \in MCOwn |-> "hello"]
=============================================================================
