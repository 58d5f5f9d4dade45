\* Three users, a message under two event ids, failing downloads, throwing
\* handlers, a cleared chat, a crash and a restart.
SPECIFICATION Spec
CONSTANTS
  Events = {"picture", "again", "answer", "second", "stranger", "empty", "friend_add"}
  MsgOf <- MCMsgOf
  UserOf <- MCUserOf
  Allowed <- MCAllowed
  Text = {"picture", "again", "answer", "stranger"}
  Pictures = {"picture", "again"}
  Files = {"answer", "second"}
  Other = {"friend_add"}
  Quote <- MCQuote
  Failing = {"picture", "again", "answer", "second"}
  Throwing = {"picture", "answer"}
  MaxClears = 1
  MaxEpoch = 2
INVARIANTS OneConversation StoredExactlyOnce
PROPERTIES HandledOnce
CHECK_DEADLOCK FALSE
