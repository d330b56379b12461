SPECIFICATION Spec
CONSTANTS
  squirrel = squirrel  lua = lua
  chat = chat  started = started
  Resource = {squirrel, lua}
  Lua = {lua}
  Event = {chat, started}
  ScriptLoaded = started
  ResourceStarted = started
  MaxVMs = 3
  MaxHandlers = 2
  MaxDepth = 2
  None = None
INVARIANT TriggersReachLua
CHECK_DEADLOCK FALSE
