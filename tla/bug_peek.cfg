SPECIFICATION Spec
CONSTANTS
  Keys = {"a", "btn"}
  NoRepeat = {"btn"}
  Plain <- PlainButton
  Dbl <- DblButton
  Bindings <- KeyBindings
  FifoSize = 3
  MaxKeyDown = 2
  QueueSize = 2
  SlaveCmds = {"keep"}
  UserCmds = {"quit", "hide"}
  MenuCmds <- QuitMenuCmds
  Keep = {"keep"}
  ArexxGui = FALSE
  MaxPosts = 4
INVARIANT PeekedIsNext
