SPECIFICATION FairSpec
CONSTANTS
  Keys = {"a", "btn"}
  NoRepeat = {"btn"}
  Plain <- PlainButton
  Dbl <- DblButton
  Bindings <- KeyBindings
  FifoSize = 3
  MaxKeyDown = 2
  QueueSize = 2
  SlaveCmds = {"pause"}
  UserCmds = {"quit"}
  MenuCmds <- PauseMenuCmds
  Keep = {"keep"}
  ArexxGui = FALSE
  MaxPosts = 4
INVARIANTS TypeOK NoStuckKey AutoRepeatFresh
PROPERTY QuitHappens
