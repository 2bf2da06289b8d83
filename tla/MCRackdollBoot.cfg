SPECIFICATION Spec
CONSTANTS
  StackWords = 26
  MainWords = 31
  S = 0
  Saved = 0
  TASK_FIFO_LEN = 2
  Tags <- MCTags
  MaxTags = 3
  NoHeader <- MCNoHeader
  Exceptions = {0, 13, 14, 17}
  TaskInts = {21}
  Written = {"rbx"}
  Words <- MCWords
INVARIANTS FramesAreContexts ContextsRestored IrqsAreNoExceptions TasksAreModules
CHECK_DEADLOCK FALSE
