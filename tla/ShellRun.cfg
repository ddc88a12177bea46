\* Two lines typed one after the other, with five process slots: background
\* processes of the first line meet those of the second, and forks fail.
CONSTANTS
  Commands <- MCCommands
  Trees <- MCTrees
  Files = {1, 2}
  MaxProc = 5
  MaxPipe = 3
  MaxFd = 5
  MaxCmds = 2
  Missing = {2}
SPECIFICATION Spec
CHECK_DEADLOCK FALSE
INVARIANTS Plumbing Foreground
PROPERTIES PromptReturns
