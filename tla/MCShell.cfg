SPECIFICATION Spec
CONSTANTS
  sh = 1
  Contexts = {1}
  Asked <- MCAsked
  Names = {a}
  PATH_DIR_MAX = 3
  Vars = {v}
  Values = {1}
  SHELL_VAR_MAX = 0
  Pids = {1, 2, 3, 4, 5, 6}
  PROC_FREE = 4
  PIPE_MAX = 2
  FD_FREE = 1
  MaxStages = 3
  
PROPERTIES  LinesEnd
CHECK_DEADLOCK FALSE
