SPECIFICATION Spec
CONSTANTS
  None = None
  Dicts = {"extra", "context", "existing", "cli", "in1", "out1", "args1", "res1", "in2", "out2", "args2", "res2", "dict1", "dict2", "dict3", "dict4", "dict5", "dict6", "dict7", "merged", "built", "copy"}
  Values = {"=extra", "=context", "=existing", "=cli", "=in1", "=out1", "=args1", "=res1", "=in2", "=out2", "=args2", "=res2", "own=extra", "own=context", "own=existing", "own=cli", "own=in1", "own=out1", "own=args1", "own=res1", "own=in2", "own=out2", "own=args2", "own=res2"}
  Keys = {"loss", "network", "context", "runtime_context"}
  Extra = "extra"
  Cli = "cli"
  Runtime = "merged"
  Built = "built"
  Copy = "copy"
  Tools = {"restart"}
  Inputs <- MCInputs
  MaxEvaluations = 2
INVARIANTS PlainByPrecedence CliWinsOverTrajectory FirstContextByPrecedence OnlyFirstHolderWritten UnknownFailsSafely
CHECK_DEADLOCK FALSE
