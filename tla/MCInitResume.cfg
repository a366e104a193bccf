SPECIFICATION InstanceSpec
CONSTANTS
  Envs = {"dev"}
  LineOrder <- MCLineOrder
  MaxLaunches = 3
INVARIANT InitResumesWhereItStopped
CHECK_DEADLOCK FALSE
