CONSTANTS
  Buses = 2
  Devices = 2
  Functions = 2
  ConfigSpaces <- Machines
SPECIFICATION Spec
INVARIANT BridgesScanned
