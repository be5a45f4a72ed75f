CONSTANTS
  Buses = 2
  Devices = 2
  Functions = 2
  ConfigSpaces <- Machines
  U32 = 64
  Entries = 4
  Page = 4
  Tables <- MCTables
  dma_pool = 16
  DMA_POOL_SIZE = 8
  MAX_DMA_ALLOCATIONS = 4
  Requests <- MCRequests
  CommonAddrs <- MCCommonAddrs
  Bars <- MCBars
  Qh <- MCQh
  Td <- MCTd
  Clients <- MCClients
SPECIFICATION ESpec
INVARIANTS ETypeOK ScanReports FindsFirst BlocksApart Identity ListsIntact InitializedRuns
PROPERTIES ScanEnds InitReturns
