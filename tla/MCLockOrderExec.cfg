SPECIFICATION Spec
CONSTANTS
  Conn1 = conn1
  Conn2 = conn2
  Cycle = cycle
  Snapshotter = snapshotter
  Threads = {conn1, conn2, cycle, snapshotter}
  Nobody = nobody
  NDbs = 2
  NShards = 2
  Workloads <- EvictInExec
INVARIANTS
  NoDeadlock
