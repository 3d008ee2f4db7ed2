SPECIFICATION Spec
CONSTANTS
  Tcp = {"a", "b"}
  Other = {"u"}
  Subnet = {"10.0.0.0"}
  SubnetOf <- OneSubnet
  Queue = {"q1", "q2"}
  QueueOf <- Queues
  Rate = 1
  Burst = 6
  Cost = 2
  MaxEntries = 1
  Timeout = 1
  Width = 32
  MaxTime = 3
  MaxPackets = 5
  Stream = {0, 64}
  Size = 3
  InitialMaxData = 1000
  MaxArrivals = 3
INVARIANTS AdmissionIsBounded EstablishedByHandshake NothingIsDropped FinishedIsComplete
PROPERTIES LiveConnectionsSurvive StreamsArePipes
CHECK_DEADLOCK FALSE
