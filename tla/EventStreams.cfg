CONSTANTS
  d1 = d1
  i1 = i1
  g1 = g1
  engine = engine
  main = main
  global = global
  Global = global
  Main = main
  Directory <- MCDirectory
  Instance <- MCInstance
  Sub <- MCSub
  InstanceStream <- MCInstanceStream
  Flaky <- MCInstanceStream
  Producer <- MCProducer
  MaxInstances = 2
  MaxEvents = 2
  SubBuffer = 1
SPECIFICATION StreamsFairSpec
INVARIANTS
  StreamsInv
  LiveStreamMissesNothing
PROPERTIES
  ShutdownEndsStreams
\* the daemon stops
CHECK_DEADLOCK FALSE
