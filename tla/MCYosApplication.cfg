SPECIFICATION FairYosSpec
CONSTANTS
  ahttsk = ahttsk
  oledtak = oledtak
  Users <- MCUsers
  Slaves <- MCSlaves
  Present <- MCSlaves
  MaxLen = 7
  DrawLen = 2
  Readings <- MCReadings
  Noises <- MCNoises
INVARIANTS
  AppTypeOK
  TransactionIsWhole
  FrameIsTold
  ShownWasMeasured
  HumidityNotFarBehind
PROPERTIES
  BusIsFreed
