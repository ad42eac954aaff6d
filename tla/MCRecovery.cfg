CONSTANTS
  s1 = s1
  s2 = s2
  a = a
  b = b
  xa = xa
  xb = xb
  xg = xg
  Serial = {s1, s2}
  Take = {a, b}
  Audio = {xa, xb, xg}
  AudioOf <- MCAudioOf
  Prefix = {a, b}
  PrefixOf <- MCPrefixOf
  Bare = Bare
  Fragment = Fragment
  NoFile = NoFile
  MaxRank = 0
  MaxNth = 1
  Slot = {p1}
  Node = {n1}
  NoSlot = NoSlot
  NoNode = NoNode
  NoTake = NoTake
  NoVerdict = NoVerdict
  NoSerial = NoSerial
  Garble = {xg}
  Marked = {}
  Cuttable = {}
  Faults = {"copy", "kill"}
  MaxLaunches = 1
SYMMETRY MCSymmetry
SPECIFICATION RecoverySpec
PROPERTIES
  NoTakeIsLost
  LedgerNeverShrinks
CHECK_DEADLOCK FALSE
