CONSTANTS
  s1 = s1
  s2 = s2
  a = a
  b = b
  c = c
  xa = xa
  xb = xb
  xg = xg
  Serial = {s1, s2}
  Take = {b, c}
  Audio = {xb, xg}
  AudioOf <- MCAudioOf
  Prefix = {b, c}
  PrefixOf <- MCPrefixOf
  Bare = Bare
  Fragment = Fragment
  NoFile = NoFile
  MaxRank = 1
  MaxNth = 1
  Slot = {p1}
  Node = {}
  NoSlot = NoSlot
  NoNode = NoNode
  NoTake = NoTake
  NoVerdict = NoVerdict
  NoSerial = NoSerial
  Garble = {xg}
  Marked = {xb}
  Cuttable = {xb}
  Faults = {"copy", "split", "ledger"}
  MaxLaunches = 0
SPECIFICATION IntakeSpec
INVARIANTS
  VerdictIsBacked
  OneRecordPerDigest
CHECK_DEADLOCK FALSE
