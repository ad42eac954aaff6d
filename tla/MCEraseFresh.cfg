CONSTANTS
  s1 = s1
  s2 = s2
  a = a
  b = b
  c = c
  xa = xa
  xb = xb
  xc = xc
  Serial = {s1, s2}
  Take = {a, b, c}
  Audio = {xa, xb, xc}
  AudioOf <- MCAudioOf
  Prefix = {a, b, c}
  PrefixOf <- MCPrefixOf
  Bare = Bare
  Fragment = Fragment
  NoFile = NoFile
  MaxRank = 0
  MaxNth = 1
  Slot = {p1}
  Node = {n1}
  NoSlot = NoSlot
  NoNode = NoNode
  NoTake = NoTake
  NoVerdict = NoVerdict
  NoSerial = NoSerial
SPECIFICATION MCSwapSpec
PROPERTY NeverErasesAChangedCard
