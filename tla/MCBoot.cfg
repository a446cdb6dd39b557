SPECIFICATION BootSpec
CONSTANTS
  FirmwareMaps <- MCFirmwareMaps
  NameSizes = {1, 3}
  ImageSizes = {1, 8, 16}
  ENTRY_SIZE = 1
  PAGE = 4
  HACK = 16
  Width = 256
  MemMaps <- MCMemMaps
  HhdmOffset = 32
  SizeMax = 255
  Alignments = {1, 2, 4}
  MaxAlign = 2
  Sizes = {0, 3, 17, 255}
  MaxBlocks = 3
INVARIANTS
  MapIsTrue
  BlocksDisjoint
  BlocksAreFree
CHECK_DEADLOCK FALSE
