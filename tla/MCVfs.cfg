SPECIFICATION Spec
CONSTANTS
  MAX_GLOBAL_FILES = 5
  MAX_PROCESS_FILES = 5
  MAX_MOUNT_POINTS = 3
  MAX_ROMFS = 2
  Proc = {0, 1}
  First = 0
  rom = rom
  disk = disk
  Device <- MCDevice
  RootDevice = rom
  InitIno = 2
  Ino <- MCIno
  Kind <- MCKind
  Size <- MCSize
  Rdev <- MCRdev
  Child <- MCChild
  Console = 100
  Registered = {100, 102}
  BlockSize <- MCBlockSize
  Paths <- MCPaths
  MountPaths <- MCMountPaths
  Counts = {1, 2}
  OpenBound = 5
INVARIANTS
  FdsOpen
  PosInside
  OrphansNeedFullTable
PROPERTIES
  EntriesKeepTheirFile
