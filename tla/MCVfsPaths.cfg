SPECIFICATION Spec
CONSTANTS
  MAX_GLOBAL_FILES = 2
  MAX_PROCESS_FILES = 3
  MAX_MOUNT_POINTS = 4
  MAX_ROMFS = 4
  Proc = {0}
  First = 0
  rom = rom
  disk = disk
  Device <- MCDevice
  RootDevice = rom
  InitIno = 2
  Ino <- MCIno
  Kind <- MCKind
  Size <- MCSize
  Rdev <- MCRdev
  Child <- MCChild
  Console = 100
  Registered = {100, 102}
  BlockSize <- MCBlockSize
  Paths <- AllPaths
  MountPaths <- AllMountPaths
  Counts = {1, 2}
  OpenBound = 3
INVARIANTS
  ResolveAgrees
