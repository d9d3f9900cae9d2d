SPECIFICATION MountsSpec
CONSTANTS
  Volumes = 4
  Configs = 6
  Nil = Nil
INVARIANTS
  ContainerMounts
  InitContainersMountVolumes
CHECK_DEADLOCK FALSE
