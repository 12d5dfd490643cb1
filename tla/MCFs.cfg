SPECIFICATION Spec
CONSTANTS
    Threads = {t1, t2}
    MaxNode = 6
    PathSet <- MCPaths
    OpenOpts <- MCOpenOpts
    UnlinkOpts <- MCUnlinkOpts
    PermSets <- MCPerms
    MountPoints <- MCMounts
    DevPaths <- MCDevs
    Lengths = {1, 2}
    Calls = 3
CHECK_DEADLOCK FALSE
SYMMETRY Symm
INVARIANTS TypeOK NoOrphan   ResolvesToDeepest 
 
