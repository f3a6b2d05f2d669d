SPECIFICATION Spec
CONSTANTS
    Groups = {energyModel, gpuStats, pmp}
    DefaultGroups = {energyModel, gpuStats}
    MaxEnergy = 3
    MaxOps = 4
INVARIANTS
    CallsUseLiveObjects
    Balanced
    WindowsDisjoint
