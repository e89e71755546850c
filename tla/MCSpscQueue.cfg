SPECIFICATION QueueFairSpec
CONSTANTS
  a = a
  b = b
  Uninit = Uninit
  Capacity = 4
  MaxItems = 6
  Values <- MCValues
INVARIANTS
  NoSlotRace
PROPERTIES
  RefusesOnlyWhenFull
  ImplementsFifo
  EveryItemDelivered
