\* Two requests of any kind on one event with two attendees.
CONSTANTS
  r1 = r1  r2 = r2  r3 = r3
  Requests = {r1, r2}
  People = {1, 2}
  Labels = {"standard", "vip"}
  MaxTypes = 2
  MaxCapacity = 2
  FileOrders <- AnyOrder
  Kinds <- AllButCli
SYMMETRY Symmetry
CHECK_DEADLOCK FALSE
SPECIFICATION Spec
INVARIANTS TypeOK NoOverfill CheckedTypeStays OnlyFilesMakeCycles NothingOrphaned
PROPERTY ErasedUntouched
