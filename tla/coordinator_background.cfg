SPECIFICATION Spec
SYMMETRY Symmetry
CONSTANTS
 Callers = {c1}
 SyncScanners = {}
 Refreshes = {r1,r2}
 Recovery = recovery
 Stations = {s1,s2}
 Requests = {"station","bulk"}
 GattSlots = 2
 None = None
INVARIANTS CoordinatorInv WaitersHaveCloser
PROPERTIES CancelOnlyTheAwaited
