SPECIFICATION Spec
SYMMETRY Symmetry
CONSTANTS
 Callers = {c1,c2}
 SyncScanners = {}
 Refreshes = {r1}
 Recovery = recovery
 Stations = {s1}
 Requests = {"station","shared","bulk","scan"}
 GattSlots = 2
 None = None
INVARIANTS ExclusiveAlone CountsExact ScanAlone ScanSlot DrainedIsQuiet
PROPERTIES ImplementsFleetAccess StationBusyOnlyBesideForeground
