SPECIFICATION FairSpec
CONSTANTS
 Callers = {c1}
 SyncScanners = {c1}
 Refreshes = {r1}
 Recovery = recovery
 Stations = {s1}
 Requests = {"station","bulk","scan"}
 GattSlots = 2
 None = None
PROPERTIES AdmissionEnds WaitEnds ShutdownDrains
