\* Two login sessions press the hotkey 0xC5 while exec-acpi runs and the
\* kext is unloaded and loaded again, before or after EC0 is published.
\* A panic stops the system.
CONSTANTS
  Daemons = {d1, d2}
  Tools = {t}
  Usages = {197}
  Devices = {"EC0"}
  None = None
SPECIFICATION Spec
INVARIANTS TypeOK PressReachesEC SafeWhileLoaded
PROPERTIES UnloadCompletes RelaysPresses
CHECK_DEADLOCK FALSE
