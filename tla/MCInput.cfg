SPECIFICATION MCSpec
CONSTANTS
  Parts = {"relay", "bindings", "devices", "cursor", "focus"}
  editor = editor
  locker = locker
  e1 = e1
  e2 = e2
  l1 = l1
  lock = lock
  te = te
  te2 = te2
  tl = tl
  Client <- TwoClients
  Surface <- ThreeSurfaces
  LockSurface <- OneLockSurface
  TextInput <- OnePerClient
  Owner <- OwnerOf
  None = None
  Key = {"m", "a", "b"}
  Modifier = {"m"}
  VtKey = {"b"}
  KeysCap = 2
  RepeatRate = 1
  KeyConfigs <- SomeKeyConfigs
  SwitchLines <- SomeSwitchLines
  Device = {"k1", "k2", "v"}
  DeviceType <- TypeOfDevice
  Virtual = {"v"}
  Output = {"o"}
  Files <- SomeFiles
  Commands <- SomeCommands
  Finger = {1}
  Images = {"left_ptr", "surface"}
  Surfaces = {"surface"}
  ToolButtons = {1}
  Pressable = 1
  Windows = {"w1", "w2"}
  Layers = {"l1", "l2"}
  LockSurfaces = {"k"}
  ClientOf <- ClientOfSurface
  TabletAware = {"w1", "k"}
INVARIANTS
  InputTypeOK OneTextFocus FocusedOrPending WaitsForInputMethod
  ClientKeysAreDown  DevicesFollowConfig
  CursorIsShown  LockedInputIsKept FocusIsHeld
PROPERTIES StopsWithFocus
CHECK_DEADLOCK FALSE
