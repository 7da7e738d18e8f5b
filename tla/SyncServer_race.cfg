SPECIFICATION Spec
CONSTANTS
  NoContent = NoContent
  u1 = u1
  u2 = u2
  d1 = d1
  d2 = d2
  d3 = d3
  r1 = r1
  r2 = r2
  a = a
  b = b
  Users = {u1}
  Devices = {d1, d2}
  DeviceUser <- OneUser
  Requests = {r1, r2}
  SlotDevices <- TwoSlotsOneUser
  Purposes = {"master"}
  Contents = {a, b}
  MaxItems = 1
  MaxItemVersion = 2
  MaxKeyVersion = 1
SYMMETRY ContentSymmetry
PROPERTIES
  NoSilentOverwrite
