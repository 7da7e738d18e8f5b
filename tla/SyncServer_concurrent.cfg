SPECIFICATION Spec
CONSTANTS
  NoContent = NoContent
  u1 = u1
  u2 = u2
  d1 = d1
  d2 = d2
  d3 = d3
  r1 = r1
  r2 = r2
  a = a
  b = b
  Users = {u1, u2}
  Devices = {d1, d3}
  DeviceUser <- MCDeviceUser
  Requests = {r1, r2}
  SlotDevices <- MixedSlots
  Purposes = {"master"}
  Contents = {a}
  MaxItems = 2
  MaxItemVersion = 2
  MaxKeyVersion = 1
INVARIANTS
  TypeOK
  ForkIntegrity
  OnlyOwnItems
  EventLogged
