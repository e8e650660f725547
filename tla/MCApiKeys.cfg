CONSTANTS
  Keys = {k1, k2, k3, k4}
  Callers = {c1, c2}
  Replicas = {r1, r2}
  None = None
SPECIFICATION Spec
SYMMETRY Symmetric
INVARIANTS
  TypeOK
  ActiveKeyRemains
  OneHeir
  OneAdministrator
  NoStartFails
PROPERTY NeverReseeded
