CONSTANTS
  Clis = {c1, c2}
  Lifetime = 3
  Window = 1
  Handshake = 1
  MaxRegistrations = 2
  MaxKills = 2
SPECIFICATION Spec
INVARIANT WorkersAuthenticated
