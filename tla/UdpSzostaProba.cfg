SPECIFICATION Spec
CONSTANTS
  Nikt = Nikt
  k1 = k1
  k2 = k2
  Klienci = {k1}
  Paczki <- PaczkaJedna
  MAXCLIENTS = 1
  PROBY = 5
  Zwloka = FALSE
INVARIANTS NajwyzejPROBYProb
CHECK_DEADLOCK FALSE
