SPECIFICATION FairSpec
CONSTANTS
  Nikt = Nikt
  k1 = k1
  k2 = k2
  Klienci = {k1, k2}
  Paczki <- PaczkiDwoch
  MAXCLIENTS = 1
  PROBY = 2
  Zwloka = FALSE
INVARIANTS TypeOK
PROPERTIES RealizujeTransfer KlientKonczy
CHECK_DEADLOCK FALSE
