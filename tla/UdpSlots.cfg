SPECIFICATION Spec
CONSTANTS
  Nikt = Nikt
  k1 = k1
  k2 = k2
  Klienci = {k1, k2}
  Paczki <- PaczkiPoDwie
  MAXCLIENTS = 2
  PROBY = 1
  Zwloka = TRUE
INVARIANTS JedenSlot BezPowtorzenPrzedKoncem
CHECK_DEADLOCK FALSE
