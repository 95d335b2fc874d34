SPECIFICATION Spec
CONSTANTS
  Nikt = Nikt
  n1 = n1
  n2 = n2
  Adiutanci = {a1, a2}
  Teksty <- TekstyRejestru
  Nazwy = {n1, n2}
  Nadawcy = {s1, s2}
  STACK_SIZE = 1
  DIVISION_NAMES_SIZE = 2
  ROZMIAR = 1
  MaxMeldunkow = 3
SYMMETRY Symetria
INVARIANTS NazwyRozne JedenMeldunekOddzialu RozkazMaAdres
CHECK_DEADLOCK FALSE
