SPECIFICATION Spec
CONSTANTS
  Nikt = Nikt
  n1 = n1
  n2 = n2
  Adiutanci = {a1, a2}
  Teksty <- TekstyMapy
  Nazwy = {n1, n2}
  Nadawcy = {s1}
  STACK_SIZE = 1
  DIVISION_NAMES_SIZE = 1
  ROZMIAR = 2
  MaxMeldunkow = 3
SYMMETRY Symetria
INVARIANTS PoleZMeldunku NajwyzejPoJednymNaAdiutanta
CHECK_DEADLOCK FALSE
