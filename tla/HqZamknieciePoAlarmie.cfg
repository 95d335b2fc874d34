SPECIFICATION FairSpec
CONSTANTS
  Nikt = Nikt
  n1 = n1
  n2 = n2
  Adiutanci = {a1, a2}
  Teksty <- TekstyKolejki
  Nazwy = {n1, n2}
  Nadawcy = {s1}
  STACK_SIZE = 1
  DIVISION_NAMES_SIZE = 1
  ROZMIAR = 1
  MaxMeldunkow = 1
PROPERTIES ZamknieciePoAlarmie
CHECK_DEADLOCK FALSE
