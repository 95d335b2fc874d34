SPECIFICATION Spec
CONSTANTS
  Klienci = {"k1", "k2"}
  Rozmiar = 2
  WARTOSC = 1
  Pracownicy = {"p1", "p2", "p3"}
  Rekordy = {0, 1}
  Procesy = {"m1", "m2"}
  Czujniki = {"c1", "c2", "c3"}
  CYCLES = 2
  NMax = 3
  LINIE = 2
  Wyniki = {3, 4}
INVARIANTS PunktyZachowane OdzyskanePoSmierci NicPrzedCzasem
PROPERTIES CzekajacyRuszaja
CHECK_DEADLOCK FALSE
