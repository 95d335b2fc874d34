CONSTANTS
  Klienci = {"k1", "k2", "k3"}
  MaxBlokow = 2
  POJEMNOSC = 2
  N = 2
  Dlugosci = {1, 2}
  MaxSigint = 2
  Losowe <- MCLosowe
  MaxLiczba = 2
  LiczbaGraczy = 2
  LiczbaKart = 5
  MaxZabic = 1
  LiczbaWezlow = 3
  Siec <- MCSiec
  TTL = 4
  SCIEZKA = 50
  MaxZiemniakow = 1
SPECIFICATION Spec
INVARIANTS WiadomosciCale KartyWPorzadku TrasaPrawdziwa
PROPERTIES KoniecPoEof ZiemniakSieKonczy
CHECK_DEADLOCK FALSE
