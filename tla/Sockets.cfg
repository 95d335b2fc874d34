CONSTANTS
  Programy = {"kalkulator", "suma", "glosy"}
  KlienciKalk = {"k1", "k2"}
  GniazdoKalk <- MCGniazdoKalk
  ZadaniaKalk <- MCZadaniaKalk
  POLSLOWA = 4
  KlienciSumy = {"k1", "k2", "k3"}
  GniazdoSumy <- MCGniazdoSumy
  Cyfry <- MCCyfry
  MaxZabic = 1
  Fds = {4, 5}
  Elektorzy = {1, 2}
  Kandydaci = {1}
  MaxLinii = 2
SPECIFICATION Spec
INVARIANTS TypeOK TabliceZgodne OdpowiedzDobra SumyDobre
PROPERTIES KoniecUslugi MiejsceSieZwalnia
CHECK_DEADLOCK FALSE
