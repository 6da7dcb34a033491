SPECIFICATION AdilSpec
CONSTANTS
  YedekSayisi = 2
  IlkYedek = 1
  KimlikSayisi = 1
  IzSayisi = 2
  Musteri = {"ali","can"}
  IlkMusteri = "ali"
  Hedefli = {"ali"}
  SahipsizEsik = 2
  Ariza = {"oku","yaz","uzak","dosya","isle","cokme"}
  ArizaSiniri = 1
  EsZamanli = 2
  IstekSiniri = 1
CHECK_DEADLOCK FALSE
INVARIANTS TypeOK BaskasinaVerilmez
PROPERTIES CanliKopyaKorunur SupurYalnizDolan UzakKopyaSilinir ParolaKalmaz SahipsizIsaretlenir
