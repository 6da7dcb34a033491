SPECIFICATION Spec
CONSTANTS
    YedekSayisi = 2
    KokYedek = {1, 2}
    OynakYedek = {}
    Maks = 1
    Klasor = {"gpanel"}
    AyarUzayi <- MCTekKopya
    IlkAyar <- MCTekKopya
    DbHatasi = FALSE
    IsSiniri = 2
    CokmeSiniri = 0
    IstekSiniri = 0
PROPERTIES
    SaklamaYeniyiKorur
