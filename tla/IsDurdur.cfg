SPECIFICATION YSpec
CONSTANTS
    YedekSayisi = 1
    KokYedek = {1}
    OynakYedek = {1}
    Maks = 1
    Klasor = {"gpanel"}
    AyarUzayi <- MCSilenAyar
    IlkAyar <- MCSilenAyar
    DbHatasi = FALSE
    IsSiniri = 1
    CokmeSiniri = 0
    IstekSiniri = 0
    Temizleyici = {}
    Uretici = {"sistem"}
    GeriIstek = {}
    IsGeriVar = TRUE
    DurdurSiniri = 2
PROPERTIES
    DurdurulanIsiGoroutineKapatir
