SPECIFICATION YSpec
CONSTANTS
    YedekSayisi = 2
    KokYedek = {1, 2}
    OynakYedek = {1, 2}
    Maks = 1
    Klasor = {"gpanel"}
    AyarUzayi <- MCSilenAyar
    IlkAyar <- MCSilenAyar
    DbHatasi = FALSE
    IsSiniri = 2
    CokmeSiniri = 0
    IstekSiniri = 0
    Temizleyici = {"isci", "api"}
    Uretici = {"sistem"}
    GeriIstek = {}
    IsGeriVar = FALSE
    DurdurSiniri = 0
PROPERTIES
    YerelKopyasizSilinmez
