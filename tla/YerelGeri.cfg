SPECIFICATION YSpec
CONSTANTS
    YedekSayisi = 1
    KokYedek = {1}
    OynakYedek = {1}
    Maks = 2
    Klasor = {"gpanel"}
    AyarUzayi <- MCSilenAyar
    IlkAyar <- MCSilenAyar
    DbHatasi = FALSE
    IsSiniri = 1
    CokmeSiniri = 1
    IstekSiniri = 1
    Temizleyici = {"isci", "api"}
    Uretici = {"sistem"}
    GeriIstek = {g1}
    IsGeriVar = TRUE
    DurdurSiniri = 1
PROPERTIES
    OkunanSilinmez
    IsOkunanSilinmez
