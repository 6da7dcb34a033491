SPECIFICATION YSpec
CONSTANTS
    YedekSayisi = 2
    KokYedek = {1, 2}
    OynakYedek = {1}
    Maks = 1
    Klasor = {"gpanel"}
    AyarUzayi <- MCYasliAyar
    IlkAyar <- MCYasliAyar
    DbHatasi = TRUE
    IsSiniri = 2
    CokmeSiniri = 1
    IstekSiniri = 1
    Temizleyici = {"isci"}
    Uretici = {"sistem"}
    GeriIstek = {}
    IsGeriVar = FALSE
    DurdurSiniri = 0
INVARIANTS
    YTypeOK
    TamamSaglam
PROPERTIES
    SonKopyaKorunur
    YerelKopyasizSilinmez
    SozlesmeyeUyar
