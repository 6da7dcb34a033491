SPECIFICATION AdilSpec
CONSTANTS
    YedekSayisi = 2
    KokYedek = {1, 2}
    OynakYedek = {1}
    Maks = 2
    Klasor = {"gpanel", "yeni"}
    AyarUzayi <- MCAcikAyar
    IlkAyar <- MCIlkAyar
    DbHatasi = FALSE
    IsSiniri = 2
    CokmeSiniri = 1
    IstekSiniri = 1
INVARIANTS
    TypeOK
    TamamSaglam
    TamamBulunur
    SilindiTemiz
    TekKosan
PROPERTIES
    IptalKesin
    KuyrukIlerler
