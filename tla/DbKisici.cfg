SPECIFICATION AdilSpec
CONSTANTS
    HostSayisi = 2
    PlanDeger = {1, 5}
    KisitBaglanti = 2
    Ariza = {"olum", "oku", "alter", "yanit", "kayit"}
    ArizaSiniri = 2
    DegisimSiniri = 1
INVARIANTS
    TypeOK
    KisitKayitli
    KayitSahipli
    PlanGecerli
PROPERTIES
    KalintiKalkar
