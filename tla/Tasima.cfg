SPECIFICATION AdilSpec
CONSTANTS
    Sahip = {kok, b1}
    Kok = kok
    Istek = {r1, r2}
    KalemSayisi = 1
    DagitDeneme = 3
    IsSiniri = 2
    CokmeSiniri = 1
CHECK_DEADLOCK FALSE
INVARIANTS
    TypeOK
    TekYuva
    SahipTekAcik
    SahipsizYok
    KimlikKalmaz
    UyandirmaKaybolmaz
PROPERTIES
    BitenBaslamaz
    KuyrukIlerler
    SozlesmeyeUyar
