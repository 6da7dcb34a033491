SPECIFICATION Spec
CONSTANTS
    HostSayisi = 2
    DsnHost = 2
    Eklenti = {e1}
    Ariza = {"olum", "yoklama", "alter", "valkey", "yanit", "valkeyYeniden", "dosya", "saglik", "geri"}
    YenilemeSiniri = 2
INVARIANTS
    TypeOK
    KilitlenmeYok
    Kurtarilabilir
PROPERTIES
    EskidenKal
    EskiGecmez
