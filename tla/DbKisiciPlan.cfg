SPECIFICATION Spec
CONSTANTS
    HostSayisi = 2
    PlanDeger = {1, 5}
    KisitBaglanti = 2
    Ariza = {}
    ArizaSiniri = 0
    DegisimSiniri = 1
INVARIANTS
    BirakirkenPlan
