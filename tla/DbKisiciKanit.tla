---------------------------- MODULE DbKisiciKanit ----------------------------
(***************************************************************************)
(* Proofs about the restriction of a database user, for every number of    *)
(* host entries, every set of plans, every set of faults and every bound.  *)
(***************************************************************************)
EXTENDS DbKisici, TLAPS

-----------------------------------------------------------------------------
(***************************************************************************)
(* Records.                                                                *)
(***************************************************************************)
AktifKume == [var : BOOLEAN, onceki : Nat, deger : Nat, uygulandi : BOOLEAN, seviye : 1 .. 3,
              kurtar : BOOLEAN, geri : BOOLEAN]
KayitKume == [var : BOOLEAN, onceki : Nat, deger : Nat, uygulandi : BOOLEAN]
PlanKume == [planli : BOOLEAN, deger : PlanDeger]
UygKume == [adim : {"bos", "sor", "yaz"}, plan : PlanDeger \cup {0}, sira : Host, deger : Nat,
            tam : BOOLEAN]
AdimKume == {"kurtar", "bos", "kisitla", "ac", "kisAlter", "s3Oku", "s3Alter", "dogrula",
             "dogAlter", "birakSec", "birak", "birakOku", "birakHedef", "birakAlter",
             "birakSon", "kapat", "yaz"}

\* TypeOK with its sets by name.
Tip ==
    /\ sinir \in [Host -> Nat] /\ okunan \in [Host -> Nat]
    /\ kayit \in KayitKume
    /\ plan \in PlanKume
    /\ turMod \in Mod
    /\ panel \in {"acik", "kapali"}
    /\ aktif \in AktifKume
    /\ planAnlik \in Nat \cup {Yok}
    /\ adim \in AdimKume
    /\ asim \in BOOLEAN
    /\ hedef \in Nat /\ sira \in 1 .. HostSayisi + 1
    /\ iyi \subseteq Host /\ deneme \in 1 .. 2 /\ eski \in Nat
    /\ uyg \in UygKume
    /\ kisitli \subseteq Host /\ guncel \in BOOLEAN
    /\ vuran \subseteq Vuran
    /\ ariza \in 0 .. ArizaSiniri /\ degisim \in 0 .. DegisimSiniri

LEMMA TipEs == Tip <=> TypeOK
BY DEF Tip, TypeOK, AktifKume, KayitKume, PlanKume, UygKume, AdimKume

LEMMA BosKayitlar ==
    /\ AktifYok \in AktifKume /\ ~AktifYok.var /\ ~AktifYok.geri /\ ~AktifYok.uygulandi
    /\ KayitYok \in KayitKume /\ ~KayitYok.var /\ ~KayitYok.uygulandi
    /\ UygYok \in UygKume /\ UygYok.adim = "bos"
<1>1. 1 \in Host
    BY HostVarsayim DEF Host
<1> QED
    BY <1>1 DEF AktifYok, AktifKume, KayitYok, KayitKume, UygYok, UygKume

\* A request that starts, one that has asked, one that goes to the next entry.
LEMMA UygBasKayit ==
    ASSUME NEW p \in PlanDeger, NEW u,
           u = [adim |-> "sor", plan |-> p, sira |-> 1, deger |-> 0, tam |-> TRUE]
    PROVE  u \in UygKume /\ u.adim = "sor" /\ u.plan = p /\ u.sira = 1 /\ u.tam
<1>1. 1 \in Host
    BY HostVarsayim DEF Host
<1> QED
    BY <1>1 DEF UygKume

LEMMA UygBaslar ==
    ASSUME NEW p \in PlanDeger, NEW u, u = [UygYok EXCEPT !.adim = "sor", !.plan = p]
    PROVE  u \in UygKume /\ u.adim = "sor" /\ u.plan = p /\ u.sira = 1 /\ u.tam
<1>1. u = [adim |-> "sor", plan |-> p, sira |-> 1, deger |-> 0, tam |-> TRUE]
    BY DEF UygYok
<1> QED
    BY <1>1, UygBasKayit

LEMMA UygSorar ==
    ASSUME uyg \in UygKume, NEW d \in Nat, NEW u, u = [uyg EXCEPT !.adim = "yaz", !.deger = d]
    PROVE  /\ u \in UygKume /\ u.adim = "yaz" /\ u.deger = d
           /\ u.plan = uyg.plan /\ u.sira = uyg.sira /\ u.tam = uyg.tam
BY DEF UygKume

LEMMA UygIlerler ==
    ASSUME uyg \in UygKume, uyg.sira # HostSayisi, NEW t \in BOOLEAN, NEW u,
           u = [uyg EXCEPT !.adim = "sor", !.sira = @ + 1, !.tam = t]
    PROVE  /\ u \in UygKume /\ u.adim = "sor" /\ u.sira = uyg.sira + 1
           /\ u.plan = uyg.plan /\ u.tam = t
<1>1. u = [adim |-> "sor", plan |-> uyg.plan, sira |-> uyg.sira + 1, deger |-> uyg.deger, tam |-> t]
    BY DEF UygKume
<1>2. uyg.sira \in Host /\ uyg.sira + 1 \in Host
    BY HostVarsayim DEF UygKume, Host
<1> QED
    BY <1>1, <1>2 DEF UygKume

LEMMA YeniKayitTip ==
    ASSUME Tip
    PROVE  /\ YeniKayit \in KayitKume /\ YeniKayit.var
           /\ YeniKayit.uygulandi = (turMod = "uygula")
<1>1. 1 \in Host
    BY HostVarsayim DEF Host
<1>2. okunan[1] \in Nat /\ KisitDegeri(okunan[1]) \in Nat
    BY <1>1, KisitVarsayim DEF Tip, KisitDegeri
<1> QED
    BY <1>2, KisitVarsayim DEF YeniKayit, KayitKume

LEMMA Alanlar ==
    ASSUME Tip
    PROVE  /\ aktif.var \in BOOLEAN /\ aktif.onceki \in Nat /\ aktif.deger \in Nat
           /\ aktif.uygulandi \in BOOLEAN /\ aktif.geri \in BOOLEAN /\ aktif.kurtar \in BOOLEAN
           /\ aktif.seviye \in 1 .. 3
           /\ kayit.var \in BOOLEAN /\ kayit.onceki \in Nat /\ kayit.deger \in Nat
           /\ kayit.uygulandi \in BOOLEAN
           /\ plan.planli \in BOOLEAN /\ plan.deger \in PlanDeger /\ plan.deger \in Nat
           /\ uyg.adim \in {"bos", "sor", "yaz"} /\ uyg.plan \in Nat /\ uyg.sira \in Host
           /\ uyg.deger \in Nat /\ uyg.tam \in BOOLEAN
<1>1. aktif \in AktifKume /\ kayit \in KayitKume /\ plan \in PlanKume /\ uyg \in UygKume
    BY DEF Tip
<1>2. /\ aktif.var \in BOOLEAN /\ aktif.onceki \in Nat /\ aktif.deger \in Nat
      /\ aktif.uygulandi \in BOOLEAN /\ aktif.geri \in BOOLEAN /\ aktif.kurtar \in BOOLEAN
      /\ aktif.seviye \in 1 .. 3
    BY <1>1 DEF AktifKume
<1>3. /\ kayit.var \in BOOLEAN /\ kayit.onceki \in Nat /\ kayit.deger \in Nat
      /\ kayit.uygulandi \in BOOLEAN
    BY <1>1 DEF KayitKume
<1>4. plan.planli \in BOOLEAN /\ plan.deger \in PlanDeger /\ plan.deger \in Nat
    BY <1>1, PlanVarsayim DEF PlanKume
<1>5. /\ uyg.adim \in {"bos", "sor", "yaz"} /\ uyg.plan \in PlanDeger \cup {0}
      /\ uyg.sira \in Host /\ uyg.deger \in Nat /\ uyg.tam \in BOOLEAN
    BY <1>1 DEF UygKume
<1>6. uyg.plan \in Nat
    <2>1. \A x \in PlanDeger \cup {0} : x \in Nat
        BY PlanVarsayim
    <2> QED
        BY <1>5, <2>1
<1> QED
    BY <1>2, <1>3, <1>4, <1>5, <1>6

-----------------------------------------------------------------------------
(***************************************************************************)
(* Type correctness.                                                       *)
(***************************************************************************)
LEMMA TipBaslar == Init => Tip
<1> SUFFICES ASSUME Init PROVE Tip
    OBVIOUS
<1>1. plan \in PlanKume /\ plan.deger \in Nat
    BY PlanVarsayim DEF Init, PlanKume
<1>2. sinir \in [Host -> Nat] /\ okunan \in [Host -> Nat]
    BY <1>1 DEF Init, SinirYok
<1>3. sira \in 1 .. HostSayisi + 1 /\ ariza \in 0 .. ArizaSiniri /\ degisim \in 0 .. DegisimSiniri
    BY HostVarsayim, SinirVarsayim DEF Init
<1>4. kayit = KayitYok /\ aktif = AktifYok /\ uyg = UygYok /\ adim = "bos" /\ turMod = "gozlem"
    BY DEF Init
<1>5. /\ planAnlik \in Nat \cup {Yok} /\ hedef \in Nat /\ deneme \in 1 .. 2 /\ eski \in Nat
    BY DEF Init
<1>6. /\ panel \in {"acik", "kapali"} /\ asim \in BOOLEAN /\ guncel \in BOOLEAN
      /\ iyi \subseteq Host /\ kisitli \subseteq Host /\ vuran \subseteq Vuran
    BY DEF Init
<1> QED
    BY <1>1, <1>2, <1>3, <1>4, <1>5, <1>6, BosKayitlar DEF Tip, Mod, AdimKume

\* What the requests, the crash and the start change.
LEMMA TipDis == Tip /\ (Acilis \/ Cok \/ Dis) => Tip'
<1> SUFFICES ASSUME Tip, Acilis \/ Cok \/ Dis PROVE Tip'
    OBVIOUS
<1> USE HostVarsayim, SinirVarsayim, Alanlar
    DEF Tip, bellekVars, turVars, donguVars, planVars, disVars
<1>1. CASE Acilis
    BY <1>1 DEF Acilis, AdimKume
<1>2. CASE Cok
    <2>1. ariza' \in 0 .. ArizaSiniri
        BY <1>2 DEF Cok, Bozulur
    <2>2. SinirYok \in [Host -> Nat] /\ 1 \in 1 .. HostSayisi + 1
        BY DEF SinirYok
    <2>3. aktif' \in AktifKume /\ uyg' \in UygKume /\ guncel' \in BOOLEAN
        BY <1>2, BosKayitlar DEF Cok, Bellek
    <2>4. adim' \in AdimKume /\ turMod' \in Mod /\ panel' \in {"acik", "kapali"}
        BY <1>2 DEF Cok, Bellek, AdimKume, Mod
    <2>5. /\ okunan' \in [Host -> Nat] /\ planAnlik' \in Nat \cup {Yok}
          /\ hedef' \in Nat /\ sira' \in 1 .. HostSayisi + 1
          /\ deneme' \in 1 .. 2 /\ eski' \in Nat
        BY <1>2, <2>2 DEF Cok, Bellek
    <2>6. asim' \in BOOLEAN /\ iyi' \subseteq Host
        BY <1>2 DEF Cok, Bellek
    <2>7. UNCHANGED <<sinir, kayit, plan, degisim, kisitli, vuran>>
        BY <1>2 DEF Cok
    <2> QED
        BY <2>1, <2>3, <2>4, <2>5, <2>6, <2>7
<1>3. CASE PlanDegis
    <2>1. degisim' \in 0 .. DegisimSiniri
        BY <1>3 DEF PlanDegis
    <2>2. plan' \in PlanKume /\ plan'.deger \in PlanDeger
        BY <1>3 DEF PlanDegis, PlanKume
    <2>3. uyg' \in UygKume
        BY <1>3, <2>2, UygBaslar, BosKayitlar DEF PlanDegis
    <2> QED
        BY <1>3, <2>1, <2>2, <2>3 DEF PlanDegis
<1>4. CASE UygSor
    <2>1. uyg' \in UygKume
        BY <1>4, UygSorar DEF UygSor
    <2>2. planAnlik' \in Nat \cup {Yok}
        BY <1>4 DEF UygSor
    <2> QED
        BY <1>4, <2>1, <2>2 DEF UygSor
<1>5. CASE UygYaz
    <2>1. uyg' \in UygKume
        BY <1>5, UygIlerler, BosKayitlar DEF UygYaz
    <2>2. sinir' \in [Host -> Nat] /\ kisitli' \subseteq Host
        BY <1>5 DEF UygYaz
    <2>3. guncel' \in BOOLEAN
        BY <1>5 DEF UygYaz
    <2>4. vuran' \subseteq Vuran
        BY <1>5 DEF UygYaz, Vuran
    <2>5. ariza' \in 0 .. ArizaSiniri
        BY <1>5 DEF UygYaz, Bozulur, Saglam
    <2> QED
        BY <1>5, <2>1, <2>2, <2>3, <2>4, <2>5 DEF UygYaz
<1> QED
    BY <1>1, <1>2, <1>3, <1>4, <1>5 DEF Dis

LEMMA ArizaTip ==
    ASSUME ariza \in 0 .. ArizaSiniri, NEW a, Saglam \/ Bozulur(a)
    PROVE  ariza' \in 0 .. ArizaSiniri
BY SinirVarsayim DEF Saglam, Bozulur

LEMMA AlterTip ==
    ASSUME Tip, NEW kisit, AlterDongu(kisit)
    PROVE  Tip'
<1> USE HostVarsayim DEF Tip, AlterDongu, Host, disVars, bellekVars, turVars, planVars
<1>1. sinir' \in [Host -> Nat] /\ kisitli' \subseteq Host /\ iyi' \subseteq Host
    BY DEF Yaz
<1>2. ariza' \in 0 .. ArizaSiniri
    BY ArizaTip DEF AlterBozulur
<1>3. sira' \in 1 .. HostSayisi + 1
    OBVIOUS
<1> QED
    BY <1>1, <1>2, <1>3

-----------------------------------------------------------------------------
(***************************************************************************)
(* What the steps that change the restriction in memory do to it, field by *)
(* field.                                                                  *)
(***************************************************************************)
LEMMA KurtarAlir ==
    ASSUME Tip, aktif' = [AktifYok EXCEPT !.var = TRUE, !.onceki = kayit.onceki,
                                !.deger = kayit.deger, !.uygulandi = kayit.uygulandi,
                                !.kurtar = TRUE]
    PROVE  aktif' \in AktifKume /\ aktif'.var /\ aktif'.uygulandi = kayit.uygulandi /\ ~aktif'.geri
<1>1. aktif' = [var |-> TRUE, onceki |-> kayit.onceki, deger |-> kayit.deger,
                uygulandi |-> kayit.uygulandi, seviye |-> 1, kurtar |-> TRUE, geri |-> FALSE]
    BY DEF AktifYok
<1>2. kayit.onceki \in Nat /\ kayit.deger \in Nat /\ kayit.uygulandi \in BOOLEAN
    BY DEF Tip, KayitKume
<1>3. aktif' \in AktifKume
    BY ONLY <1>1, <1>2 DEF AktifKume
<1> QED
    BY ONLY <1>1, <1>3

LEMMA YapAlir ==
    ASSUME kayit' \in KayitKume, AktifYap
    PROVE  aktif' \in AktifKume /\ aktif'.var /\ aktif'.uygulandi = kayit'.uygulandi /\ ~aktif'.geri
<1>1. aktif' = [var |-> TRUE, onceki |-> kayit'.onceki, deger |-> kayit'.deger,
                uygulandi |-> kayit'.uygulandi, seviye |-> 1, kurtar |-> FALSE, geri |-> FALSE]
    BY DEF AktifYap, AktifYok
<1>2. kayit'.onceki \in Nat /\ kayit'.deger \in Nat /\ kayit'.uygulandi \in BOOLEAN
    BY DEF KayitKume
<1> QED
    BY <1>1, <1>2 DEF AktifKume

LEMMA SeviyeDegisir ==
    ASSUME Tip, NEW s \in 1 .. 3, aktif' = [aktif EXCEPT !.seviye = s]
    PROVE  /\ aktif' \in AktifKume /\ aktif'.var = aktif.var /\ aktif'.uygulandi = aktif.uygulandi
           /\ aktif'.geri = aktif.geri
BY DEF Tip, AktifKume

LEMMA DegerDegisir ==
    ASSUME Tip, NEW d \in Nat, aktif' = [aktif EXCEPT !.deger = d]
    PROVE  /\ aktif' \in AktifKume /\ aktif'.var = aktif.var /\ aktif'.uygulandi = aktif.uygulandi
           /\ aktif'.geri = aktif.geri
BY DEF Tip, AktifKume

LEMMA GeriDegisir ==
    ASSUME Tip, NEW g \in BOOLEAN, aktif' = [aktif EXCEPT !.geri = g]
    PROVE  /\ aktif' \in AktifKume /\ aktif'.var = aktif.var /\ aktif'.uygulandi = aktif.uygulandi
           /\ aktif'.geri = g
BY DEF Tip, AktifKume

\* Kurtar: the row becomes a restriction that is released at once, or was not read.
LEMMA KurtarOzet ==
    ASSUME Tip, Kurtar
    PROVE  /\ aktif' \in AktifKume
           /\ adim = "kurtar"
           /\ \/ /\ kayit.var /\ adim' = "birak" /\ UNCHANGED vuran
                 /\ aktif'.var /\ aktif'.uygulandi = kayit.uygulandi /\ ~aktif'.geri
              \/ ~kayit.var /\ adim' = "bos" /\ aktif' = AktifYok /\ UNCHANGED vuran
              \/ adim' = "bos" /\ UNCHANGED aktif /\ vuran' = vuran \cup {"liste"}
<1>1. CASE aktif' = [AktifYok EXCEPT !.var = TRUE, !.onceki = kayit.onceki,
                                !.deger = kayit.deger, !.uygulandi = kayit.uygulandi,
                                !.kurtar = TRUE]
           /\ kayit.var /\ adim' = "birak" /\ UNCHANGED vuran
    <2>1. aktif' \in AktifKume /\ aktif'.var /\ aktif'.uygulandi = kayit.uygulandi /\ ~aktif'.geri
        BY <1>1, KurtarAlir
    <2> QED
        BY <1>1, <2>1 DEF Kurtar
<1>2. CASE ~kayit.var /\ adim' = "bos" /\ aktif' = AktifYok /\ UNCHANGED vuran
    BY <1>2, BosKayitlar DEF Kurtar
<1>3. CASE adim' = "bos" /\ UNCHANGED aktif /\ vuran' = vuran \cup {"liste"}
    BY <1>3 DEF Kurtar, Tip
<1> QED
    BY <1>1, <1>2, <1>3 DEF Kurtar, Gec

LEMMA TirmanOzet ==
    ASSUME Tip, Tirman
    PROVE  /\ aktif' \in AktifKume /\ aktif'.var = aktif.var /\ aktif'.uygulandi = aktif.uygulandi
           /\ aktif'.geri = aktif.geri
           /\ adim = "kisitla" /\ aktif.var
           /\ adim' = Sonra \/ (adim' = "s3Oku" /\ KisitSurer)
<1>1. CASE UNCHANGED <<aktif, eski>> /\ Gec(Sonra)
    BY <1>1 DEF Tirman, Gec, Tip
<1>2. CASE aktif' = [aktif EXCEPT !.seviye = 2] /\ Gec(Sonra)
    <2>1. 2 \in 1 .. 3
        OBVIOUS
    <2> QED
        BY <1>2, <2>1, SeviyeDegisir DEF Tirman, Gec
<1>3. CASE KisitSurer /\ aktif' = [aktif EXCEPT !.deger = 1] /\ Gec("s3Oku")
    <2>1. 1 \in Nat
        OBVIOUS
    <2> QED
        BY <1>3, <2>1, DegerDegisir DEF Tirman, Gec
<1> QED
    BY <1>1, <1>2, <1>3 DEF Tirman

LEMMA AcOzet ==
    ASSUME Tip, Ac
    PROVE  /\ aktif' \in AktifKume /\ kayit' \in KayitKume /\ adim = "ac"
           /\ \/ /\ ~kayit.var /\ kayit'.var /\ turMod = "uygula" /\ kayit'.uygulandi
                 /\ UNCHANGED aktif /\ adim' = "kisAlter" /\ sira' = 1 /\ iyi' = {}
              \/ /\ ~kayit.var /\ kayit'.var /\ turMod # "uygula" /\ ~kayit'.uygulandi
                 /\ aktif'.var /\ ~aktif'.uygulandi /\ ~aktif'.geri /\ adim' = Sonra
              \/ UNCHANGED <<kayit, aktif>> /\ adim' = Sonra
<1>1. CASE ~kayit.var /\ kayit' = YeniKayit /\ turMod = "uygula" /\ Gec("kisAlter")
           /\ UNCHANGED aktif /\ sira' = 1 /\ iyi' = {}
    BY <1>1, YeniKayitTip DEF Ac, Gec, Tip
<1>2. CASE ~kayit.var /\ kayit' = YeniKayit /\ turMod # "uygula" /\ Gec(Sonra) /\ AktifYap
    <2>1. kayit' \in KayitKume /\ kayit'.var /\ ~kayit'.uygulandi
        BY <1>2, YeniKayitTip
    <2>2. aktif' \in AktifKume /\ aktif'.var /\ aktif'.uygulandi = kayit'.uygulandi /\ ~aktif'.geri
        BY <1>2, <2>1, YapAlir
    <2> QED
        BY <1>2, <2>1, <2>2 DEF Ac, Gec
<1>3. CASE UNCHANGED <<kayit, aktif>> /\ Gec(Sonra)
    BY <1>3 DEF Ac, Gec, Tip
<1> QED
    BY <1>1, <1>2, <1>3 DEF Ac

LEMMA KisitBittiOzet ==
    ASSUME Tip, KisitBitti
    PROVE  /\ aktif' \in AktifKume /\ kayit' \in KayitKume /\ adim = "kisAlter" /\ sira \notin Host
           /\ adim' = Sonra
           /\ \/ /\ iyi # {} /\ UNCHANGED <<kayit, vuran>>
                 /\ aktif'.var /\ aktif'.uygulandi = kayit.uygulandi /\ ~aktif'.geri
              \/ /\ iyi = {} /\ kayit' = KayitYok /\ UNCHANGED aktif
                 /\ vuran' = vuran \cup (IF kisitli # {} THEN {"yanit"} ELSE {})
              \/ /\ iyi = {} /\ UNCHANGED <<kayit, aktif>> /\ vuran' = vuran \cup {"kapanmadi"}
<1>1. CASE iyi # {} /\ UNCHANGED kayit /\ AktifYap /\ UNCHANGED vuran
    <2>1. kayit' \in KayitKume
        BY <1>1 DEF Tip
    <2>2. aktif' \in AktifKume /\ aktif'.var /\ aktif'.uygulandi = kayit'.uygulandi /\ ~aktif'.geri
        BY <1>1, <2>1, YapAlir
    <2> QED
        BY <1>1, <2>1, <2>2 DEF KisitBitti, Gec
<1>2. CASE /\ iyi = {} /\ kayit' = KayitYok /\ UNCHANGED aktif
           /\ vuran' = vuran \cup (IF kisitli # {} THEN {"yanit"} ELSE {})
    BY <1>2, BosKayitlar DEF KisitBitti, Gec, Tip
<1>3. CASE iyi = {} /\ UNCHANGED <<kayit, aktif>> /\ vuran' = vuran \cup {"kapanmadi"}
    BY <1>3 DEF KisitBitti, Gec, Tip
<1> QED
    BY <1>1, <1>2, <1>3 DEF KisitBitti

LEMMA Seviye3OkuOzet ==
    ASSUME Tip, Seviye3Oku
    PROVE  /\ aktif' \in AktifKume /\ aktif'.var = aktif.var /\ aktif'.uygulandi = aktif.uygulandi
           /\ aktif'.geri = aktif.geri
           /\ adim = "s3Oku" /\ adim' \in {"s3Alter", Sonra}
<1>1. CASE UNCHANGED aktif /\ Gec("s3Alter")
    BY <1>1 DEF Seviye3Oku, Gec, Tip
<1>2. CASE aktif' = [aktif EXCEPT !.deger = eski] /\ Gec(Sonra)
    <2>1. eski \in Nat
        BY DEF Tip
    <2> QED
        BY <1>2, <2>1, DegerDegisir DEF Seviye3Oku, Gec
<1> QED
    BY <1>1, <1>2 DEF Seviye3Oku

LEMMA Seviye3BittiOzet ==
    ASSUME Tip, Seviye3Bitti
    PROVE  /\ aktif' \in AktifKume /\ aktif'.var = aktif.var /\ aktif'.uygulandi = aktif.uygulandi
           /\ aktif'.geri = aktif.geri
           /\ adim = "s3Alter" /\ adim' = Sonra
<1>1. CASE UNCHANGED aktif
    BY <1>1 DEF Seviye3Bitti, Gec, Tip
<1>2. CASE aktif' = [aktif EXCEPT !.deger = eski]
    <2>1. eski \in Nat
        BY DEF Tip
    <2> QED
        BY <1>2, <2>1, DegerDegisir DEF Seviye3Bitti, Gec
<1>3. CASE aktif' = [aktif EXCEPT !.seviye = 3]
    <2>1. 3 \in 1 .. 3
        OBVIOUS
    <2> QED
        BY <1>3, <2>1, SeviyeDegisir DEF Seviye3Bitti, Gec
<1> QED
    BY <1>1, <1>2, <1>3 DEF Seviye3Bitti

LEMMA BirakOzet ==
    ASSUME Tip, Birak
    PROVE  /\ aktif' \in AktifKume /\ aktif'.var = aktif.var /\ aktif'.uygulandi = aktif.uygulandi
           /\ adim = "birak"
           /\ \/ KisitSurer /\ aktif'.geri /\ adim' = "birakOku"
              \/ ~KisitSurer /\ UNCHANGED aktif /\ adim' = "kapat"
<1>1. CASE KisitSurer /\ aktif' = [aktif EXCEPT !.geri = TRUE] /\ Gec("birakOku")
    BY <1>1, GeriDegisir DEF Birak, Gec
<1>2. CASE ~KisitSurer /\ UNCHANGED aktif /\ Gec("kapat")
    BY <1>2 DEF Birak, Gec, Tip
<1> QED
    BY <1>1, <1>2 DEF Birak

LEMMA BirakOkuOzet ==
    ASSUME Tip, BirakOku
    PROVE  /\ aktif' \in AktifKume /\ aktif'.var = aktif.var /\ aktif'.uygulandi = aktif.uygulandi
           /\ adim = "birakOku"
           /\ \/ UNCHANGED aktif /\ adim' = "birakHedef" /\ okunan' = sinir
              \/ ~aktif'.geri /\ adim' = "yaz"
<1>1. CASE UNCHANGED aktif /\ Gec("birakHedef") /\ okunan' = sinir
    BY <1>1 DEF BirakOku, Gec, Tip
<1>2. CASE aktif' = [aktif EXCEPT !.geri = FALSE] /\ Gec("yaz")
    BY <1>2, GeriDegisir DEF BirakOku, Gec
<1> QED
    BY <1>1, <1>2 DEF BirakOku, GeriYazmaIptal

\* The write-back is over: given up, done, to be done again, or left at its second try.
LEMMA BirakBittiOzet ==
    ASSUME Tip, BirakBitti
    PROVE  /\ aktif' \in AktifKume /\ aktif'.var = aktif.var /\ aktif'.uygulandi = aktif.uygulandi
           /\ adim = "birakAlter" /\ sira \notin Host
           /\ \/ iyi # Host /\ ~aktif'.geri /\ adim' = "yaz" /\ UNCHANGED <<deneme, vuran>>
              \/ /\ iyi = Host /\ UNCHANGED aktif /\ adim' = "kapat"
                 /\ \/ HedefDeger(TRUE) = hedef /\ UNCHANGED <<deneme, vuran>>
                    \/ UNCHANGED deneme /\ vuran' = vuran \cup {"oku"}
                    \/ UNCHANGED deneme /\ vuran' = vuran \cup {"deneme"}
              \/ /\ iyi = Host /\ UNCHANGED aktif /\ adim' = "birakOku"
                 /\ deneme # 2 /\ deneme' = deneme + 1
                 /\ UNCHANGED vuran \/ vuran' = vuran \cup {"oku"}
<1>1. CASE iyi # Host /\ aktif' = [aktif EXCEPT !.geri = FALSE] /\ Gec("yaz")
           /\ UNCHANGED <<deneme, vuran>>
    BY <1>1, GeriDegisir DEF BirakBitti, Gec
<1>2. CASE iyi = Host /\ UNCHANGED aktif /\ Gec("kapat") /\ UNCHANGED deneme
           /\ \E okundu \in BOOLEAN : PlanOku(okundu) /\ HedefDeger(okundu) = hedef
    <2>1. PICK okundu \in BOOLEAN : PlanOku(okundu) /\ HedefDeger(okundu) = hedef
        BY <1>2
    <2>2. CASE okundu
        BY <1>2, <2>1, <2>2 DEF BirakBitti, PlanOku, Gec, Tip
    <2>3. CASE ~okundu
        BY <1>2, <2>1, <2>3 DEF BirakBitti, PlanOku, Gec, Tip
    <2> QED
        BY <2>2, <2>3
<1>3. CASE iyi = Host /\ UNCHANGED aktif /\ Gec("birakOku") /\ ~SonDeneme /\ deneme' = deneme + 1
           /\ \E okundu \in BOOLEAN : PlanOku(okundu)
    <2>1. PICK okundu \in BOOLEAN : PlanOku(okundu)
        BY <1>3
    <2> QED
        BY <1>3, <2>1 DEF BirakBitti, PlanOku, Gec, Tip, SonDeneme
<1>4. CASE iyi = Host /\ UNCHANGED <<aktif, deneme>> /\ Gec("kapat")
           /\ vuran' = vuran \cup {"deneme"}
    BY <1>4 DEF BirakBitti, Gec, Tip
<1> QED
    BY <1>1, <1>2, <1>3, <1>4 DEF BirakBitti, GeriYazmaIptal

LEMMA TurBittiOzet ==
    ASSUME Tip, TurBitti
    PROVE  /\ kayit' \in KayitKume /\ kayit'.var = kayit.var /\ kayit'.uygulandi = kayit.uygulandi
           /\ adim = "yaz" /\ adim' = "bos"
<1>1. CASE UNCHANGED kayit
    BY <1>1 DEF TurBitti, Gec, Tip
<1>2. CASE kayit' = [kayit EXCEPT !.deger = aktif.deger]
    BY <1>2, Alanlar DEF TurBitti, Gec, Tip, KayitKume
<1> QED
    BY <1>1, <1>2 DEF TurBitti

LEMMA TipMotor == Tip /\ Motor => Tip'
<1> SUFFICES ASSUME Tip, Motor PROVE Tip'
    OBVIOUS
<1>0. /\ aktif \in AktifKume /\ kayit \in KayitKume /\ sinir \in [Host -> Nat]
      /\ 1 \in 1 .. HostSayisi + 1 /\ SinirYok \in [Host -> Nat]
    BY HostVarsayim DEF Tip, SinirYok
<1> USE ArizaTip, Alanlar, BosKayitlar
    DEF Tip, bellekVars, turVars, donguVars, planVars, disVars, Gec
<1>1. CASE Kurtar
    <2>1. aktif' \in AktifKume
        BY <1>1, KurtarOzet
    <2>2. vuran' \subseteq Vuran /\ ariza' \in 0 .. ArizaSiniri
        BY <1>1 DEF Kurtar, Vuran
    <2> QED
        BY <1>1, <2>1, <2>2 DEF Kurtar, AdimKume
<1>2. CASE TickBasla
    <2>1. ariza' \in 0 .. ArizaSiniri /\ adim' \in AdimKume /\ turMod' \in Mod /\ asim' \in BOOLEAN
        BY <1>2 DEF TickBasla, AdimKume, Mod
    <2> QED
        BY <1>2, <2>1 DEF TickBasla
<1>3. CASE Tirman
    <2>1. aktif' \in AktifKume
        BY <1>3, TirmanOzet
    <2>2. eski' \in Nat /\ adim' \in AdimKume
        BY <1>3 DEF Tirman, Sonra, AdimKume
    <2> QED
        BY <1>3, <2>1, <2>2 DEF Tirman
<1>4. CASE KisitOku
    <2>1. okunan' \in [Host -> Nat]
        BY <1>0, <1>4 DEF KisitOku
    <2>2. ariza' \in 0 .. ArizaSiniri /\ adim' \in AdimKume
        BY <1>4 DEF KisitOku, Sonra, AdimKume
    <2> QED
        BY <1>4, <2>1, <2>2 DEF KisitOku
<1>5. CASE Ac
    <2>1. kayit' \in KayitKume /\ kayit'.onceki \in Nat /\ kayit'.deger \in Nat /\ kayit'.uygulandi \in BOOLEAN
        <3>1. kayit' \in KayitKume
            BY <1>0, <1>5, YeniKayitTip DEF Ac
        <3> QED
            BY <3>1 DEF KayitKume
    <2>2. aktif' \in AktifKume
        BY <1>5, AcOzet
    <2>3. hedef' \in Nat /\ sira' \in 1 .. HostSayisi + 1 /\ iyi' \subseteq Host
        BY <1>0, <1>5, <2>1 DEF Ac
    <2>4. ariza' \in 0 .. ArizaSiniri /\ adim' \in AdimKume
        BY <1>5 DEF Ac, Sonra, AdimKume
    <2> QED
        BY <1>5, <2>1, <2>2, <2>3, <2>4 DEF Ac
<1>6. CASE KisitAlter \/ Seviye3Alter \/ DogrulaAlter \/ BirakAlter
    BY <1>6, AlterTip DEF KisitAlter, Seviye3Alter, DogrulaAlter, BirakAlter
<1>7. CASE KisitBitti
    <2>1. kayit' \in KayitKume /\ kayit'.onceki \in Nat /\ kayit'.deger \in Nat /\ kayit'.uygulandi \in BOOLEAN
        <3>1. kayit' \in KayitKume
            BY <1>0, <1>7 DEF KisitBitti
        <3> QED
            BY <3>1 DEF KayitKume
    <2>2. aktif' \in AktifKume
        BY <1>7, KisitBittiOzet
    <2>3. vuran' \subseteq Vuran
        BY <1>7 DEF KisitBitti, Vuran
    <2>4. ariza' \in 0 .. ArizaSiniri /\ adim' \in AdimKume
        BY <1>7 DEF KisitBitti, Sonra, AdimKume
    <2> QED
        BY <1>7, <2>1, <2>2, <2>3, <2>4 DEF KisitBitti
<1>8. CASE Seviye3Oku
    <2>1. aktif' \in AktifKume
        BY <1>8, Seviye3OkuOzet
    <2>2. okunan' \in [Host -> Nat] /\ hedef' \in Nat /\ sira' \in 1 .. HostSayisi + 1 /\ iyi' \subseteq Host
        BY <1>0, <1>8 DEF Seviye3Oku
    <2>3. ariza' \in 0 .. ArizaSiniri /\ adim' \in AdimKume
        BY <1>8 DEF Seviye3Oku, Sonra, AdimKume
    <2> QED
        BY <1>8, <2>1, <2>2, <2>3 DEF Seviye3Oku
<1>9. CASE Seviye3Bitti
    <2>1. aktif' \in AktifKume
        BY <1>9, Seviye3BittiOzet
    <2>2. ariza' \in 0 .. ArizaSiniri /\ adim' \in AdimKume
        BY <1>9 DEF Seviye3Bitti, Sonra, AdimKume
    <2> QED
        BY <1>9, <2>1, <2>2 DEF Seviye3Bitti
<1>10. CASE Dogrula
    <2>1. Beklenen \in Nat
        BY DEF Beklenen
    <2>2. okunan' \in [Host -> Nat] /\ hedef' \in Nat /\ sira' \in 1 .. HostSayisi + 1 /\ iyi' \subseteq Host
        BY <1>0, <1>10, <2>1 DEF Dogrula
    <2>3. ariza' \in 0 .. ArizaSiniri /\ adim' \in AdimKume
        BY <1>10 DEF Dogrula, AdimKume
    <2> QED
        BY <1>10, <2>2, <2>3 DEF Dogrula
<1>11. CASE DogrulaBitti
    BY <1>11 DEF DogrulaBitti, AdimKume
<1>12. CASE BirakSec
    BY <1>12 DEF BirakSec, AdimKume
<1>13. CASE Birak
    <2>1. aktif' \in AktifKume
        BY <1>13, BirakOzet
    <2>2. deneme' \in 1 .. 2 /\ adim' \in AdimKume
        BY <1>13 DEF Birak, AdimKume
    <2> QED
        BY <1>13, <2>1, <2>2 DEF Birak
<1>14. CASE BirakOku
    <2>1. aktif' \in AktifKume
        BY <1>14, BirakOkuOzet
    <2>2. okunan' \in [Host -> Nat]
        BY <1>0, <1>14 DEF BirakOku
    <2>3. ariza' \in 0 .. ArizaSiniri /\ adim' \in AdimKume
        BY <1>14 DEF BirakOku, GeriYazmaIptal, AdimKume
    <2> QED
        BY <1>14, <2>1, <2>2, <2>3 DEF BirakOku
<1>15. CASE BirakHedef
    <2>1. hedef' \in Nat
        BY <1>15 DEF BirakHedef, HedefDeger
    <2>2. ariza' \in 0 .. ArizaSiniri /\ vuran' \subseteq Vuran
        BY <1>15 DEF BirakHedef, PlanOku, Vuran
    <2>3. sira' \in 1 .. HostSayisi + 1 /\ iyi' \subseteq Host /\ adim' \in AdimKume
        BY <1>0, <1>15 DEF BirakHedef, AdimKume
    <2> QED
        BY <1>15, <2>1, <2>2, <2>3 DEF BirakHedef
<1>16. CASE BirakBitti
    <2>1. aktif' \in AktifKume
        BY <1>16, BirakBittiOzet
    <2>2. deneme' \in 1 .. 2
        BY <1>16 DEF BirakBitti, SonDeneme, GeriYazmaIptal, HedefDeger
    <2>3. ariza' \in 0 .. ArizaSiniri /\ vuran' \subseteq Vuran
        BY <1>16 DEF BirakBitti, PlanOku, Vuran
    <2>4. adim' \in AdimKume
        BY <1>16 DEF BirakBitti, GeriYazmaIptal, AdimKume
    <2> QED
        BY <1>16, <2>1, <2>2, <2>3, <2>4 DEF BirakBitti
<1>17. CASE Kapat
    <2>1. ariza' \in 0 .. ArizaSiniri /\ adim' \in AdimKume
        BY <1>17 DEF Kapat, AdimKume
    <2>2. planAnlik' \in Nat \cup {Yok} /\ aktif' \in AktifKume /\ kayit' \in KayitKume
        BY <1>0, <1>17 DEF Kapat
    <2> QED
        BY <1>17, <2>1, <2>2 DEF Kapat
<1>18. CASE TurBitti
    <2>1. kayit' \in KayitKume
        BY <1>18, TurBittiOzet
    <2>2. /\ adim' \in AdimKume /\ turMod' \in Mod /\ asim' \in BOOLEAN
          /\ okunan' \in [Host -> Nat] /\ iyi' \subseteq Host
        BY <1>0, <1>18 DEF TurBitti, AdimKume, Mod
    <2>3. hedef' \in Nat /\ sira' \in 1 .. HostSayisi + 1 /\ deneme' \in 1 .. 2 /\ eski' \in Nat
        BY <1>0, <1>18 DEF TurBitti
    <2> QED
        BY <1>18, <2>1, <2>2, <2>3 DEF TurBitti
<1> QED
    BY <1>1, <1>2, <1>3, <1>4, <1>5, <1>6, <1>7, <1>8, <1>9, <1>10, <1>11, <1>12, <1>13, <1>14,
       <1>15, <1>16, <1>17, <1>18 DEF Motor, KisitAdimi, Seviye3Adimi, DogrulaAdimi, BirakAdimi

LEMMA TipKorunur == Tip /\ [Next]_vars => Tip'
<1>1. Tip /\ UNCHANGED vars => Tip'
    BY DEF Tip, vars, bellekVars, turVars, donguVars, planVars
<1> QED
    BY <1>1, TipDis, TipMotor DEF Next

\* Whatever fails, crashes or races, the state of the governor, of the request
\* and of MariaDB stays in its type (TypeOK).
THEOREM TipDogru == Spec => []TypeOK
<1>1. Tip => TypeOK
    BY TipEs
<1> QED
    BY TipBaslar, TipKorunur, <1>1, PTL DEF Spec

-----------------------------------------------------------------------------
(***************************************************************************)
(* Where the restriction is.  The row is opened before anything is written *)
(* and closed after everything was written back, and the record in memory  *)
(* lies in between: it never says more than the row, in no step of a turn  *)
(* and after no crash.                                                     *)
(***************************************************************************)
YerDurumu ==
    /\ kayit.uygulandi => kayit.var
    /\ aktif.var => kayit.var /\ aktif.uygulandi = kayit.uygulandi
    /\ panel = "kapali" => adim = "bos" /\ ~aktif.var /\ uyg.adim = "bos"
    /\ adim \in {"kurtar", "ac", "kisAlter"} => ~aktif.var
    /\ adim = "kisAlter" => kayit.uygulandi
    /\ adim \in {"s3Oku", "s3Alter", "dogAlter"} => KisitSurer
    /\ adim \in {"birakOku", "birakHedef", "birakAlter"} =>
         aktif.var /\ aktif.uygulandi /\ aktif.geri
    /\ adim = "birak" => aktif.var
    /\ adim = "kapat" => aktif.var /\ ~KisitSurer

\* What the requests do to their own record.
LEMMA UygOzet ==
    ASSUME Tip, Dis
    PROVE  /\ UNCHANGED <<kayit, panel, aktif, adim>>
           /\ \/ PlanDegis /\ panel = "acik"
              \/ UygSor /\ uyg.adim = "sor"
              \/ UygYaz /\ uyg.adim = "yaz"
BY DEF Dis, PlanDegis, UygSor, UygYaz, bellekVars

LEMMA SonraYer == Sonra \in {"dogrula", "birakSec"}
BY DEF Sonra

LEMMA YerBaslar == Init => YerDurumu
BY BosKayitlar DEF Init, YerDurumu

LEMMA AlterYer == \* a turn of a loop touches neither the row nor the restriction
    ASSUME NEW kisit, AlterDongu(kisit)
    PROVE  UNCHANGED <<kayit, panel, uyg, plan, guncel, degisim, aktif, planAnlik, adim, turMod,
                       asim, okunan, hedef, deneme, eski, vuran>>
BY DEF AlterDongu, disVars, bellekVars, turVars, planVars

LEMMA YerKorunur == Tip /\ YerDurumu /\ [Next]_vars => YerDurumu'
<1> SUFFICES ASSUME Tip, YerDurumu, [Next]_vars PROVE YerDurumu'
    OBVIOUS
<1> USE Alanlar, BosKayitlar, SonraYer
    DEF YerDurumu, KisitSurer, bellekVars, turVars, donguVars, planVars, disVars, Gec
<1>1. CASE Acilis
    BY <1>1 DEF Acilis
<1>2. CASE Cok
    BY <1>2 DEF Cok, Bellek
<1>3. CASE Dis
    <2>1. UNCHANGED <<kayit, panel, aktif, adim>>
        BY <1>3, UygOzet
    <2>2. panel = "acik"
        BY <1>3, UygOzet DEF Tip
    <2> QED
        BY <2>1, <2>2
<1>4. CASE Kurtar
    <2>1. UNCHANGED <<kayit, panel, uyg>>
        BY <1>4 DEF Kurtar
    <2> QED
        BY <1>4, <2>1, KurtarOzet
<1>5. CASE TickBasla
    BY <1>5 DEF TickBasla
<1>6. CASE Tirman
    <2>1. UNCHANGED <<kayit, panel, uyg>>
        BY <1>6 DEF Tirman
    <2> QED
        BY <1>6, <2>1, TirmanOzet
<1>7. CASE KisitOku
    BY <1>7 DEF KisitOku
<1>8. CASE Ac
    <2>1. UNCHANGED <<panel, uyg>>
        BY <1>8 DEF Ac
    <2>2. adim = "ac" /\ ~aktif.var /\ panel # "kapali"
        BY <1>8, AcOzet
    <2>3. CASE kayit'.var /\ kayit'.uygulandi /\ UNCHANGED aktif /\ adim' = "kisAlter"
        BY <2>1, <2>2, <2>3
    <2>4. CASE kayit'.var /\ ~kayit'.uygulandi /\ aktif'.var /\ ~aktif'.uygulandi /\ adim' = Sonra
        <3>1. kayit'.uygulandi \in BOOLEAN /\ aktif'.uygulandi \in BOOLEAN
            BY <1>8, AcOzet DEF KayitKume, AktifKume
        <3>2. aktif'.uygulandi = kayit'.uygulandi
            BY <2>4, <3>1
        <3> QED
            BY <2>1, <2>2, <2>4, <3>2
    <2>5. CASE UNCHANGED <<kayit, aktif>> /\ adim' = Sonra
        BY <2>1, <2>2, <2>5
    <2> QED
        BY <1>8, <2>3, <2>4, <2>5, AcOzet
<1>9. CASE KisitAlter \/ Seviye3Alter \/ DogrulaAlter \/ BirakAlter
    <2>1. UNCHANGED <<kayit, panel, uyg, aktif, adim>>
        BY <1>9, AlterYer DEF KisitAlter, Seviye3Alter, DogrulaAlter, BirakAlter
    <2> QED
        BY <2>1
<1>10. CASE KisitBitti
    <2>1. UNCHANGED <<panel, uyg>>
        BY <1>10 DEF KisitBitti
    <2> QED
        BY <1>10, <2>1, KisitBittiOzet
<1>11. CASE Seviye3Oku
    <2>1. UNCHANGED <<kayit, panel, uyg>>
        BY <1>11 DEF Seviye3Oku
    <2> QED
        BY <1>11, <2>1, Seviye3OkuOzet
<1>12. CASE Seviye3Bitti
    <2>1. UNCHANGED <<kayit, panel, uyg>>
        BY <1>12 DEF Seviye3Bitti
    <2> QED
        BY <1>12, <2>1, Seviye3BittiOzet
<1>13. CASE Dogrula
    BY <1>13 DEF Dogrula
<1>14. CASE DogrulaBitti
    BY <1>14 DEF DogrulaBitti
<1>15. CASE BirakSec
    BY <1>15 DEF BirakSec
<1>16. CASE Birak
    <2>1. UNCHANGED <<kayit, panel, uyg>>
        BY <1>16 DEF Birak
    <2> QED
        BY <1>16, <2>1, BirakOzet
<1>17. CASE BirakOku
    <2>1. UNCHANGED <<kayit, panel, uyg>>
        BY <1>17 DEF BirakOku
    <2> QED
        BY <1>17, <2>1, BirakOkuOzet
<1>18. CASE BirakHedef
    BY <1>18 DEF BirakHedef
<1>19. CASE BirakBitti
    <2>1. UNCHANGED <<kayit, panel, uyg>>
        BY <1>19 DEF BirakBitti
    <2> QED
        BY <1>19, <2>1, BirakBittiOzet
<1>20. CASE Kapat
    BY <1>20 DEF Kapat
<1>21. CASE TurBitti
    <2>1. UNCHANGED <<panel, uyg, aktif>>
        BY <1>21 DEF TurBitti
    <2> QED
        BY <1>21, <2>1, TurBittiOzet
<1>22. CASE UNCHANGED vars
    BY <1>22 DEF vars
<1> QED
    BY <1>1, <1>2, <1>3, <1>4, <1>5, <1>6, <1>7, <1>8, <1>9, <1>10, <1>11, <1>12, <1>13, <1>14,
       <1>15, <1>16, <1>17, <1>18, <1>19, <1>20, <1>21, <1>22
    DEF Next, Motor, KisitAdimi, Seviye3Adimi, DogrulaAdimi, BirakAdimi

-----------------------------------------------------------------------------
(***************************************************************************)
(* An open row is held in memory.  There are two moments at which it is    *)
(* not, and they are named: Kurtar has not read the rows yet, or the row   *)
(* was opened and the first ALTERs are under way.                          *)
(***************************************************************************)
SahipDurumu ==
    /\ vuran \cap {"liste", "kapanmadi"} = {}
    /\ panel = "acik" /\ adim \notin {"kurtar", "kisAlter"}
    => (kayit.var => aktif.var)

\* What struck once is only forgotten by a start.
LEMMA VuranKalir == Cok \/ Dis \/ Motor => vuran \subseteq vuran'
<1> USE DEF bellekVars, turVars, donguVars, planVars, disVars
<1>1. Cok \/ PlanDegis \/ UygSor \/ UygYaz => vuran \subseteq vuran'
    BY DEF Cok, PlanDegis, UygSor, UygYaz
<1>2. Kurtar \/ TickBasla \/ Tirman \/ KisitOku \/ Ac \/ KisitBitti => vuran \subseteq vuran'
    BY DEF Kurtar, TickBasla, Tirman, KisitOku, Ac, KisitBitti
<1>3. ASSUME KisitAlter \/ Seviye3Alter \/ DogrulaAlter \/ BirakAlter
      PROVE  vuran \subseteq vuran'
    BY <1>3, AlterYer DEF KisitAlter, Seviye3Alter, DogrulaAlter, BirakAlter
<1>4. Seviye3Oku \/ Seviye3Bitti \/ Dogrula \/ DogrulaBitti => vuran \subseteq vuran'
    BY DEF Seviye3Oku, Seviye3Bitti, Dogrula, DogrulaBitti
<1>5. BirakSec \/ Birak \/ BirakOku \/ Kapat \/ TurBitti => vuran \subseteq vuran'
    BY DEF BirakSec, Birak, BirakOku, Kapat, TurBitti
<1>6. BirakHedef \/ BirakBitti => vuran \subseteq vuran'
    BY DEF BirakHedef, BirakBitti, PlanOku
<1> QED
    BY <1>1, <1>2, <1>3, <1>4, <1>5, <1>6
    DEF Dis, Motor, KisitAdimi, Seviye3Adimi, DogrulaAdimi, BirakAdimi

LEMMA SahipBaslar == Init => SahipDurumu
BY DEF Init, SahipDurumu

LEMMA SahipKorunur == Tip /\ YerDurumu /\ SahipDurumu /\ [Next]_vars => SahipDurumu'
<1> SUFFICES ASSUME Tip, YerDurumu, SahipDurumu, [Next]_vars,
                    vuran' \cap {"liste", "kapanmadi"} = {},
                    panel' = "acik", adim' \notin {"kurtar", "kisAlter"}
             PROVE  kayit'.var => aktif'.var
    BY DEF SahipDurumu
<1> USE BosKayitlar DEF YerDurumu, bellekVars, planVars, disVars, Gec
<1>1. CASE Acilis
    BY <1>1 DEF Acilis
<1>2. CASE Cok
    BY <1>2 DEF Cok
<1>3. CASE UNCHANGED vars
    BY <1>3 DEF vars, SahipDurumu
<1>4. CASE Dis
    <2>1. UNCHANGED <<kayit, panel, aktif, adim>> /\ vuran \subseteq vuran'
        BY <1>4, UygOzet, VuranKalir
    <2> QED
        BY <2>1 DEF SahipDurumu
<1>5. CASE Motor
    <2>1. vuran \cap {"liste", "kapanmadi"} = {}
        BY <1>5, VuranKalir
    <2>2. panel = "acik"
        BY <1>5 DEF Motor, Kurtar, TickBasla, KisitAdimi, Tirman, KisitOku, Ac, KisitAlter,
              KisitBitti, Seviye3Adimi, Seviye3Oku, Seviye3Alter, Seviye3Bitti, DogrulaAdimi,
              Dogrula, DogrulaAlter, DogrulaBitti, BirakAdimi, BirakSec, Birak, BirakOku,
              BirakHedef, BirakAlter, BirakBitti, Kapat, TurBitti, Tip
    <2>3. adim \notin {"kurtar", "kisAlter"} => (kayit.var => aktif.var)
        BY <2>1, <2>2 DEF SahipDurumu
    <2>4. CASE Kurtar
        <3>1. UNCHANGED kayit
            BY <2>4 DEF Kurtar
        <3> QED
            BY <2>4, <3>1, KurtarOzet
    <2>5. CASE TickBasla \/ KisitOku \/ Dogrula \/ DogrulaBitti \/ BirakSec \/ BirakHedef
        BY <2>3, <2>5 DEF TickBasla, KisitOku, Dogrula, DogrulaBitti, BirakSec, BirakHedef
    <2>6. CASE Tirman
        <3>1. UNCHANGED kayit
            BY <2>6 DEF Tirman
        <3> QED
            BY <2>3, <2>6, <3>1, TirmanOzet
    <2>7. CASE Ac
        BY <2>3, <2>7, AcOzet
    <2>8. CASE KisitAlter \/ Seviye3Alter \/ DogrulaAlter \/ BirakAlter
        <3>1. UNCHANGED <<kayit, aktif, adim>>
            BY <2>8, AlterYer DEF KisitAlter, Seviye3Alter, DogrulaAlter, BirakAlter
        <3> QED
            BY <2>3, <3>1
    <2>9. CASE KisitBitti
        BY <2>9, KisitBittiOzet
    <2>10. CASE Seviye3Oku \/ Seviye3Bitti
        <3>1. UNCHANGED kayit
            BY <2>10 DEF Seviye3Oku, Seviye3Bitti
        <3> QED
            BY <2>3, <2>10, <3>1, Seviye3OkuOzet, Seviye3BittiOzet
    <2>11. CASE Birak \/ BirakOku \/ BirakBitti
        <3>1. UNCHANGED kayit
            BY <2>11 DEF Birak, BirakOku, BirakBitti
        <3> QED
            BY <2>3, <2>11, <3>1, BirakOzet, BirakOkuOzet, BirakBittiOzet
    <2>12. CASE Kapat
        BY <2>3, <2>12 DEF Kapat
    <2>13. CASE TurBitti
        <3>1. UNCHANGED aktif
            BY <2>13 DEF TurBitti
        <3> QED
            BY <2>3, <2>13, <3>1, TurBittiOzet
    <2> QED
        BY <1>5, <2>4, <2>5, <2>6, <2>7, <2>8, <2>9, <2>10, <2>11, <2>12, <2>13
        DEF Motor, KisitAdimi, Seviye3Adimi, DogrulaAdimi, BirakAdimi
<1> QED
    BY <1>1, <1>2, <1>3, <1>4, <1>5 DEF Next

\* Between two turns every open row is held in memory, and what is held in memory
\* has its row, unless the rows could not be read at the start or a row could not
\* be closed (KayitSahipli): no user is left whom the governor cannot restrict
\* again before the next start (birak's comment).
THEOREM KayitSahipliDogru == Spec => []KayitSahipli
<1>1. Init => Tip /\ YerDurumu /\ SahipDurumu
    BY TipBaslar, YerBaslar, SahipBaslar
<1>2. Tip /\ YerDurumu /\ SahipDurumu /\ [Next]_vars => (Tip /\ YerDurumu /\ SahipDurumu)'
    BY TipKorunur, YerKorunur, SahipKorunur
<1>3. Tip /\ YerDurumu /\ SahipDurumu => KayitSahipli
    BY Alanlar DEF YerDurumu, SahipDurumu, KayitSahipli, Durgun
<1> QED
    BY <1>1, <1>2, <1>3, PTL DEF Spec

-----------------------------------------------------------------------------
(***************************************************************************)
(* First the row, then MariaDB.  A limit that was written as a             *)
(* restriction's is one the release has found and set back before it lets  *)
(* go of the row: while it writes, what is still restricted is as it was   *)
(* read, and an entry that counts as right is not restricted.              *)
(***************************************************************************)
Birakiyor == adim \in {"birakOku", "birakHedef", "birakAlter"}
KisitSozu ==
    /\ kisitli # {} => kayit.uygulandi
    /\ aktif.var /\ aktif.geri /\ ~Birakiyor => kisitli = {}
    /\ adim \in {"birakHedef", "birakAlter"} => \A h \in kisitli : sinir[h] = okunan[h]
    /\ adim = "birakAlter" => iyi \cap kisitli = {}
KisitDurumu == vuran \cap {"yanit", "yaris"} = {} => KisitSozu

LEMMA KisitBaslar == Init => KisitDurumu
BY BosKayitlar DEF Init, KisitDurumu, KisitSozu

\* A turn of the loop that releases.
LEMMA BirakAlterKisit ==
    ASSUME Tip, YerDurumu, KisitSozu, BirakAlter
    PROVE  KisitSozu'
<1>1. /\ UNCHANGED <<kayit, aktif, adim, okunan, hedef>> /\ adim = "birakAlter"
      /\ aktif.var /\ aktif.uygulandi /\ aktif.geri /\ kayit.uygulandi
    BY AlterYer, Alanlar DEF BirakAlter, YerDurumu
<1>2. sira \in Host /\ sinir \in [Host -> Nat] /\ kisitli \subseteq Host
    BY DEF BirakAlter, AlterDongu, Tip
<1>3. \A h \in kisitli : sinir[h] = okunan[h]
    BY <1>1 DEF KisitSozu
<1>4. iyi \cap kisitli = {}
    BY <1>1 DEF KisitSozu
<1>5. (\A h \in kisitli' : sinir'[h] = okunan[h]) /\ iyi' \cap kisitli' = {}
    <2>1. CASE /\ okunan[sira] = hedef /\ UNCHANGED sinir /\ iyi' = iyi \cup {sira}
               /\ kisitli' = IF sinir[sira] = hedef THEN kisitli \ {sira} ELSE kisitli
        BY <1>3, <1>4, <2>1
    <2>2. CASE Yaz(FALSE) /\ (iyi' = iyi \cup {sira} \/ UNCHANGED iyi)
        BY <1>2, <1>3, <1>4, <2>2 DEF Yaz
    <2>3. CASE UNCHANGED <<sinir, kisitli, iyi>>
        BY <1>3, <1>4, <2>3
    <2> QED
        BY <2>1, <2>2, <2>3 DEF BirakAlter, AlterDongu
<1> QED
    BY <1>1, <1>5 DEF KisitSozu, Birakiyor

LEMMA KisitDis ==
    ASSUME Tip, YerDurumu, KisitSozu, Dis, vuran' \cap {"yanit", "yaris"} = {}
    PROVE  KisitSozu'
<1>1. UNCHANGED <<kayit, panel, aktif, adim>>
    BY UygOzet
<1>2. CASE PlanDegis \/ UygSor
    <2>1. UNCHANGED <<sinir, kisitli, okunan, iyi>>
        BY <1>2 DEF PlanDegis, UygSor, donguVars
    <2> QED
        BY <1>1, <2>1 DEF KisitSozu, Birakiyor
<1>3. CASE UygYaz
    <2>1. UNCHANGED <<okunan, iyi>>
        BY <1>3 DEF UygYaz, donguVars
    <2>2. sinir \in [Host -> Nat] /\ uyg.sira \in Host
        BY Alanlar DEF Tip
    <2>3. CASE kisitli' = kisitli \cup {uyg.sira} /\ KisitSurer
        BY <1>1, <2>3 DEF KisitSozu, Birakiyor, YerDurumu, KisitSurer
    <2>4. CASE kisitli' = kisitli \ {uyg.sira} /\ sinir' = [sinir EXCEPT ![uyg.sira] = uyg.deger]
        BY <1>1, <2>1, <2>2, <2>4 DEF KisitSozu, Birakiyor
    <2>5. CASE UNCHANGED <<sinir, kisitli>>
        BY <1>1, <2>1, <2>5 DEF KisitSozu, Birakiyor
    <2> QED
        BY <1>3, <2>3, <2>4, <2>5 DEF UygYaz
<1> QED
    BY <1>2, <1>3 DEF Dis

LEMMA KisitMotor ==
    ASSUME Tip, YerDurumu, KisitSozu, Motor, vuran' \cap {"yanit", "yaris"} = {}
    PROVE  KisitSozu'
<1> USE Alanlar, BosKayitlar, SonraYer
    DEF KisitSozu, Birakiyor, bellekVars, planVars, disVars, donguVars, Gec
<1>1. CASE Kurtar
    <2>1. UNCHANGED <<kayit, kisitli>> /\ ~aktif.var
        BY <1>1 DEF Kurtar, YerDurumu
    <2> QED
        BY <1>1, <2>1, KurtarOzet
<1>2. CASE TickBasla
    BY <1>2 DEF TickBasla
<1>3. CASE Tirman
    <2>1. UNCHANGED <<kayit, kisitli>>
        BY <1>3 DEF Tirman
    <2> QED
        BY <1>3, <2>1, TirmanOzet
<1>4. CASE KisitOku
    BY <1>4 DEF KisitOku
<1>5. CASE Ac
    <2>1. UNCHANGED kisitli
        BY <1>5 DEF Ac
    <2>2. UNCHANGED kayit \/ kisitli = {}
        BY <1>5, AcOzet DEF YerDurumu
    <2>3. aktif'.geri => aktif' = aktif
        BY <1>5, AcOzet
    <2> QED
        BY <1>5, <2>1, <2>2, <2>3, AcOzet
<1>6. CASE KisitAlter
    <2>1. UNCHANGED <<kayit, aktif, adim>> /\ kayit.uygulandi /\ ~aktif.var /\ adim = "kisAlter"
        BY <1>6, AlterYer DEF KisitAlter, YerDurumu
    <2> QED
        BY <2>1
<1>7. CASE Seviye3Alter \/ DogrulaAlter
    <2>1. /\ UNCHANGED <<kayit, aktif, adim>> /\ kayit.uygulandi /\ ~aktif.geri
          /\ adim \in {"s3Alter", "dogAlter"}
        BY <1>7, AlterYer DEF Seviye3Alter, DogrulaAlter, YerDurumu, KisitSurer
    <2> QED
        BY <2>1
<1>8. CASE BirakAlter
    BY <1>8, BirakAlterKisit
<1>9. CASE KisitBitti
    <2>1. UNCHANGED kisitli /\ ~aktif.var
        BY <1>9 DEF KisitBitti, YerDurumu
    <2> QED
        BY <1>9, <2>1, KisitBittiOzet
<1>10. CASE Seviye3Oku \/ Seviye3Bitti
    <2>1. UNCHANGED <<kayit, kisitli>>
        BY <1>10 DEF Seviye3Oku, Seviye3Bitti
    <2> QED
        BY <1>10, <2>1, Seviye3OkuOzet, Seviye3BittiOzet
<1>11. CASE Dogrula \/ DogrulaBitti \/ BirakSec
    BY <1>11 DEF Dogrula, DogrulaBitti, BirakSec
<1>12. CASE Birak
    <2>1. UNCHANGED <<kayit, kisitli>>
        BY <1>12 DEF Birak
    <2> QED
        BY <1>12, <2>1, BirakOzet
<1>13. CASE BirakOku
    <2>1. UNCHANGED <<kayit, kisitli, sinir>>
        BY <1>13 DEF BirakOku
    <2> QED
        BY <1>13, <2>1, BirakOkuOzet
<1>14. CASE BirakHedef
    <2>1. UNCHANGED <<kayit, kisitli, sinir, aktif, okunan>> /\ iyi' = {} /\ adim' = "birakAlter"
        BY <1>14 DEF BirakHedef
    <2>2. adim = "birakHedef"
        BY <1>14 DEF BirakHedef
    <2> QED
        BY <2>1, <2>2
<1>15. CASE BirakBitti
    <2>1. UNCHANGED <<kayit, kisitli>> /\ adim = "birakAlter" /\ iyi \cap kisitli = {}
        BY <1>15 DEF BirakBitti
    <2>2. iyi = Host => kisitli = {}
        BY <2>1 DEF Tip
    <2> QED
        BY <1>15, <2>1, <2>2, BirakBittiOzet
<1>16. CASE Kapat
    <2>1. kisitli = {} /\ UNCHANGED kisitli
        BY <1>16 DEF Kapat, YerDurumu, KisitSurer
    <2>2. adim' = "yaz"
        BY <1>16 DEF Kapat
    <2> QED
        BY <2>1, <2>2
<1>17. CASE TurBitti
    <2>1. UNCHANGED <<aktif, kisitli>>
        BY <1>17 DEF TurBitti
    <2> QED
        BY <1>17, <2>1, TurBittiOzet
<1> QED
    BY <1>1, <1>2, <1>3, <1>4, <1>5, <1>6, <1>7, <1>8, <1>9, <1>10, <1>11, <1>12, <1>13, <1>14,
       <1>15, <1>16, <1>17 DEF Motor, KisitAdimi, Seviye3Adimi, DogrulaAdimi, BirakAdimi

LEMMA KisitKorunur == Tip /\ YerDurumu /\ KisitDurumu /\ [Next]_vars => KisitDurumu'
<1> SUFFICES ASSUME Tip, YerDurumu, KisitDurumu, [Next]_vars,
                    vuran' \cap {"yanit", "yaris"} = {}
             PROVE  KisitSozu'
    BY DEF KisitDurumu
<1> USE DEF KisitDurumu, bellekVars, turVars, donguVars, planVars, disVars
<1>1. CASE Acilis
    <2>1. /\ vuran \cap {"yanit", "yaris"} = {} /\ adim' = "kurtar"
          /\ UNCHANGED <<kayit, aktif, kisitli>> /\ ~aktif.var
        BY <1>1 DEF Acilis, YerDurumu
    <2> QED
        BY <2>1 DEF KisitSozu
<1>2. CASE Cok
    <2>1. /\ vuran \cap {"yanit", "yaris"} = {} /\ adim' = "bos"
          /\ UNCHANGED <<kayit, kisitli>> /\ ~aktif'.var
        BY <1>2, BosKayitlar DEF Cok, Bellek
    <2> QED
        BY <2>1 DEF KisitSozu
<1>3. CASE Dis
    BY <1>3, KisitDis, VuranKalir
<1>4. CASE Motor
    BY <1>4, KisitMotor, VuranKalir
<1>5. CASE UNCHANGED vars
    BY <1>5 DEF vars, KisitSozu, Birakiyor
<1> QED
    BY <1>1, <1>2, <1>3, <1>4, <1>5 DEF Next

\* Whenever a limit of the user was written as a restriction's, an open row says
\* so, in every step and after every crash, whatever the plan does meanwhile
\* (KisitKayitli).  Two races are outside: a plan written with a restriction's
\* value after the restriction was given up, and ALTERs applied although every one
\* of them was reported as failed.
THEOREM KisitKayitliDogru == Spec => []KisitKayitli
<1>1. Init => Tip /\ YerDurumu /\ KisitDurumu
    BY TipBaslar, YerBaslar, KisitBaslar
<1>2. Tip /\ YerDurumu /\ KisitDurumu /\ [Next]_vars => (Tip /\ YerDurumu /\ KisitDurumu)'
    BY TipKorunur, YerKorunur, KisitKorunur
<1>3. YerDurumu /\ KisitDurumu => KisitKayitli
    BY DEF YerDurumu, KisitDurumu, KisitSozu, KisitKayitli
<1> QED
    BY <1>1, <1>2, <1>3, PTL DEF Spec

-----------------------------------------------------------------------------
(***************************************************************************)
(* The plan the hook noted.  It is noted while there is a restriction, by  *)
(* the request that applies the plan, before the first entry is written:   *)
(* from then on what is noted is the plan.                                 *)
(***************************************************************************)
PlanDurumu ==
    /\ planAnlik # Yok => aktif.var /\ aktif.uygulandi
    /\ uyg.adim # "bos" => plan.planli /\ uyg.plan = plan.deger /\ ~guncel
    /\ plan.planli /\ (guncel \/ uyg.adim = "yaz" \/ (uyg.adim = "sor" /\ uyg.sira > 1)) =>
          planAnlik \in {Yok, plan.deger}

LEMMA PlanBaslar == Init => PlanDurumu
BY BosKayitlar DEF Init, PlanDurumu

\* What the governor leaves to the requests and the administrator.
LEMMA MotorCercevesi ==
    Motor => UNCHANGED <<panel, uyg, plan, guncel, degisim>> /\ planAnlik' \in {planAnlik, Yok}
<1> USE DEF disVars, planVars, bellekVars
<1>1. ASSUME KisitAlter \/ Seviye3Alter \/ DogrulaAlter \/ BirakAlter
      PROVE  UNCHANGED <<panel, uyg, plan, guncel, degisim>> /\ planAnlik' \in {planAnlik, Yok}
    BY <1>1, AlterYer DEF KisitAlter, Seviye3Alter, DogrulaAlter, BirakAlter
<1>2. ASSUME Kurtar \/ TickBasla \/ Tirman \/ KisitOku \/ Ac \/ KisitBitti \/ Seviye3Oku
             \/ Seviye3Bitti \/ Dogrula \/ DogrulaBitti
      PROVE  UNCHANGED <<panel, uyg, plan, guncel, degisim>> /\ planAnlik' \in {planAnlik, Yok}
    BY <1>2 DEF Kurtar, TickBasla, Tirman, KisitOku, Ac, KisitBitti, Seviye3Oku, Seviye3Bitti,
       Dogrula, DogrulaBitti
<1>3. ASSUME BirakSec \/ Birak \/ BirakOku \/ BirakHedef \/ BirakBitti \/ Kapat \/ TurBitti
      PROVE  UNCHANGED <<panel, uyg, plan, guncel, degisim>> /\ planAnlik' \in {planAnlik, Yok}
    BY <1>3 DEF BirakSec, Birak, BirakOku, BirakHedef, BirakBitti, Kapat, TurBitti
<1> QED
    BY <1>1, <1>2, <1>3 DEF Motor, KisitAdimi, Seviye3Adimi, DogrulaAdimi, BirakAdimi

\* A plan is noted only of a restriction that stays what it is until it is closed.
LEMMA MotorAnlik ==
    ASSUME Tip, YerDurumu, Motor, aktif.var, aktif.uygulandi
    PROVE  (aktif'.var /\ aktif'.uygulandi) \/ planAnlik' = Yok
<1> USE DEF bellekVars, YerDurumu
<1>1. CASE Kurtar \/ Ac \/ KisitBitti
    BY <1>1 DEF Kurtar, Ac, KisitBitti
<1>2. CASE KisitAlter \/ Seviye3Alter \/ DogrulaAlter \/ BirakAlter
    BY <1>2, AlterYer DEF KisitAlter, Seviye3Alter, DogrulaAlter, BirakAlter
<1>3. CASE TickBasla \/ KisitOku \/ Dogrula \/ DogrulaBitti \/ BirakSec \/ BirakHedef \/ TurBitti
    BY <1>3 DEF TickBasla, KisitOku, Dogrula, DogrulaBitti, BirakSec, BirakHedef, TurBitti
<1>4. CASE Tirman \/ Seviye3Oku \/ Seviye3Bitti
    BY <1>4, TirmanOzet, Seviye3OkuOzet, Seviye3BittiOzet
<1>5. CASE Birak \/ BirakOku \/ BirakBitti
    BY <1>5, BirakOzet, BirakOkuOzet, BirakBittiOzet
<1>6. CASE Kapat
    BY <1>6 DEF Kapat
<1> QED
    BY <1>1, <1>2, <1>3, <1>4, <1>5, <1>6
    DEF Motor, KisitAdimi, Seviye3Adimi, DogrulaAdimi, BirakAdimi

\* The request, field by field.
LEMMA PlanDegisOzet ==
    ASSUME Tip, PlanDegis
    PROVE  /\ UNCHANGED <<sinir, planAnlik, okunan, hedef, sira, iyi, vuran>> /\ ~guncel'
           /\ \/ uyg'.adim = "bos"
              \/ /\ plan'.planli /\ uyg'.adim = "sor" /\ uyg'.plan = plan'.deger
                 /\ uyg'.sira = 1
<1>1. plan' \in PlanKume /\ plan'.deger \in PlanDeger
    BY DEF PlanDegis, PlanKume
<1>2. CASE plan'.planli
    <2>1. uyg' = [UygYok EXCEPT !.adim = "sor", !.plan = plan'.deger]
        BY <1>2 DEF PlanDegis
    <2> QED
        BY <1>1, <1>2, <2>1, UygBaslar DEF PlanDegis, bellekVars, donguVars
<1>3. CASE ~plan'.planli
    BY <1>3, BosKayitlar DEF PlanDegis, bellekVars, donguVars
<1> QED
    BY <1>2, <1>3

LEMMA UygSorOzet ==
    ASSUME Tip, UygSor
    PROVE  /\ UNCHANGED <<sinir, plan, guncel, okunan, hedef, sira, iyi, vuran>>
           /\ uyg.adim = "sor" /\ uyg'.adim = "yaz"
           /\ uyg'.plan = uyg.plan /\ uyg'.sira = uyg.sira /\ uyg'.tam = uyg.tam
           /\ planAnlik' = IF aktif.var /\ aktif.uygulandi THEN uyg.plan ELSE planAnlik
<1>1. PICK d \in Nat : uyg' = [uyg EXCEPT !.adim = "yaz", !.deger = d]
    <2>1. (IF ~aktif.var \/ ~aktif.uygulandi \/ aktif.geri
              \/ (uyg.plan > 0 /\ uyg.plan < aktif.deger)
           THEN uyg.plan ELSE aktif.deger) \in Nat
        BY Alanlar
    <2> QED
        BY <2>1 DEF UygSor
<1>2. /\ uyg'.adim = "yaz" /\ uyg'.plan = uyg.plan /\ uyg'.sira = uyg.sira
      /\ uyg'.tam = uyg.tam
    BY <1>1, UygSorar DEF Tip
<1>3. /\ UNCHANGED <<sinir, plan, guncel, okunan, hedef, sira, iyi, vuran>> /\ uyg.adim = "sor"
      /\ planAnlik' = IF aktif.var /\ aktif.uygulandi THEN uyg.plan ELSE planAnlik
    BY DEF UygSor, planVars, donguVars
<1> QED
    BY <1>2, <1>3

LEMMA UygYazOzet ==
    ASSUME Tip, UygYaz
    PROVE  /\ UNCHANGED <<plan, planAnlik, okunan, hedef, sira, iyi>> /\ uyg.adim = "yaz"
           /\ \/ uyg.sira = HostSayisi /\ uyg'.adim = "bos"
              \/ /\ uyg.sira # HostSayisi /\ uyg'.adim = "sor" /\ uyg'.sira = uyg.sira + 1
                 /\ uyg'.plan = uyg.plan /\ ~guncel'
           /\ \/ /\ sinir' = [sinir EXCEPT ![uyg.sira] = uyg.deger]
                 /\ uyg.deger = uyg.plan \/ KisitSurer \/ "yaris" \in vuran'
                 /\ uyg'.adim = "sor" => uyg'.tam = uyg.tam
                 /\ guncel' => uyg.tam
              \/ UNCHANGED sinir /\ ~guncel' /\ (uyg'.adim = "sor" => ~uyg'.tam)
<1> DEFINE Sonraki(tam) ==
             /\ uyg' = IF uyg.sira = HostSayisi THEN UygYok
                       ELSE [uyg EXCEPT !.adim = "sor", !.sira = @ + 1, !.tam = tam]
             /\ guncel' = (uyg.sira = HostSayisi /\ tam)
<1>1. \A t \in BOOLEAN : Sonraki(t) =>
        /\ \/ uyg.sira = HostSayisi /\ uyg'.adim = "bos"
           \/ /\ uyg.sira # HostSayisi /\ uyg'.adim = "sor" /\ uyg'.sira = uyg.sira + 1
              /\ uyg'.plan = uyg.plan /\ ~guncel'
        /\ uyg'.adim = "sor" => uyg'.tam = t
        /\ guncel' => t
    <2> SUFFICES ASSUME NEW t \in BOOLEAN, Sonraki(t)
                 PROVE  /\ \/ uyg.sira = HostSayisi /\ uyg'.adim = "bos"
                           \/ /\ uyg.sira # HostSayisi /\ uyg'.adim = "sor"
                              /\ uyg'.sira = uyg.sira + 1 /\ uyg'.plan = uyg.plan /\ ~guncel'
                        /\ uyg'.adim = "sor" => uyg'.tam = t
                        /\ guncel' => t
        OBVIOUS
    <2>1. CASE uyg.sira = HostSayisi
        BY <2>1, BosKayitlar
    <2>2. CASE uyg.sira # HostSayisi
        <3>1. uyg' = [uyg EXCEPT !.adim = "sor", !.sira = @ + 1, !.tam = t] /\ ~guncel'
            BY <2>2
        <3> QED
            BY <2>2, <3>1, UygIlerler DEF Tip
    <2> QED
        BY <2>1, <2>2
<1>2. uyg.tam \in BOOLEAN /\ FALSE \in BOOLEAN
    BY Alanlar
<1>3. \/ /\ sinir' = [sinir EXCEPT ![uyg.sira] = uyg.deger]
         /\ uyg.deger = uyg.plan \/ KisitSurer \/ "yaris" \in vuran'
         /\ Sonraki(uyg.tam)
      \/ UNCHANGED sinir /\ Sonraki(FALSE)
    BY DEF UygYaz
<1>4. UNCHANGED <<plan, planAnlik, okunan, hedef, sira, iyi>> /\ uyg.adim = "yaz"
    BY DEF UygYaz, bellekVars, donguVars
<1> HIDE DEF Sonraki
<1> QED
    BY <1>1, <1>2, <1>3, <1>4

LEMMA PlanKorunur == Tip /\ YerDurumu /\ PlanDurumu /\ [Next]_vars => PlanDurumu'
<1> SUFFICES ASSUME Tip, YerDurumu, PlanDurumu, [Next]_vars PROVE PlanDurumu'
    OBVIOUS
<1>1. CASE Acilis
    BY <1>1 DEF Acilis, PlanDurumu, bellekVars, planVars
<1>2. CASE Cok
    BY <1>2, BosKayitlar DEF Cok, Bellek, PlanDurumu
<1>3. CASE PlanDegis
    <2>1. UNCHANGED aktif
        BY <1>3 DEF PlanDegis, bellekVars
    <2> QED
        BY <1>3, <2>1, PlanDegisOzet DEF PlanDurumu
<1>4. CASE UygSor
    <2>1. UNCHANGED aktif
        BY <1>4 DEF UygSor
    <2> QED
        BY <1>4, <2>1, UygSorOzet DEF PlanDurumu
<1>5. CASE UygYaz
    <2>1. UNCHANGED aktif
        BY <1>5 DEF UygYaz, bellekVars
    <2> QED
        BY <1>5, <2>1, UygYazOzet DEF PlanDurumu
<1>6. CASE Motor
    <2>1. UNCHANGED <<uyg, plan, guncel>> /\ planAnlik' \in {planAnlik, Yok}
        BY <1>6, MotorCercevesi
    <2>2. planAnlik # Yok => (aktif'.var /\ aktif'.uygulandi) \/ planAnlik' = Yok
        BY <1>6, MotorAnlik DEF PlanDurumu
    <2> QED
        BY <2>1, <2>2 DEF PlanDurumu
<1>7. CASE UNCHANGED vars
    BY <1>7 DEF vars, PlanDurumu, bellekVars, planVars
<1> QED
    BY <1>1, <1>2, <1>3, <1>4, <1>5, <1>6, <1>7 DEF Next, Dis

-----------------------------------------------------------------------------
(***************************************************************************)
(* The limits.  Guncel(h): the plan, as it is now, was written to h.       *)
(* Dogru(h): then h has the plan's limit.  While a restriction is in       *)
(* force, or half written, that is not so; a release brings it back entry  *)
(* by entry, from what it read and what it has set.                        *)
(***************************************************************************)
Guncel(h) == guncel \/ (uyg.adim # "bos" /\ uyg.tam /\ h < uyg.sira)
Dogru(h) == plan.planli /\ Guncel(h) => sinir[h] = plan.deger
\* No restriction of MariaDB's limits: none was applied, or it was written back.
Serbest == ~kayit.uygulandi \/ (aktif.var /\ aktif.geri /\ ~Birakiyor)
SinirSozu ==
    /\ Serbest => \A h \in Host : Dogru(h)
    /\ adim = "kisAlter" => \A h \in Host \ kisitli : Dogru(h)
    /\ adim = "birakHedef" => \A h \in Host : sinir[h] = okunan[h] \/ Dogru(h)
    /\ adim = "birakAlter" =>
        \A h \in Host : /\ h >= sira => sinir[h] = okunan[h] \/ Dogru(h)
                        /\ h \in iyi => sinir[h] = hedef \/ Dogru(h)
SinirDurumu == vuran \subseteq {"liste", "kapanmadi"} => SinirSozu

LEMMA SinirBaslar == Init => SinirDurumu
<1> SUFFICES ASSUME Init PROVE SinirDurumu
    OBVIOUS
<1>1. \A h \in Host : Dogru(h)
    BY DEF Init, Dogru
<1>2. adim = "bos"
    BY DEF Init
<1> QED
    BY <1>1, <1>2 DEF SinirDurumu, SinirSozu

\* A step that leaves MariaDB, the plan and the request alone and restricts nothing
\* it did not restrict.
LEMMA SinirDurur ==
    ASSUME SinirSozu, UNCHANGED <<sinir, plan, guncel, uyg>>, Serbest' => Serbest,
           adim' \notin {"kisAlter", "birakHedef", "birakAlter"}
    PROVE  SinirSozu'
<1>1. \A h \in Host : Dogru(h)' <=> Dogru(h)
    BY DEF Dogru, Guncel
<1> QED
    BY <1>1 DEF SinirSozu

LEMMA SiraArtar == ASSUME NEW h \in Host, NEW s \in Host PROVE h < s + 1 <=> h < s \/ h = s
BY HostVarsayim DEF Host

\* A request, while there is no restriction it must respect: what it leaves stays
\* right, what it writes is right.
LEMMA DogruDis ==
    ASSUME Tip, PlanDurumu, Dis, ~KisitSurer, "yaris" \notin vuran', NEW h \in Host
    PROVE  /\ Dogru(h) => Dogru(h)'
           /\ sinir'[h] = sinir[h] \/ Dogru(h)'
<1>1. CASE PlanDegis
    <2>1. UNCHANGED sinir /\ ~guncel' /\ (uyg'.adim = "bos" \/ uyg'.sira = 1)
        BY <1>1, PlanDegisOzet
    <2>2. ~(h < 1)
        BY HostVarsayim DEF Host
    <2> QED
        BY <2>1, <2>2 DEF Dogru, Guncel
<1>2. CASE UygSor
    <2>1. UNCHANGED <<sinir, plan, guncel>> /\ uyg.adim # "bos" /\ uyg'.sira = uyg.sira
          /\ uyg'.tam = uyg.tam
        BY <1>2, UygSorOzet
    <2> QED
        BY <2>1 DEF Dogru, Guncel
<1>3. CASE UygYaz
    <2>1. uyg.adim = "yaz" /\ uyg.plan = plan.deger /\ UNCHANGED plan
        BY <1>3, UygYazOzet DEF PlanDurumu
    <2>2. sinir \in [Host -> Nat] /\ uyg.sira \in Host
        BY Alanlar DEF Tip
    <2>3. CASE UNCHANGED sinir /\ ~guncel' /\ (uyg'.adim = "sor" => ~uyg'.tam)
        <3>1. uyg'.adim \in {"bos", "sor"}
            BY <1>3, UygYazOzet
        <3> QED
            BY <2>3, <3>1 DEF Dogru, Guncel
    <2>4. CASE /\ sinir' = [sinir EXCEPT ![uyg.sira] = uyg.deger]
               /\ uyg.deger = uyg.plan
               /\ uyg'.adim = "sor" => uyg'.tam = uyg.tam
               /\ guncel' => uyg.tam
        <3>1. CASE h = uyg.sira
            <4>1. sinir'[h] = plan.deger
                BY <2>1, <2>2, <2>4, <3>1
            <4> QED
                BY <2>1, <4>1 DEF Dogru
        <3>2. CASE h # uyg.sira
            <4>1. sinir'[h] = sinir[h]
                BY <2>2, <2>4, <3>2
            <4>2. Guncel(h)' => Guncel(h)
                <5>1. CASE uyg.sira = HostSayisi /\ uyg'.adim = "bos"
                    <6>1. h < uyg.sira
                        BY <3>2, <5>1, HostVarsayim DEF Host
                    <6> QED
                        BY <2>1, <2>4, <5>1, <6>1 DEF Guncel
                <5>2. CASE uyg'.adim = "sor" /\ uyg'.sira = uyg.sira + 1 /\ ~guncel'
                    <6>1. h < uyg'.sira => h < uyg.sira
                        BY <2>2, <3>2, <5>2, SiraArtar
                    <6> QED
                        BY <2>1, <2>4, <5>2, <6>1 DEF Guncel
                <5> QED
                    BY <1>3, <5>1, <5>2, UygYazOzet
            <4> QED
                BY <2>1, <4>1, <4>2 DEF Dogru
        <3> QED
            BY <3>1, <3>2
    <2> QED
        BY <1>3, <2>3, <2>4, UygYazOzet
<1> QED
    BY <1>1, <1>2, <1>3 DEF Dis

LEMMA SinirDis ==
    ASSUME Tip, YerDurumu, PlanDurumu, SinirSozu, Dis, "yaris" \notin vuran'
    PROVE  SinirSozu'
<1>1. UNCHANGED <<kayit, aktif, adim>>
    BY UygOzet
<1>2. CASE KisitSurer
    <2>1. kayit.uygulandi /\ ~aktif.geri
          /\ adim \notin {"kisAlter", "birakHedef", "birakAlter"}
        BY <1>2 DEF YerDurumu, KisitSurer
    <2> QED
        BY <1>1, <2>1 DEF SinirSozu, Serbest, Birakiyor
<1>3. CASE ~KisitSurer
    <2>1. \A h \in Host : (Dogru(h) => Dogru(h)') /\ (sinir'[h] = sinir[h] \/ Dogru(h)')
        BY <1>3, DogruDis
    <2>2. adim = "kisAlter" => kisitli \subseteq kisitli' \/ \A h \in Host \ kisitli' : Dogru(h)'
        <3>1. CASE PlanDegis \/ UygSor
            BY <3>1 DEF PlanDegis, UygSor
        <3>2. CASE UygYaz
            <4> SUFFICES ASSUME adim = "kisAlter" PROVE kisitli \subseteq kisitli' \/ \A h \in Host \ kisitli' : Dogru(h)'
                OBVIOUS
            <4>1. CASE kisitli \subseteq kisitli'
                BY <4>1
            <4>2. CASE kisitli' = kisitli \ {uyg.sira} /\ uyg.deger = uyg.plan
                       /\ sinir' = [sinir EXCEPT ![uyg.sira] = uyg.deger]
                <5>1. uyg.sira \in Host /\ sinir \in [Host -> Nat]
                    BY Alanlar DEF Tip
                <5>2. \A h \in Host : h = uyg.sira => sinir'[h] = plan'.deger
                    BY <3>2, <4>2, <5>1, UygYazOzet DEF PlanDurumu
                <5>3. \A h \in Host : h = uyg.sira => Dogru(h)'
                    BY <5>2 DEF Dogru
                <5>4. \A h \in Host \ kisitli : Dogru(h)'
                    BY <2>1 DEF SinirSozu
                <5> QED
                    BY <4>2, <5>3, <5>4
            <4> QED
                BY <3>2, <4>1, <4>2 DEF UygYaz
        <3> QED
            BY <3>1, <3>2 DEF Dis
    <2>3. UNCHANGED <<okunan, hedef, sira, iyi>>
        BY PlanDegisOzet, UygSorOzet, UygYazOzet DEF Dis
    <2>4. Serbest' => \A h \in Host : Dogru(h)'
        BY <1>1, <2>1 DEF SinirSozu, Serbest, Birakiyor
    <2>5. adim' = "kisAlter" => \A h \in Host \ kisitli' : Dogru(h)'
        BY <1>1, <2>1, <2>2 DEF SinirSozu
    <2>6. adim' = "birakHedef" => \A h \in Host : sinir'[h] = okunan'[h] \/ Dogru(h)'
        BY <1>1, <2>1, <2>3 DEF SinirSozu
    <2>7. adim' = "birakAlter" =>
            \A h \in Host : /\ h >= sira' => sinir'[h] = okunan'[h] \/ Dogru(h)'
                            /\ h \in iyi' => sinir'[h] = hedef' \/ Dogru(h)'
        BY <1>1, <2>1, <2>3 DEF SinirSozu
    <2> QED
        BY <2>4, <2>5, <2>6, <2>7 DEF SinirSozu
<1> QED
    BY <1>2, <1>3

\* A turn of a loop that restricts: what is not restricted stays as it is.
LEMMA SinirKisitAlter ==
    ASSUME Tip, YerDurumu, SinirSozu, KisitAlter
    PROVE  SinirSozu'
<1>1. /\ UNCHANGED <<kayit, aktif, adim, plan, guncel, uyg>> /\ adim = "kisAlter"
      /\ kayit.uygulandi /\ ~aktif.var
    BY AlterYer DEF KisitAlter, YerDurumu
<1>2. sira \in Host /\ sinir \in [Host -> Nat]
    BY DEF KisitAlter, AlterDongu, Tip
<1>3. \A h \in Host \ kisitli' : h \notin kisitli /\ sinir'[h] = sinir[h]
    BY <1>2 DEF KisitAlter, AlterDongu, Yaz
<1>4. \A h \in Host \ kisitli' : Dogru(h)
    BY <1>1, <1>3 DEF SinirSozu
<1>5. \A h \in Host \ kisitli' : Dogru(h)'
    BY <1>1, <1>3, <1>4 DEF Dogru, Guncel
<1> QED
    BY <1>1, <1>5 DEF SinirSozu, Serbest

LEMMA SinirBirakAlter ==
    ASSUME Tip, YerDurumu, SinirSozu, BirakAlter
    PROVE  SinirSozu'
<1>1. /\ UNCHANGED <<kayit, aktif, adim, plan, guncel, uyg, okunan, hedef>>
      /\ adim = "birakAlter" /\ kayit.uygulandi
    BY AlterYer DEF BirakAlter, YerDurumu
<1>2. sira \in Host /\ sinir \in [Host -> Nat] /\ sira' = sira + 1
    BY DEF BirakAlter, AlterDongu, Tip
<1>3. \A h \in Host : h # sira => sinir'[h] = sinir[h]
    BY <1>2 DEF BirakAlter, AlterDongu, Yaz
<1>4. \A h \in Host : (sinir'[h] = sinir[h] /\ Dogru(h)) => Dogru(h)'
    BY <1>1 DEF Dogru, Guncel
<1>5. ASSUME NEW h \in Host, h >= sira'
      PROVE  sinir'[h] = okunan'[h] \/ Dogru(h)'
    <2>1. h # sira /\ h >= sira
        BY <1>2, <1>5, HostVarsayim DEF Host
    <2>2. sinir[h] = okunan[h] \/ Dogru(h)
        BY <1>1, <2>1 DEF SinirSozu
    <2> QED
        BY <1>1, <1>3, <1>4, <2>1, <2>2
<1>6. ASSUME NEW h \in Host, h \in iyi'
      PROVE  sinir'[h] = hedef' \/ Dogru(h)'
    <2>1. h \in iyi => sinir[h] = hedef \/ Dogru(h)
        BY <1>1 DEF SinirSozu
    <2>2. CASE h # sira
        <3>1. h \in iyi
            BY <1>6, <2>2 DEF BirakAlter, AlterDongu
        <3> QED
            BY <1>1, <1>3, <1>4, <2>1, <2>2, <3>1
    <2>3. CASE h = sira /\ sinir' = [sinir EXCEPT ![sira] = hedef]
        BY <1>1, <1>2, <2>3
    <2>4. CASE h = sira /\ UNCHANGED sinir /\ okunan[sira] = hedef
        <3>1. h >= sira
            BY <1>2, <2>4, HostVarsayim DEF Host
        <3>2. sinir[h] = hedef \/ Dogru(h)
            BY <1>1, <2>4, <3>1 DEF SinirSozu
        <3> QED
            BY <1>1, <1>4, <2>4, <3>2
    <2>5. CASE h = sira /\ UNCHANGED <<sinir, iyi>>
        BY <1>1, <1>4, <1>6, <2>1, <2>5
    <2> QED
        BY <2>2, <2>3, <2>4, <2>5 DEF BirakAlter, AlterDongu, Yaz
<1> QED
    BY <1>1, <1>5, <1>6 DEF SinirSozu, Serbest, Birakiyor

\* The write-back went through and the plan is what it wrote: then every entry that
\* has the plan at all has it as it is now.
LEMMA SinirGeriYazildi ==
    ASSUME Tip, PlanDurumu, SinirSozu, adim = "birakAlter", iyi = Host, HedefDeger(TRUE) = hedef,
           NEW h \in Host
    PROVE  Dogru(h)
<1> SUFFICES ASSUME plan.planli, Guncel(h) PROVE sinir[h] = plan.deger
    BY DEF Dogru
<1>1. planAnlik \in {Yok, plan.deger}
    <2>1. CASE guncel
        BY <2>1 DEF PlanDurumu
    <2>2. CASE uyg.adim # "bos" /\ h < uyg.sira
        <3>1. uyg.adim \in {"sor", "yaz"} /\ uyg.sira \in Host
            BY <2>2, Alanlar
        <3>2. uyg.sira > 1
            BY <2>2, <3>1, HostVarsayim DEF Host
        <3> QED
            BY <3>1, <3>2 DEF PlanDurumu
    <2> QED
        BY <2>1, <2>2 DEF Guncel
<1>2. hedef = plan.deger
    BY <1>1 DEF HedefDeger
<1>3. sinir[h] = hedef \/ Dogru(h)
    BY DEF SinirSozu
<1> QED
    BY <1>2, <1>3 DEF Dogru

LEMMA SinirMotor ==
    ASSUME Tip, YerDurumu, PlanDurumu, SinirSozu, Motor, vuran' \subseteq {"liste", "kapanmadi"}
    PROVE  SinirSozu'
<1>0. UNCHANGED <<uyg, plan, guncel>>
    BY MotorCercevesi
<1> USE Alanlar, BosKayitlar, SonraYer DEF bellekVars, planVars, disVars, donguVars, Gec
<1>1. CASE Kurtar
    <2>1. UNCHANGED <<sinir, kayit>> /\ ~aktif.var
        BY <1>1 DEF Kurtar, YerDurumu
    <2>2. Serbest' => Serbest
        BY <1>1, <2>1, KurtarOzet DEF Serbest
    <2>3. adim' \in {"bos", "birak"}
        BY <1>1, KurtarOzet
    <2> QED
        BY <1>0, <2>1, <2>2, <2>3, SinirDurur
<1>2. CASE TickBasla \/ KisitOku \/ Dogrula \/ DogrulaBitti \/ BirakSec
    <2>1. /\ UNCHANGED <<sinir, kayit, aktif>> /\ ~Birakiyor
          /\ adim' \notin {"kisAlter", "birakHedef", "birakAlter"}
        BY <1>2 DEF TickBasla, KisitOku, Dogrula, DogrulaBitti, BirakSec, Birakiyor
    <2> QED
        BY <1>0, <2>1, SinirDurur DEF Serbest
<1>3. CASE Tirman \/ Seviye3Oku \/ Seviye3Bitti
    <2>1. UNCHANGED <<sinir, kayit>>
        BY <1>3 DEF Tirman, Seviye3Oku, Seviye3Bitti
    <2>2. /\ aktif'.var = aktif.var /\ aktif'.geri = aktif.geri /\ ~Birakiyor
          /\ adim' \notin {"kisAlter", "birakHedef", "birakAlter"}
        BY <1>3, TirmanOzet, Seviye3OkuOzet, Seviye3BittiOzet DEF Birakiyor
    <2> QED
        BY <1>0, <2>1, <2>2, SinirDurur DEF Serbest
<1>4. CASE Ac
    <2>1. UNCHANGED sinir /\ adim = "ac" /\ ~aktif.var
        BY <1>4 DEF Ac, YerDurumu
    <2>2. CASE ~kayit.var /\ kayit'.uygulandi /\ UNCHANGED aktif /\ adim' = "kisAlter"
        <3>1. \A h \in Host : Dogru(h)
            BY <2>2 DEF SinirSozu, Serbest, YerDurumu
        <3>2. \A h \in Host : Dogru(h)'
            BY <1>0, <2>1, <3>1 DEF Dogru, Guncel
        <3> QED
            BY <2>2, <3>2 DEF SinirSozu
    <2>3. CASE ~kayit.var /\ adim' = Sonra
        <3>1. Serbest
            BY <2>3 DEF Serbest, YerDurumu
        <3> QED
            BY <1>0, <2>1, <2>3, <3>1, SinirDurur
    <2>4. CASE UNCHANGED <<kayit, aktif>> /\ adim' = Sonra
        <3>1. Serbest' => Serbest
            BY <2>1, <2>4 DEF Serbest
        <3> QED
            BY <1>0, <2>1, <2>4, <3>1, SinirDurur
    <2> QED
        BY <1>4, <2>2, <2>3, <2>4, AcOzet
<1>5. CASE KisitAlter
    BY <1>5, SinirKisitAlter
<1>6. CASE Seviye3Alter \/ DogrulaAlter
    <2>1. /\ UNCHANGED <<kayit, aktif, adim>> /\ kayit.uygulandi /\ ~aktif.geri
          /\ adim \in {"s3Alter", "dogAlter"}
        BY <1>6, AlterYer DEF Seviye3Alter, DogrulaAlter, YerDurumu, KisitSurer
    <2> QED
        BY <2>1 DEF SinirSozu, Serbest
<1>7. CASE KisitBitti
    <2>1. UNCHANGED sinir /\ ~aktif.var /\ kayit.uygulandi /\ adim = "kisAlter"
        BY <1>7 DEF KisitBitti, YerDurumu
    <2>2. CASE kayit'.uygulandi /\ ~(aktif'.var /\ aktif'.geri)
        BY <1>7, <2>2, KisitBittiOzet DEF SinirSozu, Serbest
    <2>3. CASE kisitli = {}
        <3>1. \A h \in Host : Dogru(h)
            BY <2>1, <2>3 DEF SinirSozu
        <3>2. \A h \in Host : Dogru(h)'
            BY <1>0, <2>1, <3>1 DEF Dogru, Guncel
        <3> QED
            BY <1>7, <3>2, KisitBittiOzet DEF SinirSozu
    <2>4. (kayit'.uygulandi /\ ~(aktif'.var /\ aktif'.geri)) \/ kisitli = {}
        <3>1. CASE /\ aktif'.var /\ aktif'.uygulandi = kayit.uygulandi /\ ~aktif'.geri
                   /\ UNCHANGED kayit
            BY <2>1, <3>1
        <3>2. CASE vuran' = vuran \cup (IF kisitli # {} THEN {"yanit"} ELSE {})
            <4>1. "yanit" \notin vuran'
                OBVIOUS
            <4> QED
                BY <3>2, <4>1
        <3>3. CASE UNCHANGED <<kayit, aktif>>
            BY <2>1, <3>3
        <3> QED
            BY <1>7, <3>1, <3>2, <3>3, KisitBittiOzet
    <2> QED
        BY <2>2, <2>3, <2>4
<1>8. CASE Birak
    <2>1. UNCHANGED <<sinir, kayit>>
        BY <1>8 DEF Birak
    <2>2. Serbest' => Serbest
        BY <1>8, <2>1, BirakOzet DEF Serbest, Birakiyor, YerDurumu, KisitSurer
    <2>3. adim' \in {"birakOku", "kapat"}
        BY <1>8, BirakOzet
    <2> QED
        BY <1>0, <2>1, <2>2, <2>3, SinirDurur
<1>9. CASE BirakOku
    <2>1. UNCHANGED <<sinir, kayit>> /\ kayit.uygulandi
        BY <1>9 DEF BirakOku, YerDurumu
    <2>2. CASE adim' = "birakHedef" /\ okunan' = sinir
        BY <2>1, <2>2 DEF SinirSozu, Serbest, Birakiyor
    <2>3. CASE adim' = "yaz" /\ ~aktif'.geri
        BY <2>1, <2>3 DEF SinirSozu, Serbest
    <2> QED
        BY <1>9, <2>2, <2>3, BirakOkuOzet
<1>10. CASE BirakHedef
    <2>1. /\ UNCHANGED <<sinir, kayit, aktif, okunan>> /\ iyi' = {} /\ adim' = "birakAlter"
          /\ adim = "birakHedef"
        BY <1>10 DEF BirakHedef
    <2>2. \A h \in Host : sinir[h] = okunan[h] \/ Dogru(h)
        BY <2>1 DEF SinirSozu
    <2>3. \A h \in Host : Dogru(h) => Dogru(h)'
        BY <1>0, <2>1 DEF Dogru, Guncel
    <2>4. kayit.uygulandi
        BY <2>1 DEF YerDurumu
    <2> QED
        BY <2>1, <2>2, <2>3, <2>4 DEF SinirSozu, Serbest, Birakiyor
<1>11. CASE BirakBitti
    <2>1. UNCHANGED <<sinir, kayit>> /\ kayit.uygulandi /\ adim = "birakAlter"
        BY <1>11 DEF BirakBitti, YerDurumu
    <2>2. CASE adim' = "yaz" /\ ~aktif'.geri
        BY <2>1, <2>2 DEF SinirSozu, Serbest
    <2>3. CASE adim' = "birakOku"
        BY <2>1, <2>3 DEF SinirSozu, Serbest, Birakiyor
    <2>4. CASE iyi = Host /\ adim' = "kapat" /\ HedefDeger(TRUE) = hedef
        <3>1. \A h \in Host : Dogru(h)
            BY <2>1, <2>4, SinirGeriYazildi
        <3>2. \A h \in Host : Dogru(h)'
            BY <1>0, <2>1, <3>1 DEF Dogru, Guncel
        <3> QED
            BY <2>4, <3>2 DEF SinirSozu
    <2>5. vuran' # vuran \cup {"oku"} /\ vuran' # vuran \cup {"deneme"}
        OBVIOUS
    <2> QED
        BY <1>11, <2>2, <2>3, <2>4, <2>5, BirakBittiOzet
<1>12. CASE BirakAlter
    BY <1>12, SinirBirakAlter
<1>13. CASE Kapat
    <2>1. UNCHANGED sinir /\ adim' = "yaz"
        BY <1>13 DEF Kapat
    <2>2. Serbest
        BY <1>13 DEF Kapat, YerDurumu, KisitSurer, Serbest, Birakiyor
    <2> QED
        BY <1>0, <2>1, <2>2, SinirDurur
<1>14. CASE TurBitti
    <2>1. UNCHANGED <<sinir, aktif>>
        BY <1>14 DEF TurBitti
    <2>2. kayit'.uygulandi = kayit.uygulandi /\ adim = "yaz" /\ adim' = "bos"
        BY <1>14, TurBittiOzet
    <2> QED
        BY <1>0, <2>1, <2>2, SinirDurur DEF Serbest, Birakiyor
<1> QED
    BY <1>1, <1>2, <1>3, <1>4, <1>5, <1>6, <1>7, <1>8, <1>9, <1>10, <1>11, <1>12, <1>13, <1>14
    DEF Motor, KisitAdimi, Seviye3Adimi, DogrulaAdimi, BirakAdimi

LEMMA SinirKorunur ==
    Tip /\ YerDurumu /\ PlanDurumu /\ SinirDurumu /\ [Next]_vars => SinirDurumu'
<1> SUFFICES ASSUME Tip, YerDurumu, PlanDurumu, SinirDurumu, [Next]_vars,
                    vuran' \subseteq {"liste", "kapanmadi"}
             PROVE  SinirSozu'
    BY DEF SinirDurumu
<1> USE DEF SinirDurumu, bellekVars, turVars, donguVars, planVars, disVars
<1>1. CASE Acilis
    <2>1. vuran \subseteq {"liste", "kapanmadi"} /\ adim = "bos" /\ adim' = "kurtar"
        BY <1>1 DEF Acilis, YerDurumu
    <2>2. UNCHANGED <<sinir, kayit, aktif, plan, guncel, uyg>>
        BY <1>1 DEF Acilis
    <2> QED
        BY <2>1, <2>2, SinirDurur DEF Serbest, Birakiyor
<1>2. CASE Cok
    <2>1. /\ UNCHANGED <<sinir, kayit, plan, vuran>> /\ adim' = "bos" /\ ~aktif'.var
          /\ uyg'.adim = "bos" /\ (guncel' => guncel)
        BY <1>2, BosKayitlar DEF Cok, Bellek
    <2>2. Serbest' => Serbest
        BY <2>1 DEF Serbest
    <2>3. \A h \in Host : Dogru(h) => Dogru(h)'
        BY <2>1 DEF Dogru, Guncel
    <2> QED
        BY <2>1, <2>2, <2>3 DEF SinirSozu
<1>3. CASE Dis
    <2>1. vuran \subseteq {"liste", "kapanmadi"} /\ "yaris" \notin vuran'
        BY <1>3, VuranKalir
    <2> QED
        BY <1>3, <2>1, SinirDis
<1>4. CASE Motor
    BY <1>4, SinirMotor, VuranKalir
<1>5. CASE UNCHANGED vars
    <2>1. \A h \in Host : Dogru(h)' <=> Dogru(h)
        BY <1>5 DEF vars, Dogru, Guncel
    <2> QED
        BY <1>5, <2>1 DEF vars, SinirSozu, Serbest, Birakiyor
<1> QED
    BY <1>1, <1>2, <1>3, <1>4, <1>5 DEF Next

\* When the plan was applied, no restriction is open and nothing is going on, every
\* host entry of the user has the plan's limit, whatever restrictions came, climbed,
\* failed half way, were overtaken by a plan, by a crash, and went (PlanGecerli).
THEOREM PlanGecerliDogru == Spec => []PlanGecerli
<1>1. Init => Tip /\ YerDurumu /\ PlanDurumu /\ SinirDurumu
    BY TipBaslar, YerBaslar, PlanBaslar, SinirBaslar
<1>2. Tip /\ YerDurumu /\ PlanDurumu /\ SinirDurumu /\ [Next]_vars
        => (Tip /\ YerDurumu /\ PlanDurumu /\ SinirDurumu)'
    BY TipKorunur, YerKorunur, PlanKorunur, SinirKorunur
<1>3. YerDurumu /\ SinirDurumu => PlanGecerli
    <2> SUFFICES ASSUME YerDurumu, SinirDurumu, ~kayit.var, plan.planli, guncel, vuran = {},
                        NEW h \in Host
                 PROVE  sinir[h] = plan.deger
        BY DEF PlanGecerli
    <2>1. Serbest
        BY DEF YerDurumu, Serbest
    <2> QED
        BY <2>1 DEF SinirDurumu, SinirSozu, Dogru, Guncel
<1> QED
    BY <1>1, <1>2, <1>3, PTL DEF Spec

=============================================================================
