--------------------------- MODULE SirYenileKanit ---------------------------
(***************************************************************************)
(* Proofs about the rotation of secrets, for every number of host entries, *)
(* every set of add-ons, every set of faults and every number of rotations.*)
(***************************************************************************)
EXTENDS SirYenile, TLAPS

-----------------------------------------------------------------------------
(***************************************************************************)
(* The inductive invariant.                                                *)
(***************************************************************************)
Geri == {"hata", "geridon"}
KurtarAdimi == {"kurtarOku", "kurtarDb", "kurtarRedis", "kurtarEnv", "kurtarSil"}

\* Where a command may stand in each direction.
YonDurumu ==
    /\ yon \in {"kurtar", "ileri", "hata", "geridon"}
    /\ yon = "kurtar" => adim \in {"bos", "hizala", "hazirla"} \cup KurtarAdimi
    /\ yon = "ileri" => adim \in {"bekleyenYaz", "hostlar", "alter", "dbDogrula", "vkSet", "vkSave",
                                  "vkDogrula", "envYaz", "hizala", "sil", "yenilendi"}
    /\ yon = "hata" => adim \in {"vkSet", "vkSave", "alter", "geriSil"}
    /\ yon = "geridon" => adim \in {"vkSet", "vkSave", "alter", "geriEnv", "geriEk"}

\* The pending file and env in each phase.
Kayit == [hedef |-> kume, eski |-> eski, yeni |-> yeniEnv]

DosyaDurumu ==
    /\ adim \in {"hazirla", "bekleyenYaz"} => ~BekleyenVar
    /\ adim \in {"kurtarDb", "kurtarRedis", "kurtarEnv", "bekleyenYaz"} => eski = env
    /\ adim = "kurtarDb" => yeniEnv = env
    /\ adim = "kurtarRedis" => yeniEnv["redis"] = env["redis"]
    /\ yon \notin {"kurtar"} => \A h \in Hedef \ kume : yeniEnv[h] = eski[h]
    /\ yon = "ileri" /\ adim \notin {"bekleyenYaz", "yenilendi"} => bekleyen = Kayit
    /\ yon = "ileri" /\ adim \notin {"hizala", "sil", "yenilendi"} => env = eski
    /\ yon = "ileri" /\ adim \in {"hizala", "sil", "yenilendi"} => env = yeniEnv
    /\ yon = "hata" => bekleyen = Kayit /\ env = eski
    /\ adim = "yenilendi" \/ yon = "geridon" => bekleyen = Kayit \/ bekleyen = BekleyenYok
    /\ adim = "geriEk" => env = eski \/ (eksik /\ ~DbTarafi)

\* dbDegisti and redisDegist against the phase.
BayrakDurumu ==
    /\ yon = "kurtar" => ~dbDegisti /\ ~redisDegist
    /\ dbDegisti => "db" \in kume
    /\ redisDegist => "redis" \in kume
    /\ adim \in {"bekleyenYaz", "hostlar"} => ~dbDegisti /\ ~redisDegist
    /\ adim = "hostlar" => "db" \in kume
    /\ adim \in {"alter", "dbDogrula"} => dbDegisti
    /\ yon = "ileri" /\ adim \in {"alter", "dbDogrula", "vkSet", "vkSave"} => ~redisDegist
    /\ yon = "ileri" /\ adim \in {"vkSet", "vkSave"} => "redis" \in kume
    /\ yon = "ileri" /\ adim \notin {"bekleyenYaz", "hostlar"} => ("db" \in kume => dbDegisti)
    /\ adim \in {"vkDogrula", "envYaz", "sil", "yenilendi"} \/ (yon = "ileri" /\ adim = "hizala")
           => ("redis" \in kume => redisDegist)
    /\ adim # "geriEk" => ~eksik

\* The add-ons' files.
EkDurumu ==
    /\ adim \in {"bos", "hazirla", "bekleyenYaz"} \cup (KurtarAdimi \ {"kurtarSil"})
           => ekDegisen = {}
    /\ yon = "hata" \/ (yon = "ileri" /\ adim \notin {"hizala", "sil", "yenilendi"})
           => ekDegisen = {}
    /\ adim = "geriEk" => eksik \/ \A e \in ekDegisen \ ekKalan : ek[e] = eski["db"]

YapiInv == TypeOK /\ YonDurumu /\ DosyaDurumu /\ BayrakDurumu /\ EkDurumu

\* Which password the DSN's host entry has.
DbDurumu ==
    DbTarafi =>
        LET d == db[DsnHost] IN
        /\ yon = "kurtar" => IF "db" \in bekleyen.hedef THEN d \in Denenen("db") ELSE d = env["db"]
        /\ adim \in {"kurtarRedis", "kurtarEnv"} => d = yeniEnv["db"]
        /\ adim \in {"hizala", "kurtarSil", "hazirla"} => d = env["db"]
        /\ adim \in {"bekleyenYaz", "hostlar"} => d = eski["db"]
        /\ yon = "ileri" /\ adim = "alter" =>
              d \in {eski["db"], yeniEnv["db"]} /\ (sira > DsnHost => d = yeniEnv["db"])
        /\ yon = "ileri" /\ adim \notin {"bekleyenYaz", "hostlar", "alter"} => d = yeniEnv["db"]
        /\ yon \in Geri =>
              /\ d \in {eski["db"], yeniEnv["db"]}
              /\ ~dbDegisti => d = eski["db"]
              /\ adim = "alter" /\ sira > DsnHost => d = eski["db"]
              /\ adim \in {"geriSil", "geriEnv", "geriEk"} => d = eski["db"]

\* Which password Valkey has.
VkDurumu ==
    ValkeyTarafi =>
        /\ yon = "kurtar" => IF "redis" \in bekleyen.hedef THEN vk \in Denenen("redis")
                                                            ELSE vk = env["redis"]
        /\ adim = "kurtarEnv" => vk = yeniEnv["redis"]
        /\ adim \in {"hizala", "kurtarSil", "hazirla"} => vk = env["redis"]
        /\ adim \in {"bekleyenYaz", "hostlar", "dbDogrula"}
              => vk = eski["redis"]
        /\ yon = "ileri" /\ adim \in {"alter", "vkSet"}
              => vk = eski["redis"]
        /\ yon = "ileri" /\ adim \in {"vkSave", "vkDogrula", "envYaz", "hizala", "sil", "yenilendi"}
              => vk = yeniEnv["redis"]
        /\ yon \in Geri => vk = IF adim = "vkSet" THEN yeniEnv["redis"] ELSE eski["redis"]

SirInv == YapiInv /\ DbDurumu /\ VkDurumu


-----------------------------------------------------------------------------
(***************************************************************************)
(* Type correctness: what a command has in memory, and what is outside it. *)
(***************************************************************************)
KomutTipi ==
    /\ nesil \in Nat /\ adim \in Adim /\ amac \in {"yenile", "kurtar"}
    /\ yon \in {"kurtar", "ileri", "hata", "geridon"}
    /\ kume \subseteq Hedef /\ eski \in Sir /\ yeniEnv \in Sir
    /\ sira \in 1 .. HostSayisi + 1
    /\ dbDegisti \in BOOLEAN /\ redisDegist \in BOOLEAN /\ eksik \in BOOLEAN
    /\ ekKalan \subseteq Eklenti /\ ekDegisen \subseteq Eklenti
    /\ kod \in Kod

DisTipi ==
    /\ db \in [Host -> Nat] /\ vk \in Nat /\ vkKayit \in Nat
    /\ env \in Sir /\ ek \in [Eklenti -> Nat] /\ bekleyen \in Bekleyen
    /\ vuran \subseteq AgirAriza

LEMMA TipParcalari == TypeOK <=> KomutTipi /\ DisTipi
    BY DEF TypeOK, KomutTipi, DisTipi

LEMMA IlkTipi == IlkSir \in Sir /\ BekleyenYok \in Bekleyen
    BY DEF IlkSir, Sir, BekleyenYok, Bekleyen

\* Ends of a command and beginnings of a rollback keep the type of its memory.
LEMMA BitirTipi == ASSUME KomutTipi, NEW k \in Kod, Bitir(k) PROVE KomutTipi'
<1>1. 1 \in 1 .. HostSayisi + 1 /\ "bos" \in Adim
    BY HostVarsayim DEF Adim
<1>2. /\ adim' = "bos" /\ amac' = "kurtar" /\ yon' = "kurtar" /\ kume' = {} /\ kod' = k
      /\ eski' = IlkSir /\ yeniEnv' = IlkSir /\ sira' = 1 /\ ekKalan' = {} /\ ekDegisen' = {}
    BY DEF Bitir, Unut
<1>3. dbDegisti' \in BOOLEAN /\ redisDegist' \in BOOLEAN /\ eksik' \in BOOLEAN /\ nesil' \in Nat
    BY DEF Bitir, Unut, KomutTipi
<1> QED
    BY <1>1, <1>2, <1>3, IlkTipi DEF KomutTipi

LEMMA GeriAlTipi == ASSUME KomutTipi, NEW y \in Geri, GeriAl(y) PROVE KomutTipi'
<1>1. HostSayisi \in Nat \ {0}
    BY HostVarsayim
<1>2. adim' \in Adim
    BY DEF GeriAl, DbGeriAdimi, GeriSonu, Adim
<1> QED
    BY <1>1, <1>2 DEF GeriAl, KomutTipi, geriVars, planVars, Geri

LEMMA VkDustuTipi == ASSUME KomutTipi, VkDustu PROVE KomutTipi'
<1>1. HostSayisi \in Nat \ {0}
    BY HostVarsayim
<1>2. CASE GeriAl("hata")
    BY <1>2, GeriAlTipi DEF Geri
<1>3. CASE ~GeriAl("hata")
    <2>1. adim' \in Adim
        BY <1>3 DEF VkDustu, DbGeriAdimi, GeriSonu, Adim
    <2> QED
        BY <1>1, <1>3, <2>1 DEF VkDustu, KomutTipi, geriVars, planVars
<1> QED
    BY <1>2, <1>3

LEMMA YapiBaslar == Init => SirInv
<1> SUFFICES ASSUME Init PROVE SirInv
    OBVIOUS
<1>0. DsnHost \in Host /\ HostSayisi \in Nat \ {0}
    BY HostVarsayim
<1>1. TypeOK
    <2>1. KomutTipi
        <3>1. sira \in 1 .. HostSayisi + 1 /\ adim \in Adim /\ kod \in Kod
            BY <1>0 DEF Init, Adim, Kod
        <3> QED
            BY <3>1, IlkTipi DEF Init, KomutTipi
    <2>2. DisTipi
        BY IlkTipi DEF Init, DisTipi
    <2> QED
        BY <2>1, <2>2, TipParcalari
<1>2. YonDurumu /\ DosyaDurumu /\ BayrakDurumu /\ EkDurumu
    BY DEF Init, YonDurumu, DosyaDurumu, BayrakDurumu, EkDurumu, KurtarAdimi
<1>3. DbDurumu /\ VkDurumu
    BY <1>0 DEF Init, DbDurumu, VkDurumu, BekleyenYok, IlkSir, Hedef, Geri
<1> QED
    BY <1>1, <1>2, <1>3 DEF SirInv, YapiInv

LEMMA TipKorunur == TypeOK /\ [Next]_vars => TypeOK'
<1> SUFFICES ASSUME KomutTipi, DisTipi, [Next]_vars PROVE KomutTipi' /\ DisTipi'
    BY TipParcalari, PTL
<1>0. /\ HostSayisi \in Nat \ {0} /\ DsnHost \in Host /\ Host = 1 .. HostSayisi
      /\ YenilemeSiniri \in Nat
    BY HostVarsayim, YenilemeVarsayim DEF Host
<1> USE <1>0
<1>1. ASSUME NEW a \in {"yenile", "kurtar"}, NEW k \in SUBSET Hedef, Basla(a, k)
      PROVE  (KomutTipi' /\ DisTipi')
    <2>1. DisTipi'
        BY <1>1, IlkTipi DEF DisTipi, Basla, disVars, dosyaVars, Bozulur, AgirAriza
    <2>2. KomutTipi'
        BY <1>1, BitirTipi, GeriAlTipi, VkDustuTipi DEF Basla, geriVars, planVars, Geri, Kod,
           KomutTipi, Adim
    <2> QED
        BY <2>1, <2>2
<1>2. CASE Oldu
    <2>1. DisTipi'
        BY <1>2, IlkTipi DEF DisTipi, Oldu, disVars, dosyaVars, Bozulur, AgirAriza
    <2>2. KomutTipi'
        BY <1>2, BitirTipi, GeriAlTipi, VkDustuTipi DEF Oldu, geriVars, planVars, Geri, Kod
    <2> QED
        BY <2>1, <2>2
<1>3. CASE ValkeyYenidenBasla
    <2>1. DisTipi'
        BY <1>3, IlkTipi DEF DisTipi, ValkeyYenidenBasla, disVars, dosyaVars, Bozulur, AgirAriza
    <2>2. KomutTipi'
        BY <1>3, BitirTipi, GeriAlTipi, VkDustuTipi DEF ValkeyYenidenBasla, geriVars, planVars,
           Geri, Kod, KomutTipi, Adim
    <2> QED
        BY <2>1, <2>2
<1>4. CASE KurtarOku
    <2>1. DisTipi'
        BY <1>4, IlkTipi DEF DisTipi, KurtarOku, disVars, dosyaVars, Bozulur, AgirAriza
    <2>2. KomutTipi'
        BY <1>4, BitirTipi, GeriAlTipi, VkDustuTipi DEF KurtarOku, geriVars, planVars, Geri, Kod,
           KomutTipi, Adim, DisTipi
    <2> QED
        BY <2>1, <2>2
<1>5. CASE KurtarDb
    <2>1. DisTipi'
        BY <1>5 DEF DisTipi, KurtarDb, Olc, Bozulur, AgirAriza, disVars, dosyaVars
    <2>2. CASE \E k \in Kod : Bitir(k)
        BY <2>1, <2>2, BitirTipi
    <2>3. CASE ~\E k \in Kod : Bitir(k)
        <3>1. PICK p \in {yeniEnv["db"], bekleyen.yeni["db"], bekleyen.eski["db"]} :
                  yeniEnv' \in {yeniEnv, [yeniEnv EXCEPT !["db"] = p]}
            BY <1>5, <2>3 DEF KurtarDb, Olc, planVars, Kod
        <3>2. p \in Nat /\ "db" \in Hedef
            BY <3>1 DEF DisTipi, KomutTipi, Bekleyen, Sir, Hedef
        <3>3. yeniEnv' \in Sir
            BY <3>1, <3>2 DEF KomutTipi, Sir
        <3>4. adim' \in Adim
            BY <1>5, <2>3 DEF KurtarDb, Olc, Adim, Kod
        <3>5. UNCHANGED <<geriVars, nesil, amac, kume, eski, yon, sira, ekKalan, kod>>
            BY <1>5, <2>3 DEF KurtarDb, Olc, planVars, Kod
        <3> QED
            BY <2>1, <3>3, <3>4, <3>5 DEF KomutTipi, geriVars
    <2> QED
        BY <2>1, <2>2, <2>3
<1>6. CASE KurtarRedis
    <2>1. DisTipi'
        BY <1>6 DEF DisTipi, KurtarRedis, Olc, Bozulur, AgirAriza, disVars, dosyaVars
    <2>2. CASE \E k \in Kod : Bitir(k)
        BY <2>1, <2>2, BitirTipi
    <2>3. CASE ~\E k \in Kod : Bitir(k)
        <3>1. PICK p \in {yeniEnv["redis"], bekleyen.yeni["redis"], bekleyen.eski["redis"]} :
                  yeniEnv' \in {yeniEnv, [yeniEnv EXCEPT !["redis"] = p]}
            BY <1>6, <2>3 DEF KurtarRedis, Olc, planVars, Kod
        <3>2. p \in Nat /\ "redis" \in Hedef
            BY <3>1 DEF DisTipi, KomutTipi, Bekleyen, Sir, Hedef
        <3>3. yeniEnv' \in Sir
            BY <3>1, <3>2 DEF KomutTipi, Sir
        <3>4. adim' \in Adim
            BY <1>6, <2>3 DEF KurtarRedis, Olc, Adim, Kod
        <3>5. UNCHANGED <<geriVars, nesil, amac, kume, eski, yon, sira, ekKalan, kod>>
            BY <1>6, <2>3 DEF KurtarRedis, Olc, planVars, Kod
        <3> QED
            BY <2>1, <3>3, <3>4, <3>5 DEF KomutTipi, geriVars
    <2> QED
        BY <2>1, <2>2, <2>3
<1>7. CASE KurtarEnv
    <2>1. DisTipi'
        BY <1>7, IlkTipi DEF DisTipi, KurtarEnv, disVars, dosyaVars, Bozulur, AgirAriza, KomutTipi
    <2>2. KomutTipi'
        BY <1>7, BitirTipi, GeriAlTipi, VkDustuTipi DEF KurtarEnv, geriVars, planVars, Geri, Kod,
           KomutTipi, Adim
    <2> QED
        BY <2>1, <2>2
<1>8. CASE KurtarSil
    <2>1. DisTipi'
        BY <1>8, IlkTipi DEF DisTipi, KurtarSil, disVars, dosyaVars, Bozulur, AgirAriza
    <2>2. KomutTipi'
        BY <1>8, BitirTipi, GeriAlTipi, VkDustuTipi DEF KurtarSil, geriVars, planVars, Geri, Kod,
           KomutTipi, Adim
    <2> QED
        BY <2>1, <2>2
<1>9. CASE Hazirla
    <2>1. DisTipi'
        BY <1>9, IlkTipi DEF DisTipi, Hazirla, disVars, dosyaVars, Bozulur, AgirAriza
    <2>2. KomutTipi'
        BY <1>9, BitirTipi, GeriAlTipi, VkDustuTipi DEF Hazirla, geriVars, planVars, Geri, Kod,
           Sir, DisTipi, KomutTipi, Adim
    <2> QED
        BY <2>1, <2>2
<1>10. CASE BekleyenYaz
    <2>1. Kayit \in Bekleyen
        BY DEF Kayit, Bekleyen, KomutTipi
    <2>2. DisTipi'
        BY <1>10, <2>1 DEF DisTipi, BekleyenYaz, Kayit, disVars, Bozulur, AgirAriza
    <2>3. KomutTipi'
        BY <1>10, BitirTipi DEF BekleyenYaz, IlkDis, KomutTipi, Adim, Kod, geriVars, planVars
    <2> QED
        BY <2>2, <2>3
<1>11. CASE Hostlar
    <2>1. DisTipi'
        BY <1>11, IlkTipi DEF DisTipi, Hostlar, disVars, dosyaVars, Bozulur, AgirAriza
    <2>2. CASE GeriAl("hata")
        BY <2>1, <2>2, GeriAlTipi, VkDustuTipi DEF Geri
    <2>3. CASE ~GeriAl("hata")
        <3>1. adim' \in Adim
            BY <1>11, <2>3 DEF Hostlar, Adim
        <3>2. sira' \in 1 .. HostSayisi + 1
            BY <1>11, <2>3 DEF Hostlar, KomutTipi
        <3> QED
            BY <1>11, <2>1, <2>3, <3>1, <3>2 DEF Hostlar, KomutTipi, geriVars, planVars
    <2> QED
        BY <2>1, <2>2, <2>3
<1>12. CASE Alter
    <2>1. DisTipi'
        BY <1>12, IlkTipi DEF DisTipi, Alter, disVars, dosyaVars, Bozulur, AgirAriza, DbParola,
           KomutTipi, Sir, Hedef
    <2>2. KomutTipi'
        BY <1>12, BitirTipi, GeriAlTipi, VkDustuTipi DEF Alter, geriVars, planVars, Geri, Kod,
           KomutTipi, Adim
    <2> QED
        BY <2>1, <2>2
<1>13. CASE AlterBitti
    <2>1. DisTipi'
        BY <1>13, IlkTipi DEF DisTipi, AlterBitti, disVars, dosyaVars, Bozulur, AgirAriza
    <2>2. KomutTipi'
        BY <1>13, BitirTipi, GeriAlTipi, VkDustuTipi DEF AlterBitti, geriVars, planVars, Geri,
           Kod, KomutTipi, Adim, GeriSonu
    <2> QED
        BY <2>1, <2>2
<1>14. CASE AlterDustu
    <2>1. DisTipi'
        BY <1>14, IlkTipi DEF DisTipi, AlterDustu, disVars, dosyaVars, Bozulur, AgirAriza
    <2>2. KomutTipi'
        BY <1>14, BitirTipi, GeriAlTipi, VkDustuTipi DEF AlterDustu, geriVars, planVars, Geri,
           Kod, KomutTipi, Adim, GeriSonu
    <2> QED
        BY <2>1, <2>2
<1>15. CASE DbDogrula
    <2>1. DisTipi'
        BY <1>15, IlkTipi DEF DisTipi, DbDogrula, disVars, dosyaVars, Bozulur, AgirAriza
    <2>2. KomutTipi'
        BY <1>15, BitirTipi, GeriAlTipi, VkDustuTipi DEF DbDogrula, geriVars, planVars, Geri,
           Kod, KomutTipi, Adim
    <2> QED
        BY <2>1, <2>2
<1>16. CASE VkSet
    <2>1. DisTipi'
        BY <1>16, IlkTipi DEF DisTipi, VkSet, disVars, dosyaVars, Bozulur, AgirAriza, VkEski,
           VkYeni, KomutTipi, Sir, Hedef
    <2>2. KomutTipi'
        BY <1>16, BitirTipi, GeriAlTipi, VkDustuTipi DEF VkSet, geriVars, planVars, Geri, Kod,
           KomutTipi, Adim
    <2> QED
        BY <2>1, <2>2
<1>17. CASE VkSave
    <2>1. DisTipi'
        BY <1>17, IlkTipi DEF DisTipi, VkSave, disVars, dosyaVars, Bozulur, AgirAriza, VkEski,
           VkYeni, KomutTipi, Sir, Hedef
    <2>2. CASE VkDustu
        BY <2>1, <2>2, GeriAlTipi, VkDustuTipi DEF Geri
    <2>3. CASE ~VkDustu
        <3>1. adim' \in Adim
            BY <1>17, <2>3 DEF VkSave, DbGeriAdimi, GeriSonu, Adim
        <3>2. sira' \in 1 .. HostSayisi + 1
            BY <1>17, <2>3 DEF VkSave, KomutTipi
        <3> QED
            BY <1>17, <2>1, <2>3, <3>1, <3>2 DEF VkSave, KomutTipi, geriVars, planVars
    <2> QED
        BY <2>1, <2>2, <2>3
<1>18. CASE VkDogrula
    <2>1. DisTipi'
        BY <1>18, IlkTipi DEF DisTipi, VkDogrula, disVars, dosyaVars, Bozulur, AgirAriza
    <2>2. KomutTipi'
        BY <1>18, BitirTipi, GeriAlTipi, VkDustuTipi DEF VkDogrula, geriVars, planVars, Geri,
           Kod, KomutTipi, Adim
    <2> QED
        BY <2>1, <2>2
<1>19. CASE EnvYaz
    <2>1. DisTipi'
        BY <1>19, IlkTipi DEF DisTipi, EnvYaz, disVars, dosyaVars, Bozulur, AgirAriza, KomutTipi
    <2>2. KomutTipi'
        BY <1>19, BitirTipi, GeriAlTipi, VkDustuTipi DEF EnvYaz, geriVars, planVars, Geri, Kod,
           KomutTipi, Adim
    <2> QED
        BY <2>1, <2>2
<1>20. CASE Sil
    <2>1. DisTipi'
        BY <1>20, IlkTipi DEF DisTipi, Sil, disVars, dosyaVars, Bozulur, AgirAriza
    <2>2. KomutTipi'
        BY <1>20, BitirTipi, GeriAlTipi, VkDustuTipi DEF Sil, geriVars, planVars, Geri, Kod,
           KomutTipi, Adim
    <2> QED
        BY <2>1, <2>2
<1>21. CASE GeriSil
    <2>1. DisTipi'
        BY <1>21, IlkTipi DEF DisTipi, GeriSil, disVars, dosyaVars, Bozulur, AgirAriza
    <2>2. KomutTipi'
        BY <1>21, BitirTipi, GeriAlTipi, VkDustuTipi DEF GeriSil, geriVars, planVars, Geri, Kod
    <2> QED
        BY <2>1, <2>2
<1>22. CASE HizalaBitti
    <2>1. DisTipi'
        BY <1>22, IlkTipi DEF DisTipi, HizalaBitti, disVars, dosyaVars, Bozulur, AgirAriza
    <2>2. KomutTipi'
        BY <1>22, BitirTipi, GeriAlTipi, VkDustuTipi DEF HizalaBitti, geriVars, planVars, Geri,
           Kod, KomutTipi, Adim
    <2> QED
        BY <2>1, <2>2
<1>23. ASSUME NEW e \in Eklenti, EkHizala(e) PROVE (KomutTipi' /\ DisTipi')
    <2>1. DisTipi'
        BY <1>23, IlkTipi DEF DisTipi, EkHizala, disVars, dosyaVars, Bozulur, AgirAriza,
           KomutTipi, Sir, Hedef
    <2>2. KomutTipi'
        BY <1>23, BitirTipi, GeriAlTipi, VkDustuTipi DEF EkHizala, geriVars, planVars, Geri, Kod,
           KomutTipi, Adim
    <2> QED
        BY <2>1, <2>2
<1>24. ASSUME NEW e \in Eklenti, GeriEk(e) PROVE (KomutTipi' /\ DisTipi')
    <2>1. DisTipi'
        BY <1>24, IlkTipi DEF DisTipi, GeriEk, disVars, dosyaVars, Bozulur, AgirAriza, KomutTipi,
           Sir, Hedef
    <2>2. KomutTipi'
        BY <1>24, BitirTipi, GeriAlTipi, VkDustuTipi DEF GeriEk, geriVars, planVars, Geri, Kod,
           KomutTipi, Adim
    <2> QED
        BY <2>1, <2>2
<1>25. CASE Yenilendi
    <2>1. DisTipi'
        BY <1>25, IlkTipi DEF DisTipi, Yenilendi, disVars, dosyaVars, Bozulur, AgirAriza
    <2>2. KomutTipi'
        BY <1>25, BitirTipi, GeriAlTipi, VkDustuTipi DEF Yenilendi, geriVars, planVars, Geri, Kod
    <2> QED
        BY <2>1, <2>2
<1>26. CASE SagliksizPanel
    <2>1. DisTipi'
        BY <1>26, IlkTipi DEF DisTipi, SagliksizPanel, disVars, dosyaVars, Bozulur, AgirAriza
    <2>2. KomutTipi'
        BY <1>26, BitirTipi, GeriAlTipi, VkDustuTipi DEF SagliksizPanel, geriVars, planVars,
           Geri, Kod
    <2> QED
        BY <2>1, <2>2
<1>27. CASE GeriEnv
    <2>1. DisTipi'
        BY <1>27, IlkTipi DEF DisTipi, GeriEnv, disVars, dosyaVars, Bozulur, AgirAriza, KomutTipi
    <2>2. KomutTipi'
        BY <1>27, BitirTipi, GeriAlTipi, VkDustuTipi DEF GeriEnv, geriVars, planVars, Geri, Kod,
           KomutTipi, Adim
    <2> QED
        BY <2>1, <2>2
<1>28. CASE GeriSaglik
    <2>1. DisTipi'
        BY <1>28, IlkTipi DEF DisTipi, GeriSaglik, disVars, dosyaVars, Bozulur, AgirAriza
    <2>2. KomutTipi'
        BY <1>28, BitirTipi, GeriAlTipi, VkDustuTipi DEF GeriSaglik, geriVars, planVars, Geri, Kod
    <2> QED
        BY <2>1, <2>2
<1>29. CASE UNCHANGED vars
    BY <1>29 DEF vars, KomutTipi, DisTipi, disVars, dosyaVars, geriVars, planVars
<1> QED
    BY <1>1, <1>2, <1>3, <1>4, <1>5, <1>6, <1>7, <1>8, <1>9, <1>10, <1>11, <1>12, <1>13, <1>14,
       <1>15, <1>16, <1>17, <1>18, <1>19, <1>20, <1>21, <1>22, <1>23, <1>24, <1>25, <1>26, <1>27,
       <1>28, <1>29
       DEF Next

LEMMA YonKorunur == YapiInv /\ [Next]_vars => YonDurumu'
<1> SUFFICES ASSUME YapiInv, [Next]_vars PROVE YonDurumu'
    OBVIOUS
<1>0. /\ HostSayisi \in Nat \ {0} /\ DsnHost \in Host /\ Host = 1 .. HostSayisi
      /\ YenilemeSiniri \in Nat
    BY HostVarsayim, YenilemeVarsayim DEF Host
<1> USE <1>0 DEF YapiInv, YonDurumu, KurtarAdimi, disVars, dosyaVars, geriVars, planVars
<1>1. ASSUME NEW a \in {"yenile", "kurtar"}, NEW k \in SUBSET Hedef, Basla(a, k)
      PROVE  YonDurumu'
    BY <1>1 DEF Basla
<1>2. CASE Oldu
    BY <1>2 DEF Oldu, Bitir, Unut
<1>3. CASE ValkeyYenidenBasla
    BY <1>3 DEF ValkeyYenidenBasla
<1>4. CASE KurtarOku
    BY <1>4 DEF KurtarOku, Bitir, Unut
<1>5. CASE KurtarDb
    BY <1>5 DEF KurtarDb, Olc, Bitir, Unut
<1>6. CASE KurtarRedis
    BY <1>6 DEF KurtarRedis, Olc, Bitir, Unut
<1>7. CASE KurtarEnv
    BY <1>7 DEF KurtarEnv, Bitir, Unut
<1>8. CASE KurtarSil
    BY <1>8 DEF KurtarSil, Bitir, Unut
<1>9. CASE Hazirla
    BY <1>9 DEF Hazirla
<1>10. CASE BekleyenYaz
    BY <1>10 DEF BekleyenYaz, IlkDis, Bitir, Unut
<1>11. CASE Hostlar
    BY <1>11 DEF Hostlar, GeriAl, DbGeriAdimi, GeriSonu
<1>12. CASE Alter
    BY <1>12 DEF Alter
<1>13. CASE AlterBitti
    BY <1>13 DEF AlterBitti, GeriSonu
<1>14. CASE AlterDustu
    BY <1>14 DEF AlterDustu, GeriAl, DbGeriAdimi, GeriSonu
<1>15. CASE DbDogrula
    BY <1>15 DEF DbDogrula, GeriAl, DbGeriAdimi, GeriSonu
<1>16. CASE VkSet
    BY <1>16 DEF VkSet, VkDustu, GeriAl, DbGeriAdimi, GeriSonu
<1>17. CASE VkSave
    BY <1>17 DEF VkSave, VkDustu, GeriAl, DbGeriAdimi, GeriSonu
<1>18. CASE VkDogrula
    BY <1>18 DEF VkDogrula, GeriAl, DbGeriAdimi, GeriSonu
<1>19. CASE EnvYaz
    BY <1>19 DEF EnvYaz, GeriAl, DbGeriAdimi, GeriSonu
<1>20. CASE Sil
    BY <1>20 DEF Sil
<1>21. CASE GeriSil
    BY <1>21 DEF GeriSil, Bitir, Unut
<1>22. CASE HizalaBitti
    BY <1>22 DEF HizalaBitti
<1>23. ASSUME NEW e \in Eklenti, EkHizala(e) PROVE YonDurumu'
    BY <1>23 DEF EkHizala
<1>24. ASSUME NEW e \in Eklenti, GeriEk(e) PROVE YonDurumu'
    BY <1>24 DEF GeriEk
<1>25. CASE Yenilendi
    BY <1>25 DEF Yenilendi, Bitir, Unut
<1>26. CASE SagliksizPanel
    BY <1>26 DEF SagliksizPanel, GeriAl, DbGeriAdimi, GeriSonu
<1>27. CASE GeriEnv
    BY <1>27 DEF GeriEnv
<1>28. CASE GeriSaglik
    BY <1>28 DEF GeriSaglik, Bitir, Unut
<1>29. CASE UNCHANGED vars
    BY <1>29 DEF vars
<1> QED
    BY <1>1, <1>2, <1>3, <1>4, <1>5, <1>6, <1>7, <1>8, <1>9, <1>10, <1>11, <1>12, <1>13, <1>14,
       <1>15, <1>16, <1>17, <1>18, <1>19, <1>20, <1>21, <1>22, <1>23, <1>24, <1>25, <1>26, <1>27,
       <1>28, <1>29
       DEF Next

LEMMA SirAlani == ASSUME NEW s \in Sir, NEW h \in Hedef, NEW g \in Hedef, g # h, NEW p
                  PROVE  [s EXCEPT ![h] = p][g] = s[g] /\ [s EXCEPT ![h] = p][h] = p
    BY DEF Sir

LEMMA DosyaKorunur == YapiInv /\ [Next]_vars => DosyaDurumu'
<1> SUFFICES ASSUME YapiInv, [Next]_vars PROVE DosyaDurumu'
    OBVIOUS
<1>0. /\ HostSayisi \in Nat \ {0} /\ DsnHost \in Host /\ Host = 1 .. HostSayisi
      /\ YenilemeSiniri \in Nat
    BY HostVarsayim, YenilemeVarsayim DEF Host
<1> USE <1>0 DEF YapiInv, YonDurumu, DosyaDurumu, KurtarAdimi, Kayit, BekleyenVar, disVars,
           dosyaVars, geriVars, planVars
<1>1. ASSUME NEW a \in {"yenile", "kurtar"}, NEW k \in SUBSET Hedef, Basla(a, k)
      PROVE  DosyaDurumu'
    BY <1>1 DEF Basla
<1>2. CASE Oldu
    BY <1>2 DEF Oldu, Bitir, Unut
<1>3. CASE ValkeyYenidenBasla
    BY <1>3 DEF ValkeyYenidenBasla, DbTarafi
<1>4. CASE KurtarOku
    BY <1>4 DEF KurtarOku, Bitir, Unut
<1>5. CASE KurtarDb
    <2>1. CASE yeniEnv' = yeniEnv \/ \E k \in Kod : Bitir(k)
        BY <1>5, <2>1 DEF KurtarDb, Olc, Bitir, Unut, Kod
    <2>2. CASE \E p : yeniEnv' = [yeniEnv EXCEPT !["db"] = p] /\ adim' = "kurtarRedis"
        <3>1. yeniEnv \in Sir /\ "db" \in Hedef /\ "redis" \in Hedef
            BY DEF TypeOK, Hedef
        <3>2. yeniEnv'["redis"] = yeniEnv["redis"]
            BY <2>2, <3>1, SirAlani
        <3>3. /\ yon = "kurtar" /\ yeniEnv = env /\ eski = env
              /\ UNCHANGED <<env, eski, yon>>
            BY <1>5, <2>2 DEF KurtarDb, Olc, Bitir, Unut
        <3> QED
            BY <2>2, <3>2, <3>3
    <2> QED
        BY <1>5, <2>1, <2>2 DEF KurtarDb, Olc, Kod
<1>6. CASE KurtarRedis
    BY <1>6 DEF KurtarRedis, Olc, Bitir, Unut, Hedef
<1>7. CASE KurtarEnv
    BY <1>7 DEF KurtarEnv, Bitir, Unut
<1>8. CASE KurtarSil
    BY <1>8 DEF KurtarSil, Bitir, Unut, BekleyenYok
<1>9. CASE Hazirla
    BY <1>9 DEF Hazirla, Hedef
<1>10. CASE BekleyenYaz
    BY <1>10 DEF BekleyenYaz, IlkDis, Bitir, Unut
<1>11. CASE Hostlar
    BY <1>11 DEF Hostlar, GeriAl, DbGeriAdimi, GeriSonu, BayrakDurumu
<1>12. CASE Alter
    BY <1>12 DEF Alter
<1>13. CASE AlterBitti
    BY <1>13 DEF AlterBitti, GeriSonu
<1>14. CASE AlterDustu
    BY <1>14 DEF AlterDustu, GeriAl, DbGeriAdimi, GeriSonu
<1>15. CASE DbDogrula
    BY <1>15 DEF DbDogrula, GeriAl, DbGeriAdimi, GeriSonu
<1>16. CASE VkSet
    BY <1>16 DEF VkSet, VkDustu, GeriAl, DbGeriAdimi, GeriSonu, BayrakDurumu
<1>17. CASE VkSave
    BY <1>17 DEF VkSave, VkDustu, GeriAl, DbGeriAdimi, GeriSonu
<1>18. CASE VkDogrula
    BY <1>18 DEF VkDogrula, GeriAl, DbGeriAdimi, GeriSonu
<1>19. CASE EnvYaz
    BY <1>19 DEF EnvYaz, GeriAl, DbGeriAdimi, GeriSonu
<1>20. CASE Sil
    BY <1>20 DEF Sil, BekleyenYok
<1>21. CASE GeriSil
    BY <1>21 DEF GeriSil, Bitir, Unut, BekleyenYok
<1>22. CASE HizalaBitti
    BY <1>22 DEF HizalaBitti
<1>23. ASSUME NEW e \in Eklenti, EkHizala(e) PROVE DosyaDurumu'
    BY <1>23 DEF EkHizala
<1>24. ASSUME NEW e \in Eklenti, GeriEk(e) PROVE DosyaDurumu'
    BY <1>24 DEF GeriEk, Bozulur, DbTarafi
<1>25. CASE Yenilendi
    BY <1>25 DEF Yenilendi, Bitir, Unut
<1>26. CASE SagliksizPanel
    BY <1>26 DEF SagliksizPanel, GeriAl, DbGeriAdimi, GeriSonu
<1>27. CASE GeriEnv
    BY <1>27 DEF GeriEnv, Bozulur, DbTarafi, AgirAriza
<1>28. CASE GeriSaglik
    BY <1>28 DEF GeriSaglik, Bitir, Unut
<1>29. CASE UNCHANGED vars
    BY <1>29 DEF vars, DbTarafi
<1> QED
    BY <1>1, <1>2, <1>3, <1>4, <1>5, <1>6, <1>7, <1>8, <1>9, <1>10, <1>11, <1>12, <1>13, <1>14,
       <1>15, <1>16, <1>17, <1>18, <1>19, <1>20, <1>21, <1>22, <1>23, <1>24, <1>25, <1>26, <1>27,
       <1>28, <1>29
       DEF Next

LEMMA GeriAlBayrak == ASSUME YapiInv, NEW y \in Geri, GeriAl(y), adim # "geriEk" PROVE BayrakDurumu'
<1>1. /\ dbDegisti' = dbDegisti /\ redisDegist' = redisDegist /\ eksik' = eksik /\ kume' = kume
      /\ yon' \in Geri
    BY DEF GeriAl, geriVars, planVars
<1>2. adim' \in {"vkSet", "alter", "geriSil", "geriEnv"} /\ (adim' = "alter" => dbDegisti)
    BY DEF GeriAl, DbGeriAdimi, GeriSonu
<1> QED
    BY <1>1, <1>2 DEF YapiInv, BayrakDurumu, Geri

LEMMA VkDustuBayrak == ASSUME YapiInv, VkDustu, adim \in {"vkSet", "vkSave"} PROVE BayrakDurumu'
<1>1. CASE GeriAl("hata")
    BY <1>1, GeriAlBayrak DEF Geri
<1>2. CASE yon # "ileri" /\ ~GeriAl("hata")
    <2>1. /\ dbDegisti' = dbDegisti /\ redisDegist' = redisDegist /\ eksik' = eksik /\ kume' = kume
          /\ yon' = yon /\ yon \in Geri
        BY <1>2 DEF VkDustu, geriVars, planVars, YapiInv, YonDurumu, KurtarAdimi, Geri
    <2>2. adim' \in {"alter", "geriSil", "geriEnv"} /\ (adim' = "alter" => dbDegisti)
        BY <1>2 DEF VkDustu, DbGeriAdimi, GeriSonu
    <2> QED
        BY <2>1, <2>2 DEF YapiInv, BayrakDurumu, Geri
<1> QED
    BY <1>1, <1>2 DEF VkDustu

LEMMA BayrakKorunur == YapiInv /\ [Next]_vars => BayrakDurumu'
<1> SUFFICES ASSUME YapiInv, [Next]_vars PROVE BayrakDurumu'
    OBVIOUS
<1>0. /\ HostSayisi \in Nat \ {0} /\ DsnHost \in Host /\ Host = 1 .. HostSayisi
      /\ YenilemeSiniri \in Nat
    BY HostVarsayim, YenilemeVarsayim DEF Host
<1> USE <1>0 DEF YapiInv, YonDurumu, BayrakDurumu, KurtarAdimi, disVars, dosyaVars, geriVars,
           planVars
<1>1. ASSUME NEW a \in {"yenile", "kurtar"}, NEW k \in SUBSET Hedef, Basla(a, k)
      PROVE  BayrakDurumu'
    BY <1>1 DEF Basla
<1>2. CASE Oldu
    BY <1>2 DEF Oldu, Bitir, Unut
<1>3. CASE ValkeyYenidenBasla
    BY <1>3 DEF ValkeyYenidenBasla
<1>4. CASE KurtarOku
    BY <1>4 DEF KurtarOku, Bitir, Unut
<1>5. CASE KurtarDb
    BY <1>5 DEF KurtarDb, Olc, Bitir, Unut
<1>6. CASE KurtarRedis
    BY <1>6 DEF KurtarRedis, Olc, Bitir, Unut
<1>7. CASE KurtarEnv
    BY <1>7 DEF KurtarEnv, Bitir, Unut
<1>8. CASE KurtarSil
    BY <1>8 DEF KurtarSil, Bitir, Unut
<1>9. CASE Hazirla
    BY <1>9 DEF Hazirla
<1>10. CASE BekleyenYaz
    BY <1>10 DEF BekleyenYaz, IlkDis, Bitir, Unut
<1>11. CASE Hostlar
    BY <1>11 DEF Hostlar, GeriAl, DbGeriAdimi, GeriSonu
<1>12. CASE Alter
    BY <1>12 DEF Alter
<1>13. CASE AlterBitti
    BY <1>13 DEF AlterBitti, GeriSonu
<1>14. CASE AlterDustu
    <2>1. CASE GeriAl("hata")
        BY <1>14, <2>1, GeriAlBayrak DEF AlterDustu, Geri
    <2>2. CASE ~GeriAl("hata")
        <3>1. /\ dbDegisti' = dbDegisti /\ redisDegist' = redisDegist /\ eksik' = eksik
              /\ kume' = kume /\ yon' = yon /\ yon # "ileri" /\ adim = "alter"
            BY <1>14, <2>2 DEF AlterDustu
        <3>2. adim' \in {"geriSil", "geriEnv"} /\ yon \in Geri
            BY <1>14, <2>2, <3>1 DEF AlterDustu, GeriSonu, Geri
        <3> QED
            BY <3>1, <3>2 DEF Geri
    <2> QED
        BY <2>1, <2>2
<1>15. CASE DbDogrula
    <2>1. CASE GeriAl("hata")
        BY <1>15, <2>1, GeriAlBayrak DEF DbDogrula, Geri
    <2>2. CASE ~GeriAl("hata")
        <3>1. /\ dbDegisti' = dbDegisti /\ redisDegist' = redisDegist /\ eksik' = eksik
              /\ kume' = kume /\ yon' = yon /\ adim = "dbDogrula"
              /\ adim' = IF "redis" \in kume THEN "vkSet" ELSE "envYaz"
            BY <1>15, <2>2 DEF DbDogrula
        <3>2. yon = "ileri"
            BY <3>1
        <3> QED
            BY <3>1, <3>2
    <2> QED
        BY <2>1, <2>2
<1>16. CASE VkSet
    BY <1>16 DEF VkSet, VkDustu, GeriAl, DbGeriAdimi, GeriSonu
<1>17. CASE VkSave
    <2>1. CASE VkDustu
        BY <1>17, <2>1, VkDustuBayrak DEF VkSave
    <2>2. CASE ~VkDustu
        <3>1. /\ dbDegisti' = dbDegisti /\ eksik' = eksik /\ kume' = kume /\ yon' = yon
              /\ redisDegist' = (yon = "ileri")
            BY <1>17, <2>2 DEF VkSave
        <3>2. CASE yon = "ileri"
            BY <1>17, <2>2, <3>1, <3>2 DEF VkSave
        <3>3. CASE yon # "ileri"
            <4>1. adim' \in {"alter", "geriSil", "geriEnv"} /\ (adim' = "alter" => dbDegisti)
                BY <1>17, <2>2, <3>3 DEF VkSave, DbGeriAdimi, GeriSonu
            <4>2. yon \in Geri /\ ~redisDegist' /\ adim = "vkSave"
                BY <1>17, <3>1, <3>3 DEF VkSave, Geri
            <4> QED
                BY <3>1, <4>1, <4>2 DEF Geri
        <3> QED
            BY <3>2, <3>3
    <2> QED
        BY <2>1, <2>2
<1>18. CASE VkDogrula
    BY <1>18 DEF VkDogrula, GeriAl, DbGeriAdimi, GeriSonu
<1>19. CASE EnvYaz
    BY <1>19 DEF EnvYaz, GeriAl, DbGeriAdimi, GeriSonu
<1>20. CASE Sil
    BY <1>20 DEF Sil
<1>21. CASE GeriSil
    BY <1>21 DEF GeriSil, Bitir, Unut
<1>22. CASE HizalaBitti
    BY <1>22 DEF HizalaBitti
<1>23. ASSUME NEW e \in Eklenti, EkHizala(e) PROVE BayrakDurumu'
    BY <1>23 DEF EkHizala
<1>24. ASSUME NEW e \in Eklenti, GeriEk(e) PROVE BayrakDurumu'
    BY <1>24 DEF GeriEk
<1>25. CASE Yenilendi
    BY <1>25 DEF Yenilendi, Bitir, Unut
<1>26. CASE SagliksizPanel
    BY <1>26 DEF SagliksizPanel, GeriAl, DbGeriAdimi, GeriSonu
<1>27. CASE GeriEnv
    BY <1>27 DEF GeriEnv
<1>28. CASE GeriSaglik
    BY <1>28 DEF GeriSaglik, Bitir, Unut
<1>29. CASE UNCHANGED vars
    BY <1>29 DEF vars
<1> QED
    BY <1>1, <1>2, <1>3, <1>4, <1>5, <1>6, <1>7, <1>8, <1>9, <1>10, <1>11, <1>12, <1>13, <1>14,
       <1>15, <1>16, <1>17, <1>18, <1>19, <1>20, <1>21, <1>22, <1>23, <1>24, <1>25, <1>26, <1>27,
       <1>28, <1>29
       DEF Next

LEMMA EkKorunur == YapiInv /\ [Next]_vars => EkDurumu'
<1> SUFFICES ASSUME YapiInv, [Next]_vars PROVE EkDurumu'
    OBVIOUS
<1>0. /\ HostSayisi \in Nat \ {0} /\ DsnHost \in Host /\ Host = 1 .. HostSayisi
      /\ YenilemeSiniri \in Nat
    BY HostVarsayim, YenilemeVarsayim DEF Host
<1> USE <1>0 DEF YapiInv, YonDurumu, EkDurumu, KurtarAdimi, TypeOK, disVars, dosyaVars, geriVars,
           planVars
<1>1. ASSUME NEW a \in {"yenile", "kurtar"}, NEW k \in SUBSET Hedef, Basla(a, k)
      PROVE  EkDurumu'
    BY <1>1 DEF Basla
<1>2. CASE Oldu
    BY <1>2 DEF Oldu, Bitir, Unut
<1>3. CASE ValkeyYenidenBasla
    BY <1>3 DEF ValkeyYenidenBasla
<1>4. CASE KurtarOku
    BY <1>4 DEF KurtarOku, Bitir, Unut
<1>5. CASE KurtarDb
    BY <1>5 DEF KurtarDb, Olc, Bitir, Unut
<1>6. CASE KurtarRedis
    BY <1>6 DEF KurtarRedis, Olc, Bitir, Unut
<1>7. CASE KurtarEnv
    BY <1>7 DEF KurtarEnv, Bitir, Unut
<1>8. CASE KurtarSil
    BY <1>8 DEF KurtarSil, Bitir, Unut
<1>9. CASE Hazirla
    BY <1>9 DEF Hazirla
<1>10. CASE BekleyenYaz
    BY <1>10 DEF BekleyenYaz, IlkDis, Bitir, Unut
<1>11. CASE Hostlar
    BY <1>11 DEF Hostlar, GeriAl, DbGeriAdimi, GeriSonu
<1>12. CASE Alter
    BY <1>12 DEF Alter
<1>13. CASE AlterBitti
    BY <1>13 DEF AlterBitti, GeriSonu
<1>14. CASE AlterDustu
    BY <1>14 DEF AlterDustu, GeriAl, DbGeriAdimi, GeriSonu
<1>15. CASE DbDogrula
    BY <1>15 DEF DbDogrula, GeriAl, DbGeriAdimi, GeriSonu
<1>16. CASE VkSet
    BY <1>16 DEF VkSet, VkDustu, GeriAl, DbGeriAdimi, GeriSonu
<1>17. CASE VkSave
    BY <1>17 DEF VkSave, VkDustu, GeriAl, DbGeriAdimi, GeriSonu
<1>18. CASE VkDogrula
    BY <1>18 DEF VkDogrula, GeriAl, DbGeriAdimi, GeriSonu
<1>19. CASE EnvYaz
    BY <1>19 DEF EnvYaz, GeriAl, DbGeriAdimi, GeriSonu
<1>20. CASE Sil
    BY <1>20 DEF Sil
<1>21. CASE GeriSil
    BY <1>21 DEF GeriSil, Bitir, Unut
<1>22. CASE HizalaBitti
    BY <1>22 DEF HizalaBitti
<1>23. ASSUME NEW e \in Eklenti, EkHizala(e) PROVE EkDurumu'
    BY <1>23 DEF EkHizala
<1>24. ASSUME NEW e \in Eklenti, GeriEk(e) PROVE EkDurumu'
    BY <1>24 DEF GeriEk
<1>25. CASE Yenilendi
    BY <1>25 DEF Yenilendi, Bitir, Unut
<1>26. CASE SagliksizPanel
    BY <1>26 DEF SagliksizPanel, GeriAl, DbGeriAdimi, GeriSonu
<1>27. CASE GeriEnv
    BY <1>27 DEF GeriEnv
<1>28. CASE GeriSaglik
    BY <1>28 DEF GeriSaglik, Bitir, Unut
<1>29. CASE UNCHANGED vars
    BY <1>29 DEF vars
<1> QED
    BY <1>1, <1>2, <1>3, <1>4, <1>5, <1>6, <1>7, <1>8, <1>9, <1>10, <1>11, <1>12, <1>13, <1>14,
       <1>15, <1>16, <1>17, <1>18, <1>19, <1>20, <1>21, <1>22, <1>23, <1>24, <1>25, <1>26, <1>27,
       <1>28, <1>29
       DEF Next

LEMMA YapiKorunur == YapiInv /\ [Next]_vars => YapiInv'
    BY TipKorunur, YonKorunur, DosyaKorunur, BayrakKorunur, EkKorunur DEF YapiInv

\* The faults that have struck are never forgotten, and one in a rollback is noted.
LEMMA BozulurNotu ==
    ASSUME NEW a, Bozulur(a)
    PROVE  /\ DbTarafi' => DbTarafi /\ yon \notin Geri
           /\ ValkeyTarafi' => ValkeyTarafi /\ yon \notin Geri /\ a \notin AgirAriza
    BY DEF Bozulur, DbTarafi, ValkeyTarafi, AgirAriza, Geri

-----------------------------------------------------------------------------
(***************************************************************************)
(* MariaDB's side.  What the invariant says when a command ends or dies,   *)
(* and when a rollback begins.                                             *)
(***************************************************************************)
DbTutar ==
    IF "db" \in bekleyen.hedef THEN db[DsnHost] \in Denenen("db") ELSE db[DsnHost] = env["db"]

LEMMA DbTutarli == ASSUME SirInv, DbTarafi, yon # "geridon" PROVE DbTutar
<1> USE DEF DbTutar, Denenen
<1>1. /\ yon = "kurtar" \/ yon = "ileri" \/ yon = "hata"
      /\ "db" \notin kume /\ yon # "kurtar" => yeniEnv["db"] = eski["db"]
    BY DEF SirInv, YapiInv, YonDurumu, DosyaDurumu, Hedef
<1>2. CASE yon = "kurtar"
    BY <1>2 DEF SirInv, DbDurumu
<1>3. CASE yon = "ileri" /\ adim = "bekleyenYaz"
    BY <1>3 DEF SirInv, YapiInv, DosyaDurumu, BekleyenVar, DbDurumu
<1>4. CASE yon = "ileri" /\ adim = "yenilendi"
    <2>1. env = yeniEnv /\ (bekleyen = Kayit \/ bekleyen = BekleyenYok)
        BY <1>4 DEF SirInv, YapiInv, DosyaDurumu
    <2>2. db[DsnHost] = yeniEnv["db"]
        BY <1>4 DEF SirInv, DbDurumu
    <2> QED
        BY <2>1, <2>2 DEF Kayit, BekleyenYok
<1>5. CASE yon = "ileri" /\ adim \notin {"bekleyenYaz", "yenilendi"}
    <2>1. bekleyen = Kayit /\ (env = eski \/ env = yeniEnv)
        BY <1>5 DEF SirInv, YapiInv, DosyaDurumu
    <2>2. db[DsnHost] \in {eski["db"], yeniEnv["db"]}
        BY <1>5 DEF SirInv, DbDurumu
    <2> QED
        BY <1>1, <1>5, <2>1, <2>2 DEF Kayit
<1>6. CASE yon = "hata"
    <2>1. bekleyen = Kayit /\ env = eski
        BY <1>6 DEF SirInv, YapiInv, DosyaDurumu
    <2>2. db[DsnHost] \in {eski["db"], yeniEnv["db"]}
        BY <1>6 DEF SirInv, DbDurumu, Geri
    <2> QED
        BY <1>1, <1>6, <2>1, <2>2 DEF Kayit
<1> QED
    BY <1>1, <1>2, <1>3, <1>4, <1>5, <1>6

LEMMA DbBitir == ASSUME NEW k, Bitir(k), DbTarafi' => DbTutar' PROVE DbDurumu'
    BY DEF Bitir, Unut, DbTutar, DbDurumu, Geri

\* What MariaDB accepts when a rotation turns back.
DbDonebilir ==
    /\ db[DsnHost] \in {eski["db"], yeniEnv["db"]}
    /\ ~dbDegisti => db[DsnHost] = eski["db"]

LEMMA DbDonebilirdir ==
    ASSUME SirInv, DbTarafi, yon # "kurtar", adim # "bekleyenYaz"
    PROVE  DbDonebilir
<1>1. /\ yon = "ileri" \/ yon \in Geri
      /\ "db" \notin kume => yeniEnv["db"] = eski["db"]
    BY DEF SirInv, YapiInv, YonDurumu, DosyaDurumu, Hedef, Geri
<1>2. CASE yon \in Geri
    BY <1>2 DEF SirInv, DbDurumu, DbDonebilir
<1>3. CASE yon = "ileri"
    <2>1. adim # "hostlar" => ("db" \in kume => dbDegisti)
        BY <1>3 DEF SirInv, YapiInv, BayrakDurumu
    <2>2. /\ db[DsnHost] \in {eski["db"], yeniEnv["db"]}
          /\ adim = "hostlar" => db[DsnHost] = eski["db"]
        BY <1>3 DEF SirInv, DbDurumu
    <2> QED
        BY <1>1, <2>1, <2>2 DEF DbDonebilir
<1> QED
    BY <1>1, <1>2, <1>3

LEMMA DbDonus ==
    ASSUME NEW y \in Geri, yon' = y, sira' = 1, UNCHANGED <<db, eski, yeniEnv, dbDegisti>>,
           DbDonebilir, adim' \in {"vkSet", "alter", "geriSil", "geriEnv"},
           adim' \in {"geriSil", "geriEnv"} => ~dbDegisti
    PROVE  DbDurumu'
<1>1. DsnHost \in Nat /\ ~(1 > DsnHost)
    BY HostVarsayim DEF Host
<1> QED
    BY <1>1 DEF DbDurumu, DbDonebilir, Geri

LEMMA DbGeriAl ==
    ASSUME SirInv, NEW y \in Geri, GeriAl(y), UNCHANGED db, yon = "ileri", adim # "bekleyenYaz",
           DbTarafi' => DbTarafi
    PROVE  DbDurumu'
<1>1. /\ yon' = y /\ sira' = 1 /\ UNCHANGED <<eski, yeniEnv, dbDegisti>>
      /\ adim' \in {"vkSet", "alter", "geriSil", "geriEnv"}
      /\ adim' \in {"geriSil", "geriEnv"} => ~dbDegisti
    BY DEF GeriAl, DbGeriAdimi, GeriSonu, geriVars, planVars
<1>2. CASE DbTarafi
    BY <1>1, <1>2, DbDonebilirdir, DbDonus
<1>3. CASE ~DbTarafi'
    BY <1>3 DEF DbDurumu
<1> QED
    BY <1>2, <1>3

LEMMA DbVkDustu ==
    ASSUME SirInv, VkDustu, UNCHANGED db, adim \in {"vkSet", "vkSave"}, DbTarafi' => DbTarafi
    PROVE  DbDurumu'
<1>1. CASE yon = "ileri"
    BY <1>1, DbGeriAl DEF VkDustu, Geri
<1>2. CASE yon # "ileri"
    <2>1. yon \in Geri
        BY <1>2 DEF SirInv, YapiInv, YonDurumu, KurtarAdimi, Geri
    <2>2. /\ yon' = yon /\ sira' = 1 /\ UNCHANGED <<eski, yeniEnv, dbDegisti>>
          /\ adim' \in {"vkSet", "alter", "geriSil", "geriEnv"}
          /\ adim' \in {"geriSil", "geriEnv"} => ~dbDegisti
        BY <1>2 DEF VkDustu, DbGeriAdimi, GeriSonu, geriVars, planVars
    <2>3. CASE DbTarafi
        BY <2>1, <2>2, <2>3, DbDonebilirdir, DbDonus DEF Geri
    <2>4. CASE ~DbTarafi'
        BY <2>4 DEF DbDurumu
    <2> QED
        BY <2>3, <2>4
<1> QED
    BY <1>1, <1>2

LEMMA Kalici ==
    [Next]_vars => /\ vuran \subseteq vuran'
                   /\ DbTarafi' => DbTarafi
                   /\ ValkeyTarafi' => ValkeyTarafi
<1> SUFFICES ASSUME [Next]_vars PROVE vuran \subseteq vuran'
    BY DEF DbTarafi, ValkeyTarafi
<1> USE DEF geriVars, planVars, Bozulur
<1>1. ASSUME NEW a \in {"yenile", "kurtar"}, NEW k \in SUBSET Hedef, Basla(a, k)
      PROVE  (vuran \subseteq vuran')
    BY <1>1 DEF Basla
<1>2. CASE Oldu
    BY <1>2 DEF Oldu, Bitir, Unut
<1>3. CASE ValkeyYenidenBasla
    BY <1>3 DEF ValkeyYenidenBasla
<1>4. CASE KurtarOku
    BY <1>4 DEF KurtarOku, Bitir, Unut
<1>5. CASE KurtarDb
    BY <1>5 DEF KurtarDb, Olc, Bitir, Unut
<1>6. CASE KurtarRedis
    BY <1>6 DEF KurtarRedis, Olc, Bitir, Unut
<1>7. CASE KurtarEnv
    BY <1>7 DEF KurtarEnv, Bitir, Unut
<1>8. CASE KurtarSil
    BY <1>8 DEF KurtarSil, Bitir, Unut
<1>9. CASE Hazirla
    BY <1>9 DEF Hazirla
<1>10. CASE BekleyenYaz
    BY <1>10 DEF BekleyenYaz, IlkDis, Bitir, Unut
<1>11. CASE Hostlar
    BY <1>11 DEF Hostlar, GeriAl, DbGeriAdimi, GeriSonu
<1>12. CASE Alter
    BY <1>12 DEF Alter
<1>13. CASE AlterBitti
    BY <1>13 DEF AlterBitti, GeriSonu
<1>14. CASE AlterDustu
    BY <1>14 DEF AlterDustu, GeriAl, DbGeriAdimi, GeriSonu
<1>15. CASE DbDogrula
    BY <1>15 DEF DbDogrula, GeriAl, DbGeriAdimi, GeriSonu
<1>16. CASE VkSet
    BY <1>16 DEF VkSet, VkDustu, GeriAl, DbGeriAdimi, GeriSonu
<1>17. CASE VkSave
    BY <1>17 DEF VkSave, VkDustu, GeriAl, DbGeriAdimi, GeriSonu
<1>18. CASE VkDogrula
    BY <1>18 DEF VkDogrula, GeriAl, DbGeriAdimi, GeriSonu
<1>19. CASE EnvYaz
    BY <1>19 DEF EnvYaz, GeriAl, DbGeriAdimi, GeriSonu
<1>20. CASE Sil
    BY <1>20 DEF Sil
<1>21. CASE GeriSil
    BY <1>21 DEF GeriSil, Bitir, Unut
<1>22. CASE HizalaBitti
    BY <1>22 DEF HizalaBitti
<1>23. ASSUME NEW e \in Eklenti, EkHizala(e) PROVE (vuran \subseteq vuran')
    BY <1>23 DEF EkHizala
<1>24. ASSUME NEW e \in Eklenti, GeriEk(e) PROVE (vuran \subseteq vuran')
    BY <1>24 DEF GeriEk
<1>25. CASE Yenilendi
    BY <1>25 DEF Yenilendi, Bitir, Unut
<1>26. CASE SagliksizPanel
    BY <1>26 DEF SagliksizPanel, GeriAl, DbGeriAdimi, GeriSonu
<1>27. CASE GeriEnv
    BY <1>27 DEF GeriEnv
<1>28. CASE GeriSaglik
    BY <1>28 DEF GeriSaglik, Bitir, Unut
<1>29. CASE UNCHANGED vars
    BY <1>29 DEF vars
<1> QED
    BY <1>1, <1>2, <1>3, <1>4, <1>5, <1>6, <1>7, <1>8, <1>9, <1>10, <1>11, <1>12, <1>13, <1>14,
       <1>15, <1>16, <1>17, <1>18, <1>19, <1>20, <1>21, <1>22, <1>23, <1>24, <1>25, <1>26, <1>27,
       <1>28, <1>29
       DEF Next

LEMMA DbKorunur == SirInv /\ [Next]_vars => DbDurumu'
<1> SUFFICES ASSUME SirInv, [Next]_vars PROVE DbDurumu'
    OBVIOUS
<1>0. /\ HostSayisi \in Nat \ {0} /\ DsnHost \in Host /\ Host = 1 .. HostSayisi
      /\ YenilemeSiniri \in Nat
    BY HostVarsayim, YenilemeVarsayim DEF Host
<1>1. ASSUME NEW a \in {"yenile", "kurtar"}, NEW k \in SUBSET Hedef, Basla(a, k)
      PROVE  DbDurumu'
    BY <1>1 DEF Basla, SirInv, YapiInv, YonDurumu, DosyaDurumu, BayrakDurumu, DbDurumu,
       KurtarAdimi, Kayit, BekleyenVar, Denenen, Geri, DbTarafi, disVars, dosyaVars, geriVars,
       planVars
<1>2. CASE Oldu
    <2>1. CASE yon = "geridon"
        BY <1>2, <2>1, BozulurNotu DEF Oldu, DbDurumu, Geri
    <2>2. CASE yon # "geridon"
        <3>1. UNCHANGED <<db, env, bekleyen>> /\ Bitir("oldu")
            BY <1>2 DEF Oldu, disVars, dosyaVars
        <3>2. DbTarafi' => DbTutar'
            BY <2>2, <3>1, Kalici, DbTutarli DEF DbTutar, Denenen
        <3> QED
            BY <3>1, <3>2, DbBitir
    <2> QED
        BY <2>1, <2>2
<1>3. CASE ValkeyYenidenBasla
    BY <1>3 DEF ValkeyYenidenBasla, SirInv, YapiInv, YonDurumu, DosyaDurumu, BayrakDurumu,
       DbDurumu, KurtarAdimi, Kayit, BekleyenVar, Denenen, Geri, DbTarafi, disVars, dosyaVars,
       geriVars, planVars
<1>4. CASE KurtarOku
    BY <1>4 DEF KurtarOku, Bitir, Unut, SirInv, YapiInv, YonDurumu, DosyaDurumu, BayrakDurumu,
       DbDurumu, KurtarAdimi, Kayit, BekleyenVar, Denenen, Geri, DbTarafi, disVars, dosyaVars,
       geriVars, planVars
<1>5. CASE KurtarDb
    <2>1. CASE \E k \in Kod : Bitir(k)
        <3>1. UNCHANGED <<db, env, bekleyen>> /\ yon = "kurtar"
            BY <1>5 DEF KurtarDb, disVars, dosyaVars, SirInv, YapiInv, YonDurumu
        <3>2. DbTarafi' => DbTutar'
            BY <3>1, Kalici, DbTutarli DEF DbTutar, Denenen
        <3> QED
            BY <2>1, <3>2, DbBitir
    <2>2. CASE ~\E k \in Kod : Bitir(k)
        <3>1. /\ UNCHANGED <<db, env, bekleyen, yon>> /\ yon = "kurtar" /\ adim' = "kurtarRedis"
              /\ yeniEnv = env
            BY <1>5, <2>2 DEF KurtarDb, Olc, Kod, disVars, dosyaVars, SirInv, YapiInv, YonDurumu,
               DosyaDurumu
        <3>2. \/ yeniEnv' = yeniEnv /\ ("db" \in bekleyen.hedef => db[DsnHost] = env["db"])
              \/ \E p : p = db[DsnHost] /\ yeniEnv' = [yeniEnv EXCEPT !["db"] = p]
            BY <1>5, <2>2 DEF KurtarDb, Olc, DbKabul, Kod, planVars
        <3>3. yeniEnv \in Sir /\ "db" \in Hedef
            BY DEF SirInv, YapiInv, TypeOK, Hedef
        <3>4. DbTarafi => yeniEnv'["db"] = db[DsnHost]
            BY <3>1, <3>2, <3>3 DEF SirInv, DbDurumu, Sir
        <3>5. DbTarafi => DbTutar
            BY <3>1, DbTutarli
        <3> QED
            BY <3>1, <3>4, <3>5, Kalici DEF DbDurumu, DbTutar, Denenen, Geri
    <2> QED
        BY <2>1, <2>2
<1>6. CASE KurtarRedis
    <2>1. CASE \E k \in Kod : Bitir(k)
        <3>1. UNCHANGED <<db, env, bekleyen>> /\ yon = "kurtar"
            BY <1>6 DEF KurtarRedis, disVars, dosyaVars, SirInv, YapiInv, YonDurumu
        <3>2. DbTarafi' => DbTutar'
            BY <3>1, Kalici, DbTutarli DEF DbTutar, Denenen
        <3> QED
            BY <2>1, <3>2, DbBitir
    <2>2. CASE ~\E k \in Kod : Bitir(k)
        <3>1. /\ UNCHANGED <<db, env, bekleyen, yon>> /\ yon = "kurtar" /\ adim' = "kurtarEnv"
              /\ adim = "kurtarRedis"
            BY <1>6, <2>2 DEF KurtarRedis, Olc, Kod, disVars, dosyaVars, SirInv, YapiInv, YonDurumu
        <3>2. \/ yeniEnv' = yeniEnv
              \/ \E p : yeniEnv' = [yeniEnv EXCEPT !["redis"] = p]
            BY <1>6, <2>2 DEF KurtarRedis, Olc, Kod, planVars
        <3>3. yeniEnv \in Sir /\ "db" \in Hedef /\ "redis" \in Hedef
            BY DEF SirInv, YapiInv, TypeOK, Hedef
        <3>4. yeniEnv'["db"] = yeniEnv["db"]
            BY <3>2, <3>3, SirAlani
        <3>5. DbTarafi => DbTutar
            BY <3>1, DbTutarli
        <3> QED
            BY <3>1, <3>4, <3>5, Kalici DEF SirInv, DbDurumu, DbTutar, Denenen, Geri
    <2> QED
        BY <2>1, <2>2
<1>7. CASE KurtarEnv
    BY <1>7, BozulurNotu DEF KurtarEnv, Bitir, Unut, SirInv, YapiInv, YonDurumu, DosyaDurumu,
       BayrakDurumu, DbDurumu, KurtarAdimi, Kayit, BekleyenVar, Denenen, Geri, DbTarafi, disVars,
       dosyaVars, geriVars, planVars
<1>8. CASE KurtarSil
    BY <1>8, BozulurNotu DEF KurtarSil, Bitir, Unut, SirInv, YapiInv, YonDurumu, DosyaDurumu,
       BayrakDurumu, DbDurumu, KurtarAdimi, Kayit, BekleyenVar, Denenen, Geri, DbTarafi, disVars,
       dosyaVars, geriVars, planVars
<1>9. CASE Hazirla
    BY <1>9 DEF Hazirla, SirInv, YapiInv, YonDurumu, DosyaDurumu, BayrakDurumu, DbDurumu,
       KurtarAdimi, Kayit, BekleyenVar, Denenen, Geri, DbTarafi, disVars, dosyaVars, geriVars,
       planVars
<1>10. CASE BekleyenYaz
    <2>1. UNCHANGED <<db, env>> /\ yon = "ileri" /\ adim = "bekleyenYaz" /\ env = eski
        BY <1>10 DEF BekleyenYaz, disVars, SirInv, YapiInv, YonDurumu, DosyaDurumu, KurtarAdimi
    <2>2. DbTarafi => DbTutar /\ db[DsnHost] = eski["db"]
        BY <2>1, DbTutarli DEF SirInv, DbDurumu
    <2>3. CASE Bitir("basarisiz") /\ UNCHANGED bekleyen
        <3>1. DbTarafi' => DbTutar'
            BY <2>1, <2>2, <2>3, Kalici DEF DbTutar, Denenen
        <3> QED
            BY <2>3, <3>1, DbBitir
    <2>4. CASE ~(Bitir("basarisiz") /\ UNCHANGED bekleyen)
        <3>1. UNCHANGED <<eski, yeniEnv, yon>> /\ adim' = IlkDis
            BY <1>10, <2>4 DEF BekleyenYaz, planVars
        <3>2. "db" \notin kume => yeniEnv["db"] = eski["db"]
            BY <2>1 DEF SirInv, YapiInv, DosyaDurumu, Hedef
        <3> QED
            BY <2>1, <2>2, <3>1, <3>2, Kalici DEF DbDurumu, IlkDis, Geri
    <2> QED
        BY <2>3, <2>4
<1>11. CASE Hostlar
    <2>1. UNCHANGED db /\ adim = "hostlar" /\ yon = "ileri"
        BY <1>11 DEF Hostlar, disVars, SirInv, YapiInv, YonDurumu, KurtarAdimi
    <2>2. CASE GeriAl("hata")
        BY <2>1, <2>2, DbGeriAl, Kalici DEF Geri
    <2>3. CASE ~GeriAl("hata")
        <3>1. UNCHANGED <<yeniEnv, eski, yon>> /\ adim' = "alter" /\ sira' = 1 /\ ~(1 > DsnHost)
            BY <1>11, <1>0, <2>3 DEF Hostlar, planVars
        <3> QED
            BY <2>1, <3>1, Kalici DEF SirInv, DbDurumu, Geri
    <2> QED
        BY <2>2, <2>3
<1>12. CASE Alter
    <2>1. /\ UNCHANGED <<yeniEnv, eski, env, bekleyen, adim, yon, dbDegisti>> /\ adim = "alter"
          /\ sira \in Host /\ sira' = sira + 1 /\ db' = [db EXCEPT ![sira] = DbParola]
        BY <1>12 DEF Alter, dosyaVars, geriVars, planVars
    <2>2. db \in [Host -> Nat] /\ yon \in {"ileri", "hata", "geridon"} /\ dbDegisti
        BY <2>1 DEF SirInv, YapiInv, TypeOK, YonDurumu, BayrakDurumu, KurtarAdimi
    <2>3. /\ sira = DsnHost => db'[DsnHost] = DbParola
          /\ sira # DsnHost => db'[DsnHost] = db[DsnHost]
          /\ sira' > DsnHost => sira = DsnHost \/ sira > DsnHost
        BY <1>0, <2>1, <2>2
    <2> QED
        BY <2>1, <2>2, <2>3, Kalici DEF SirInv, DbDurumu, DbParola, Geri
<1>13. CASE AlterBitti
    <2>1. /\ UNCHANGED <<db, yeniEnv, eski, yon>> /\ adim = "alter" /\ sira = HostSayisi + 1
          /\ yon = "ileri" => adim' = "dbDogrula"
          /\ yon # "ileri" => adim' = GeriSonu(yon)
        BY <1>13 DEF AlterBitti, disVars, planVars
    <2>2. yon \in {"ileri", "hata", "geridon"} /\ sira > DsnHost
        BY <1>0, <2>1 DEF SirInv, YapiInv, YonDurumu, KurtarAdimi
    <2> QED
        BY <2>1, <2>2, Kalici DEF SirInv, DbDurumu, GeriSonu, Geri
<1>14. CASE AlterDustu
    <2>1. UNCHANGED db /\ adim = "alter" /\ Bozulur("alter")
        BY <1>14 DEF AlterDustu, disVars
    <2>2. CASE yon = "ileri"
        BY <1>14, <2>1, <2>2, DbGeriAl, Kalici DEF AlterDustu, Geri
    <2>3. CASE yon # "ileri"
        <3>1. yon \in Geri
            BY <2>1, <2>3 DEF SirInv, YapiInv, YonDurumu, KurtarAdimi, Geri
        <3> QED
            BY <2>1, <3>1, BozulurNotu DEF DbDurumu
    <2> QED
        BY <2>2, <2>3
<1>15. CASE DbDogrula
    <2>1. UNCHANGED db /\ adim = "dbDogrula" /\ yon = "ileri"
        BY <1>15 DEF DbDogrula, disVars, SirInv, YapiInv, YonDurumu, KurtarAdimi
    <2>2. CASE GeriAl("hata")
        BY <2>1, <2>2, DbGeriAl, Kalici DEF Geri
    <2>3. CASE ~GeriAl("hata")
        <3>1. UNCHANGED <<yeniEnv, eski, yon>> /\ adim' \in {"vkSet", "envYaz"}
            BY <1>15, <2>3 DEF DbDogrula, planVars
        <3> QED
            BY <2>1, <3>1, Kalici DEF SirInv, DbDurumu, Geri
    <2> QED
        BY <2>2, <2>3
<1>16. CASE VkSet
    <2>1. UNCHANGED db /\ adim = "vkSet" /\ yon \in {"ileri", "hata", "geridon"}
        BY <1>16 DEF VkSet, SirInv, YapiInv, YonDurumu, KurtarAdimi
    <2>2. CASE VkDustu
        BY <2>1, <2>2, DbVkDustu, Kalici
    <2>3. CASE ~VkDustu
        <3>1. UNCHANGED <<yeniEnv, eski, yon, dbDegisti>> /\ adim' = "vkSave"
            BY <1>16, <2>3 DEF VkSet, planVars, geriVars
        <3> QED
            BY <2>1, <3>1, Kalici DEF SirInv, DbDurumu, Geri
    <2> QED
        BY <2>2, <2>3
<1>17. CASE VkSave
    <2>1. UNCHANGED db /\ adim = "vkSave" /\ yon \in {"ileri", "hata", "geridon"}
        BY <1>17 DEF VkSave, SirInv, YapiInv, YonDurumu, KurtarAdimi
    <2>2. CASE VkDustu
        BY <2>1, <2>2, DbVkDustu, Kalici
    <2>3. CASE ~VkDustu
        <3>1. /\ UNCHANGED <<yeniEnv, eski, yon, dbDegisti>>
              /\ yon = "ileri" => adim' = "vkDogrula"
              /\ yon # "ileri" => adim' = DbGeriAdimi(yon) /\ sira' = 1
            BY <1>17, <2>3 DEF VkSave, planVars
        <3>2. CASE yon = "ileri"
            BY <2>1, <3>1, <3>2, Kalici DEF SirInv, DbDurumu, Geri
        <3>3. CASE yon # "ileri" /\ DbTarafi
            <4>1. /\ adim' \in {"vkSet", "alter", "geriSil", "geriEnv"} /\ yon \in Geri
                  /\ adim' \in {"geriSil", "geriEnv"} => ~dbDegisti
                BY <2>1, <3>1, <3>3 DEF DbGeriAdimi, GeriSonu, Geri
            <4>2. DbDonebilir
                BY <2>1, <3>3, DbDonebilirdir
            <4> QED
                BY <2>1, <3>1, <3>3, <4>1, <4>2, DbDonus
        <3>4. CASE ~DbTarafi
            BY <3>4, Kalici DEF DbDurumu
        <3> QED
            BY <3>2, <3>3, <3>4
    <2> QED
        BY <2>2, <2>3
<1>18. CASE VkDogrula
    <2>1. UNCHANGED db /\ adim = "vkDogrula" /\ yon = "ileri"
        BY <1>18 DEF VkDogrula, disVars, SirInv, YapiInv, YonDurumu, KurtarAdimi
    <2>2. CASE GeriAl("hata")
        BY <2>1, <2>2, DbGeriAl, Kalici DEF Geri
    <2>3. CASE ~GeriAl("hata")
        <3>1. UNCHANGED <<yeniEnv, eski, yon>> /\ adim' \in {"vkSet", "envYaz"}
            BY <1>18, <2>3 DEF VkDogrula, planVars
        <3> QED
            BY <2>1, <3>1, Kalici DEF SirInv, DbDurumu, Geri
    <2> QED
        BY <2>2, <2>3
<1>19. CASE EnvYaz
    <2>1. UNCHANGED <<db, bekleyen>> /\ adim = "envYaz" /\ yon = "ileri"
        BY <1>19 DEF EnvYaz, disVars, SirInv, YapiInv, YonDurumu, KurtarAdimi
    <2>2. CASE GeriAl("hata")
        BY <2>1, <2>2, DbGeriAl, Kalici DEF Geri
    <2>3. CASE ~GeriAl("hata")
        <3>1. UNCHANGED <<yeniEnv, eski, yon>> /\ adim' \in {"hizala", "sil"} /\ env' = yeniEnv
            BY <1>19, <2>3 DEF EnvYaz, planVars
        <3> QED
            BY <2>1, <3>1, Kalici DEF SirInv, DbDurumu, Geri
    <2> QED
        BY <2>2, <2>3
<1>20. CASE Sil
    BY <1>20, BozulurNotu DEF Sil, SirInv, YapiInv, YonDurumu, DosyaDurumu, BayrakDurumu,
       DbDurumu, KurtarAdimi, Kayit, BekleyenVar, Denenen, Geri, DbTarafi, disVars, dosyaVars,
       geriVars, planVars
<1>21. CASE GeriSil
    BY <1>21, BozulurNotu DEF GeriSil, Bitir, Unut, SirInv, YapiInv, YonDurumu, DosyaDurumu,
       BayrakDurumu, DbDurumu, KurtarAdimi, Kayit, BekleyenVar, Denenen, Geri, DbTarafi, disVars,
       dosyaVars, geriVars, planVars
<1>22. CASE HizalaBitti
    BY <1>22 DEF HizalaBitti, SirInv, YapiInv, YonDurumu, DosyaDurumu, BayrakDurumu, DbDurumu,
       KurtarAdimi, Kayit, BekleyenVar, Denenen, Geri, DbTarafi, disVars, dosyaVars, geriVars,
       planVars
<1>23. ASSUME NEW e \in Eklenti, EkHizala(e) PROVE DbDurumu'
    BY <1>23, BozulurNotu DEF EkHizala, SirInv, YapiInv, YonDurumu, DosyaDurumu, BayrakDurumu,
       DbDurumu, KurtarAdimi, Kayit, BekleyenVar, Denenen, Geri, DbTarafi, disVars, dosyaVars,
       geriVars, planVars
<1>24. ASSUME NEW e \in Eklenti, GeriEk(e) PROVE DbDurumu'
    BY <1>24, BozulurNotu DEF GeriEk, SirInv, YapiInv, YonDurumu, DosyaDurumu, BayrakDurumu,
       DbDurumu, KurtarAdimi, Kayit, BekleyenVar, Denenen, Geri, DbTarafi, disVars, dosyaVars,
       geriVars, planVars
<1>25. CASE Yenilendi
    BY <1>25 DEF Yenilendi, Bitir, Unut, SirInv, YapiInv, YonDurumu, DosyaDurumu, BayrakDurumu,
       DbDurumu, KurtarAdimi, Kayit, BekleyenVar, Denenen, Geri, DbTarafi, disVars, dosyaVars,
       geriVars, planVars
<1>26. CASE SagliksizPanel
    <2>1. UNCHANGED <<db, vuran>> /\ adim = "yenilendi" /\ yon = "ileri" /\ GeriAl("geridon")
        BY <1>26 DEF SagliksizPanel, disVars, SirInv, YapiInv, YonDurumu, KurtarAdimi
    <2> QED
        BY <2>1, DbGeriAl, Kalici DEF Geri
<1>27. CASE GeriEnv
    BY <1>27, BozulurNotu DEF GeriEnv, SirInv, YapiInv, YonDurumu, DosyaDurumu, BayrakDurumu,
       DbDurumu, KurtarAdimi, Kayit, BekleyenVar, Denenen, Geri, DbTarafi, disVars, dosyaVars,
       geriVars, planVars
<1>28. CASE GeriSaglik
    BY <1>28 DEF GeriSaglik, Bitir, Unut, SirInv, YapiInv, YonDurumu, DosyaDurumu, BayrakDurumu,
       DbDurumu, KurtarAdimi, Kayit, BekleyenVar, Denenen, Geri, DbTarafi, disVars, dosyaVars,
       geriVars, planVars
<1>29. CASE UNCHANGED vars
    BY <1>29 DEF vars, SirInv, DbDurumu, VkDurumu, DbTarafi, ValkeyTarafi, Geri, Denenen,
       disVars, dosyaVars, geriVars, planVars
<1> QED
    BY <1>1, <1>2, <1>3, <1>4, <1>5, <1>6, <1>7, <1>8, <1>9, <1>10, <1>11, <1>12, <1>13, <1>14,
       <1>15, <1>16, <1>17, <1>18, <1>19, <1>20, <1>21, <1>22, <1>23, <1>24, <1>25, <1>26, <1>27,
       <1>28, <1>29
       DEF Next

-----------------------------------------------------------------------------
(***************************************************************************)
(* Valkey's side, along the same lines.                                    *)
(***************************************************************************)
VkTutar ==
    IF "redis" \in bekleyen.hedef THEN vk \in Denenen("redis") ELSE vk = env["redis"]

LEMMA VkTutarli == ASSUME SirInv, ValkeyTarafi, yon # "geridon" PROVE VkTutar
<1> USE DEF VkTutar, Denenen
<1>1. /\ yon = "kurtar" \/ yon = "ileri" \/ yon = "hata"
      /\ "redis" \notin kume /\ yon # "kurtar" => yeniEnv["redis"] = eski["redis"]
    BY DEF SirInv, YapiInv, YonDurumu, DosyaDurumu, Hedef
<1>2. CASE yon = "kurtar"
    BY <1>2 DEF SirInv, VkDurumu
<1>3. CASE yon = "ileri" /\ adim = "bekleyenYaz"
    BY <1>3 DEF SirInv, YapiInv, DosyaDurumu, BekleyenVar, VkDurumu
<1>4. CASE yon = "ileri" /\ adim = "yenilendi"
    <2>1. env = yeniEnv /\ (bekleyen = Kayit \/ bekleyen = BekleyenYok)
        BY <1>4 DEF SirInv, YapiInv, DosyaDurumu
    <2>2. vk = yeniEnv["redis"]
        BY <1>4 DEF SirInv, VkDurumu
    <2> QED
        BY <2>1, <2>2 DEF Kayit, BekleyenYok
<1>5. CASE yon = "ileri" /\ adim \notin {"bekleyenYaz", "yenilendi"}
    <2>1. bekleyen = Kayit /\ (env = eski \/ env = yeniEnv)
        BY <1>5 DEF SirInv, YapiInv, DosyaDurumu
    <2>2. vk \in {eski["redis"], yeniEnv["redis"]}
        BY <1>5 DEF SirInv, YapiInv, YonDurumu, VkDurumu
    <2> QED
        BY <1>1, <1>5, <2>1, <2>2 DEF Kayit
<1>6. CASE yon = "hata"
    <2>1. bekleyen = Kayit /\ env = eski
        BY <1>6 DEF SirInv, YapiInv, DosyaDurumu
    <2>2. vk \in {eski["redis"], yeniEnv["redis"]}
        BY <1>6 DEF SirInv, VkDurumu, Geri
    <2> QED
        BY <1>1, <1>6, <2>1, <2>2 DEF Kayit
<1> QED
    BY <1>1, <1>2, <1>3, <1>4, <1>5, <1>6

LEMMA VkBitir == ASSUME NEW k, Bitir(k), ValkeyTarafi' => VkTutar' PROVE VkDurumu'
    BY DEF Bitir, Unut, VkTutar, VkDurumu, Geri

\* On the way back Valkey has the new password until vkSet, if it was changed.
LEMMA VkDonus ==
    ASSUME yon' \in Geri, UNCHANGED <<eski, yeniEnv>>,
           adim' \in {"vkSet", "alter", "geriSil", "geriEnv"},
           ValkeyTarafi' => vk' = IF adim' = "vkSet" THEN yeniEnv["redis"] ELSE eski["redis"]
    PROVE  VkDurumu'
<1>1. yon' \notin {"kurtar", "ileri"}
    BY DEF Geri
<1>2. CASE ~ValkeyTarafi'
    BY <1>2 DEF VkDurumu
<1>3. CASE ValkeyTarafi'
    BY <1>1, <1>3 DEF VkDurumu
<1> QED
    BY <1>2, <1>3

LEMMA VkGeriAl ==
    ASSUME SirInv, NEW y \in Geri, GeriAl(y), UNCHANGED vk, yon = "ileri",
           adim \notin {"bekleyenYaz", "vkSave"}, ValkeyTarafi' => ValkeyTarafi
    PROVE  VkDurumu'
<1>1. /\ yon' \in Geri /\ UNCHANGED <<eski, yeniEnv>>
      /\ adim' = "vkSet" <=> redisDegist
      /\ adim' \in {"vkSet", "alter", "geriSil", "geriEnv"}
    BY DEF GeriAl, DbGeriAdimi, GeriSonu, planVars
<1>2. /\ yon = "ileri" /\ adim \in {"alter", "dbDogrula", "vkSet", "hostlar"} => ~redisDegist
      /\ adim \in {"vkDogrula", "envYaz", "hizala", "sil", "yenilendi"}
           => ("redis" \in kume <=> redisDegist)
    BY DEF SirInv, YapiInv, BayrakDurumu
<1>3. "redis" \notin kume => yeniEnv["redis"] = eski["redis"]
    BY DEF SirInv, YapiInv, DosyaDurumu, Hedef
<1>4. adim \in {"hostlar", "alter", "dbDogrula", "vkSet", "vkDogrula", "envYaz", "hizala",
               "sil", "yenilendi"}
    BY DEF SirInv, YapiInv, YonDurumu
<1>5. ValkeyTarafi => vk = IF redisDegist THEN yeniEnv["redis"] ELSE eski["redis"]
    BY <1>2, <1>3, <1>4 DEF SirInv, VkDurumu
<1> QED
    BY <1>1, <1>5, VkDonus

LEMMA VkKorunur == SirInv /\ [Next]_vars => VkDurumu'
<1> SUFFICES ASSUME SirInv, [Next]_vars PROVE VkDurumu'
    OBVIOUS
<1>0. /\ HostSayisi \in Nat \ {0} /\ DsnHost \in Host /\ Host = 1 .. HostSayisi
      /\ YenilemeSiniri \in Nat
    BY HostVarsayim, YenilemeVarsayim DEF Host
<1>1. ASSUME NEW a \in {"yenile", "kurtar"}, NEW k \in SUBSET Hedef, Basla(a, k)
      PROVE  VkDurumu'
    BY <1>1, BozulurNotu, Kalici DEF Basla, SirInv, YapiInv, YonDurumu, DosyaDurumu, BayrakDurumu,
       VkDurumu, KurtarAdimi, Kayit, BekleyenVar, Denenen, Geri, DbTarafi, ValkeyTarafi, disVars,
       dosyaVars, geriVars, planVars
<1>2. CASE Oldu
    <2>1. CASE yon = "geridon"
        BY <1>2, <2>1, BozulurNotu DEF Oldu, VkDurumu, Geri
    <2>2. CASE yon # "geridon"
        <3>1. UNCHANGED <<vk, env, bekleyen>> /\ Bitir("oldu")
            BY <1>2 DEF Oldu, disVars, dosyaVars
        <3>2. ValkeyTarafi' => VkTutar'
            BY <2>2, <3>1, Kalici, VkTutarli DEF VkTutar, Denenen
        <3> QED
            BY <3>1, <3>2, VkBitir
    <2> QED
        BY <2>1, <2>2
<1>3. CASE ValkeyYenidenBasla
    <2>1. ~ValkeyTarafi'
        BY <1>3 DEF ValkeyYenidenBasla, ValkeyTarafi
    <2> QED
        BY <2>1 DEF VkDurumu
<1>4. CASE KurtarOku
    BY <1>4, BozulurNotu, Kalici DEF KurtarOku, Bitir, Unut, SirInv, YapiInv, YonDurumu,
       DosyaDurumu, BayrakDurumu, VkDurumu, KurtarAdimi, Kayit, BekleyenVar, Denenen, Geri,
       DbTarafi, ValkeyTarafi, disVars, dosyaVars, geriVars, planVars
<1>5. CASE KurtarDb
    <2>1. CASE \E k \in Kod : Bitir(k)
        <3>1. UNCHANGED <<vk, env, bekleyen>> /\ yon = "kurtar"
            BY <1>5 DEF KurtarDb, disVars, dosyaVars, SirInv, YapiInv, YonDurumu
        <3>2. ValkeyTarafi' => VkTutar'
            BY <3>1, Kalici, VkTutarli DEF VkTutar, Denenen
        <3> QED
            BY <2>1, <3>2, VkBitir
    <2>2. CASE ~\E k \in Kod : Bitir(k)
        <3>1. UNCHANGED <<vk, env, bekleyen, yon>> /\ yon = "kurtar" /\ adim' = "kurtarRedis"
            BY <1>5, <2>2 DEF KurtarDb, Olc, Kod, disVars, dosyaVars, SirInv, YapiInv, YonDurumu
        <3>2. ValkeyTarafi => VkTutar
            BY <3>1, VkTutarli
        <3> QED
            BY <3>1, <3>2, Kalici DEF VkDurumu, VkTutar, Denenen, Geri
    <2> QED
        BY <2>1, <2>2
<1>6. CASE KurtarRedis
    <2>1. CASE \E k \in Kod : Bitir(k)
        <3>1. UNCHANGED <<vk, env, bekleyen>> /\ yon = "kurtar"
            BY <1>6 DEF KurtarRedis, disVars, dosyaVars, SirInv, YapiInv, YonDurumu
        <3>2. ValkeyTarafi' => VkTutar'
            BY <3>1, Kalici, VkTutarli DEF VkTutar, Denenen
        <3> QED
            BY <2>1, <3>2, VkBitir
    <2>2. CASE ~\E k \in Kod : Bitir(k)
        <3>1. /\ UNCHANGED <<vk, env, bekleyen, yon>> /\ yon = "kurtar" /\ adim' = "kurtarEnv"
              /\ yeniEnv["redis"] = env["redis"]
            BY <1>6, <2>2 DEF KurtarRedis, Olc, Kod, disVars, dosyaVars, SirInv, YapiInv,
               YonDurumu, DosyaDurumu
        <3>2. \/ yeniEnv' = yeniEnv /\ ("redis" \in bekleyen.hedef => vk = env["redis"])
              \/ \E p : p = vk /\ yeniEnv' = [yeniEnv EXCEPT !["redis"] = p]
            BY <1>6, <2>2 DEF KurtarRedis, Olc, ValkeyKabul, Kod, planVars
        <3>3. yeniEnv \in Sir /\ "redis" \in Hedef
            BY DEF SirInv, YapiInv, TypeOK, Hedef
        <3>4. ValkeyTarafi => yeniEnv'["redis"] = vk
            BY <3>1, <3>2, <3>3 DEF SirInv, VkDurumu, Sir
        <3>5. ValkeyTarafi => VkTutar
            BY <3>1, VkTutarli
        <3> QED
            BY <3>1, <3>4, <3>5, Kalici DEF VkDurumu, VkTutar, Denenen, Geri
    <2> QED
        BY <2>1, <2>2
<1>7. CASE KurtarEnv
    BY <1>7, BozulurNotu, Kalici DEF KurtarEnv, Bitir, Unut, SirInv, YapiInv, YonDurumu,
       DosyaDurumu, BayrakDurumu, VkDurumu, KurtarAdimi, Kayit, BekleyenVar, Denenen, Geri,
       DbTarafi, ValkeyTarafi, disVars, dosyaVars, geriVars, planVars
<1>8. CASE KurtarSil
    BY <1>8, BozulurNotu, Kalici DEF KurtarSil, Bitir, Unut, SirInv, YapiInv, YonDurumu,
       DosyaDurumu, BayrakDurumu, VkDurumu, KurtarAdimi, Kayit, BekleyenVar, Denenen, Geri,
       DbTarafi, ValkeyTarafi, disVars, dosyaVars, geriVars, planVars
<1>9. CASE Hazirla
    BY <1>9, BozulurNotu, Kalici DEF Hazirla, SirInv, YapiInv, YonDurumu, DosyaDurumu,
       BayrakDurumu, VkDurumu, KurtarAdimi, Kayit, BekleyenVar, Denenen, Geri, DbTarafi,
       ValkeyTarafi, disVars, dosyaVars, geriVars, planVars
<1>10. CASE BekleyenYaz
    <2>1. UNCHANGED <<vk, env>> /\ yon = "ileri" /\ adim = "bekleyenYaz" /\ env = eski
        BY <1>10 DEF BekleyenYaz, disVars, SirInv, YapiInv, YonDurumu, DosyaDurumu, KurtarAdimi
    <2>2. ValkeyTarafi => VkTutar /\ vk = eski["redis"]
        BY <2>1, VkTutarli DEF SirInv, VkDurumu
    <2>3. CASE Bitir("basarisiz") /\ UNCHANGED bekleyen
        <3>1. ValkeyTarafi' => VkTutar'
            BY <2>1, <2>2, <2>3, Kalici DEF VkTutar, Denenen
        <3> QED
            BY <2>3, <3>1, VkBitir
    <2>4. CASE ~(Bitir("basarisiz") /\ UNCHANGED bekleyen)
        <3>1. UNCHANGED <<eski, yeniEnv, yon>> /\ adim' = IlkDis
            BY <1>10, <2>4 DEF BekleyenYaz, planVars
        <3>2. "redis" \notin kume => yeniEnv["redis"] = eski["redis"]
            BY <2>1 DEF SirInv, YapiInv, DosyaDurumu, Hedef
        <3> QED
            BY <2>1, <2>2, <3>1, <3>2, Kalici DEF VkDurumu, IlkDis, Geri
    <2> QED
        BY <2>3, <2>4
<1>11. CASE Hostlar
    <2>1. UNCHANGED vk /\ adim = "hostlar" /\ yon = "ileri"
        BY <1>11 DEF Hostlar, disVars, SirInv, YapiInv, YonDurumu, KurtarAdimi
    <2>2. CASE GeriAl("hata")
        BY <2>1, <2>2, VkGeriAl, Kalici DEF Geri
    <2>3. CASE ~GeriAl("hata")
        <3>1. UNCHANGED <<yeniEnv, eski, yon>> /\ adim' = "alter"
            BY <1>11, <2>3 DEF Hostlar, planVars
        <3> QED
            BY <2>1, <3>1, Kalici DEF SirInv, VkDurumu, Geri
    <2> QED
        BY <2>2, <2>3
<1>12. CASE Alter
    BY <1>12, BozulurNotu, Kalici DEF Alter, SirInv, YapiInv, YonDurumu, DosyaDurumu,
       BayrakDurumu, VkDurumu, KurtarAdimi, Kayit, BekleyenVar, Denenen, Geri, DbTarafi,
       ValkeyTarafi, disVars, dosyaVars, geriVars, planVars
<1>13. CASE AlterBitti
    <2>1. /\ UNCHANGED <<vk, yeniEnv, eski, yon>> /\ adim = "alter"
          /\ yon = "ileri" => adim' = "dbDogrula"
          /\ yon # "ileri" => adim' = GeriSonu(yon)
        BY <1>13 DEF AlterBitti, disVars, planVars
    <2>2. yon \in {"ileri", "hata", "geridon"}
        BY <2>1 DEF SirInv, YapiInv, YonDurumu, KurtarAdimi
    <2> QED
        BY <2>1, <2>2, Kalici DEF SirInv, VkDurumu, GeriSonu, Geri
<1>14. CASE AlterDustu
    <2>1. UNCHANGED vk /\ adim = "alter" /\ Bozulur("alter")
        BY <1>14 DEF AlterDustu, disVars
    <2>2. CASE yon = "ileri"
        BY <1>14, <2>1, <2>2, VkGeriAl, Kalici DEF AlterDustu, Geri
    <2>3. CASE yon # "ileri"
        <3>1. yon \in Geri
            BY <2>1, <2>3 DEF SirInv, YapiInv, YonDurumu, KurtarAdimi, Geri
        <3> QED
            BY <2>1, <3>1, BozulurNotu DEF VkDurumu
    <2> QED
        BY <2>2, <2>3
<1>15. CASE DbDogrula
    <2>1. UNCHANGED vk /\ adim = "dbDogrula" /\ yon = "ileri"
        BY <1>15 DEF DbDogrula, disVars, SirInv, YapiInv, YonDurumu, KurtarAdimi
    <2>2. CASE GeriAl("hata")
        BY <2>1, <2>2, VkGeriAl, Kalici DEF Geri
    <2>3. CASE ~GeriAl("hata")
        <3>1. /\ UNCHANGED <<yeniEnv, eski, yon>>
              /\ adim' = IF "redis" \in kume THEN "vkSet" ELSE "envYaz"
            BY <1>15, <2>3 DEF DbDogrula, planVars
        <3>2. "redis" \notin kume => yeniEnv["redis"] = eski["redis"]
            BY <2>1 DEF SirInv, YapiInv, DosyaDurumu, Hedef
        <3> QED
            BY <2>1, <3>1, <3>2, Kalici DEF SirInv, VkDurumu, Geri
    <2> QED
        BY <2>2, <2>3
<1>16. CASE VkSet
    <2>1. /\ adim = "vkSet" /\ yon \in {"ileri", "hata", "geridon"}
          /\ yon = "ileri" => ~redisDegist
        BY <1>16 DEF VkSet, SirInv, YapiInv, YonDurumu, BayrakDurumu, KurtarAdimi
    <2>2. ValkeyTarafi => vk = VkEski
        BY <2>1 DEF SirInv, VkDurumu, VkEski, Geri
    <2>3. CASE ~VkDustu
        <3>1. UNCHANGED <<yeniEnv, eski, yon>> /\ adim' = "vkSave" /\ vk' = VkYeni
            BY <1>16, <2>3 DEF VkSet, planVars
        <3> QED
            BY <2>1, <3>1, Kalici DEF VkDurumu, VkYeni, Geri
    <2>4. CASE VkDustu /\ ValkeyTarafi'
        <3>1. (UNCHANGED vk /\ yon = "ileri") \/ adim' = "vkSave"
            BY <1>16, <2>1, <2>2, <2>4, Kalici, BozulurNotu DEF VkSet, ValkeyKabul, AgirAriza, Geri
        <3>2. adim' # "vkSave"
            BY <2>4 DEF VkDustu, GeriAl, DbGeriAdimi, GeriSonu
        <3>3. GeriAl("hata")
            BY <2>4, <3>1, <3>2 DEF VkDustu
        <3> QED
            BY <2>1, <3>1, <3>2, <3>3, VkGeriAl, Kalici DEF Geri
    <2>5. CASE ~ValkeyTarafi'
        BY <2>5 DEF VkDurumu
    <2> QED
        BY <2>3, <2>4, <2>5
<1>17. CASE VkSave
    <2>1. /\ adim = "vkSave" /\ yon \in {"ileri", "hata", "geridon"}
          /\ yon = "ileri" => ~redisDegist
        BY <1>17 DEF VkSave, SirInv, YapiInv, YonDurumu, BayrakDurumu, KurtarAdimi
    <2>2. CASE ValkeyTarafi' /\ yon = "ileri"
        <3>1. \/ vk' = vk /\ adim' = "vkDogrula" /\ UNCHANGED <<yeniEnv, eski, yon>>
              \/ vk' = VkEski /\ GeriAl("hata")
            BY <1>17, <2>2, BozulurNotu DEF VkSave, VkDustu, planVars, AgirAriza
        <3>2. CASE adim' = "vkDogrula"
            <4>1. vk' = vk /\ UNCHANGED <<yeniEnv, eski, yon>>
                BY <3>1, <3>2 DEF GeriAl, DbGeriAdimi, GeriSonu
            <4> QED
                BY <2>1, <2>2, <3>2, <4>1, Kalici DEF SirInv, VkDurumu, Geri
        <3>3. CASE adim' # "vkDogrula"
            <4>1. /\ vk' = eski["redis"] /\ yon' \in Geri /\ adim' \in {"alter", "geriSil"}
                  /\ UNCHANGED <<yeniEnv, eski>>
                BY <2>1, <2>2, <3>1, <3>3 DEF VkEski, GeriAl, DbGeriAdimi, GeriSonu, planVars, Geri
            <4> QED
                BY <4>1, VkDonus
        <3> QED
            BY <3>2, <3>3
    <2>3. CASE ValkeyTarafi' /\ yon # "ileri"
        <3>1. /\ vk' = vk /\ adim' = DbGeriAdimi(yon) /\ UNCHANGED <<yeniEnv, eski, yon>>
              /\ yon \in Geri
            BY <1>17, <2>1, <2>3, BozulurNotu DEF VkSave, planVars, AgirAriza, Geri
        <3>2. vk = eski["redis"] /\ adim' \in {"alter", "geriSil", "geriEnv"}
            BY <2>1, <2>3, <3>1, Kalici DEF SirInv, VkDurumu, DbGeriAdimi, GeriSonu
        <3> QED
            BY <3>1, <3>2, VkDonus
    <2>4. CASE ~ValkeyTarafi'
        BY <2>4 DEF VkDurumu
    <2> QED
        BY <2>2, <2>3, <2>4
<1>18. CASE VkDogrula
    <2>1. UNCHANGED vk /\ adim = "vkDogrula" /\ yon = "ileri"
        BY <1>18 DEF VkDogrula, disVars, SirInv, YapiInv, YonDurumu, KurtarAdimi
    <2>2. CASE GeriAl("hata")
        BY <2>1, <2>2, VkGeriAl, Kalici DEF Geri
    <2>3. CASE ~GeriAl("hata")
        <3>1. UNCHANGED <<yeniEnv, eski, yon>> /\ adim' = "envYaz"
            BY <1>18, <2>3 DEF VkDogrula, planVars
        <3> QED
            BY <2>1, <3>1, Kalici DEF SirInv, VkDurumu, Geri
    <2> QED
        BY <2>2, <2>3
<1>19. CASE EnvYaz
    <2>1. UNCHANGED vk /\ adim = "envYaz" /\ yon = "ileri"
        BY <1>19 DEF EnvYaz, disVars, SirInv, YapiInv, YonDurumu, KurtarAdimi
    <2>2. CASE GeriAl("hata")
        BY <2>1, <2>2, VkGeriAl, Kalici DEF Geri
    <2>3. CASE ~GeriAl("hata")
        <3>1. UNCHANGED <<yeniEnv, eski, yon>> /\ adim' \in {"hizala", "sil"} /\ env' = yeniEnv
            BY <1>19, <2>3 DEF EnvYaz, planVars
        <3> QED
            BY <2>1, <3>1, Kalici DEF SirInv, VkDurumu, Geri
    <2> QED
        BY <2>2, <2>3
<1>20. CASE Sil
    BY <1>20, BozulurNotu, Kalici DEF Sil, SirInv, YapiInv, YonDurumu, DosyaDurumu, BayrakDurumu,
       VkDurumu, KurtarAdimi, Kayit, BekleyenVar, Denenen, Geri, DbTarafi, ValkeyTarafi, disVars,
       dosyaVars, geriVars, planVars
<1>21. CASE GeriSil
    BY <1>21, BozulurNotu, Kalici DEF GeriSil, Bitir, Unut, SirInv, YapiInv, YonDurumu,
       DosyaDurumu, BayrakDurumu, VkDurumu, KurtarAdimi, Kayit, BekleyenVar, Denenen, Geri,
       DbTarafi, ValkeyTarafi, disVars, dosyaVars, geriVars, planVars
<1>22. CASE HizalaBitti
    BY <1>22, BozulurNotu, Kalici DEF HizalaBitti, SirInv, YapiInv, YonDurumu, DosyaDurumu,
       BayrakDurumu, VkDurumu, KurtarAdimi, Kayit, BekleyenVar, Denenen, Geri, DbTarafi,
       ValkeyTarafi, disVars, dosyaVars, geriVars, planVars
<1>23. ASSUME NEW e \in Eklenti, EkHizala(e) PROVE VkDurumu'
    BY <1>23, BozulurNotu, Kalici DEF EkHizala, SirInv, YapiInv, YonDurumu, DosyaDurumu,
       BayrakDurumu, VkDurumu, KurtarAdimi, Kayit, BekleyenVar, Denenen, Geri, DbTarafi,
       ValkeyTarafi, disVars, dosyaVars, geriVars, planVars
<1>24. ASSUME NEW e \in Eklenti, GeriEk(e) PROVE VkDurumu'
    BY <1>24, BozulurNotu, Kalici DEF GeriEk, SirInv, YapiInv, YonDurumu, DosyaDurumu,
       BayrakDurumu, VkDurumu, KurtarAdimi, Kayit, BekleyenVar, Denenen, Geri, DbTarafi,
       ValkeyTarafi, disVars, dosyaVars, geriVars, planVars
<1>25. CASE Yenilendi
    BY <1>25, BozulurNotu, Kalici DEF Yenilendi, Bitir, Unut, SirInv, YapiInv, YonDurumu,
       DosyaDurumu, BayrakDurumu, VkDurumu, KurtarAdimi, Kayit, BekleyenVar, Denenen, Geri,
       DbTarafi, ValkeyTarafi, disVars, dosyaVars, geriVars, planVars
<1>26. CASE SagliksizPanel
    <2>1. UNCHANGED <<vk, vuran>> /\ adim = "yenilendi" /\ yon = "ileri" /\ GeriAl("geridon")
        BY <1>26 DEF SagliksizPanel, disVars, SirInv, YapiInv, YonDurumu, KurtarAdimi
    <2> QED
        BY <2>1, VkGeriAl, Kalici DEF Geri
<1>27. CASE GeriEnv
    BY <1>27, BozulurNotu, Kalici DEF GeriEnv, SirInv, YapiInv, YonDurumu, DosyaDurumu,
       BayrakDurumu, VkDurumu, KurtarAdimi, Kayit, BekleyenVar, Denenen, Geri, DbTarafi,
       ValkeyTarafi, disVars, dosyaVars, geriVars, planVars
<1>28. CASE GeriSaglik
    BY <1>28, BozulurNotu, Kalici DEF GeriSaglik, Bitir, Unut, SirInv, YapiInv, YonDurumu,
       DosyaDurumu, BayrakDurumu, VkDurumu, KurtarAdimi, Kayit, BekleyenVar, Denenen, Geri,
       DbTarafi, ValkeyTarafi, disVars, dosyaVars, geriVars, planVars
<1>29. CASE UNCHANGED vars
    BY <1>29 DEF vars, SirInv, DbDurumu, VkDurumu, DbTarafi, ValkeyTarafi, Geri, Denenen,
       disVars, dosyaVars, geriVars, planVars
<1> QED
    BY <1>1, <1>2, <1>3, <1>4, <1>5, <1>6, <1>7, <1>8, <1>9, <1>10, <1>11, <1>12, <1>13, <1>14,
       <1>15, <1>16, <1>17, <1>18, <1>19, <1>20, <1>21, <1>22, <1>23, <1>24, <1>25, <1>26, <1>27,
       <1>28, <1>29
       DEF Next

-----------------------------------------------------------------------------
(***************************************************************************)
(* The theorems.                                                           *)
(***************************************************************************)
LEMMA SirKorunur == SirInv /\ [Next]_vars => SirInv'
    BY YapiKorunur, DbKorunur, VkKorunur DEF SirInv

LEMMA SirHep == Spec => []SirInv
    BY YapiBaslar, SirKorunur, PTL DEF Spec

\* Type correctness of the state.
THEOREM TipDogru == Spec => []TypeOK
<1>1. SirInv => TypeOK
    BY DEF SirInv, YapiInv
<1> QED
    BY <1>1, SirHep, PTL

\* Nobody is locked out: with no command running and no pending file, MariaDB
\* accepts the password in env unless a rollback itself failed, and Valkey does
\* unless besides that a reply was lost or Valkey restarted.
THEOREM KilitlenmeYokDogru == Spec => []KilitlenmeYok
<1>1. SirInv => KilitlenmeYok
    <2> SUFFICES ASSUME SirInv, adim = "bos", ~BekleyenVar PROVE Gecerli(env)
        BY DEF KilitlenmeYok
    <2>1. yon = "kurtar" /\ bekleyen.hedef = {}
        BY DEF SirInv, YapiInv, YonDurumu, BekleyenVar
    <2> QED
        BY <2>1 DEF SirInv, DbDurumu, VkDurumu, Gecerli, DbKabul, ValkeyKabul
<1> QED
    BY <1>1, SirHep, PTL

\* A pending file always holds, for each of its targets, a password with which
\* Kurtar gets through (or env does).
THEOREM KurtarilabilirDogru == Spec => []Kurtarilabilir
<1>1. SirInv => Kurtarilabilir
    <2> SUFFICES ASSUME SirInv PROVE Kurtarilabilir
        OBVIOUS
    <2>1. CASE yon # "geridon"
        BY <2>1, DbTutarli, VkTutarli DEF Kurtarilabilir, DbTutar, VkTutar
    <2>2. CASE yon = "geridon" /\ bekleyen.hedef # {}
        <3>1. bekleyen.eski = eski /\ bekleyen.yeni = yeniEnv
            BY <2>2 DEF SirInv, YapiInv, DosyaDurumu, Kayit, BekleyenYok
        <3>2. /\ DbTarafi => db[DsnHost] \in {eski["db"], yeniEnv["db"]}
              /\ ValkeyTarafi => vk \in {eski["redis"], yeniEnv["redis"]}
            BY <2>2 DEF SirInv, DbDurumu, VkDurumu, Geri
        <3> QED
            BY <3>1, <3>2 DEF Kurtarilabilir, Denenen
    <2>3. CASE bekleyen.hedef = {}
        BY <2>3 DEF Kurtarilabilir
    <2> QED
        BY <2>1, <2>2, <2>3
<1> QED
    BY <1>1, SirHep, PTL

\* Only basarisiz and a complete GeriDon end a rollback with exit code 1.
LEMMA BasarisizAdimi == SirInv /\ [Next]_vars /\ BasarisizBiter => GeriSil \/ GeriSaglik
<1> SUFFICES ASSUME SirInv, [Next]_vars, BasarisizBiter PROVE GeriSil \/ GeriSaglik
    OBVIOUS
<1> USE DEF BasarisizBiter
<1>1. yon \in Geri /\ adim' = "bos" /\ kod' = "basarisiz"
    BY DEF Geri
<1>2. adim \in {"vkSet", "vkSave", "alter", "geriSil", "geriEnv", "geriEk"}
    BY DEF SirInv, YapiInv, YonDurumu
<1>3. ASSUME NEW y \in Geri, GeriAl(y) PROVE FALSE
    BY <1>1, <1>3 DEF GeriAl, DbGeriAdimi, GeriSonu
<1>4. VkDustu => FALSE
    BY <1>1, <1>3 DEF VkDustu, DbGeriAdimi, GeriSonu, Geri
<1>5. ASSUME NEW a \in {"yenile", "kurtar"}, NEW k \in SUBSET Hedef, Basla(a, k)
      PROVE  FALSE
    BY <1>1, <1>2, <1>3, <1>4, <1>5 DEF Basla, Geri
<1>6. Oldu => FALSE
    BY <1>1, <1>2, <1>3, <1>4 DEF Oldu, Bitir
<1>7. ValkeyYenidenBasla => FALSE
    BY <1>1, <1>2, <1>3, <1>4 DEF ValkeyYenidenBasla, Geri
<1>8. KurtarOku => FALSE
    BY <1>1, <1>2, <1>3, <1>4 DEF KurtarOku, Geri
<1>9. KurtarDb => FALSE
    BY <1>1, <1>2, <1>3, <1>4 DEF KurtarDb, Geri
<1>10. KurtarRedis => FALSE
    BY <1>1, <1>2, <1>3, <1>4 DEF KurtarRedis, Geri
<1>11. KurtarEnv => FALSE
    BY <1>1, <1>2, <1>3, <1>4 DEF KurtarEnv, Geri
<1>12. KurtarSil => FALSE
    BY <1>1, <1>2, <1>3, <1>4 DEF KurtarSil, Geri
<1>13. Hazirla => FALSE
    BY <1>1, <1>2, <1>3, <1>4 DEF Hazirla, Geri
<1>14. BekleyenYaz => FALSE
    BY <1>1, <1>2, <1>3, <1>4 DEF BekleyenYaz, Geri
<1>15. Hostlar => FALSE
    BY <1>1, <1>2, <1>3, <1>4 DEF Hostlar, Geri
<1>16. Alter => FALSE
    BY <1>1, <1>2, <1>3, <1>4 DEF Alter, Geri
<1>17. AlterBitti => FALSE
    BY <1>1, <1>2, <1>3, <1>4 DEF AlterBitti, GeriSonu
<1>18. AlterDustu => FALSE
    BY <1>1, <1>2, <1>3, <1>4 DEF AlterDustu, GeriSonu, Geri
<1>19. DbDogrula => FALSE
    BY <1>1, <1>2, <1>3, <1>4 DEF DbDogrula, Geri
<1>20. VkSet => FALSE
    BY <1>1, <1>2, <1>3, <1>4 DEF VkSet, Geri
<1>21. VkSave => FALSE
    BY <1>1, <1>2, <1>3, <1>4 DEF VkSave, DbGeriAdimi, GeriSonu
<1>22. VkDogrula => FALSE
    BY <1>1, <1>2, <1>3, <1>4 DEF VkDogrula, Geri
<1>23. EnvYaz => FALSE
    BY <1>1, <1>2, <1>3, <1>4 DEF EnvYaz, Geri
<1>24. Sil => FALSE
    BY <1>1, <1>2, <1>3, <1>4 DEF Sil, Geri
<1>25. HizalaBitti => FALSE
    BY <1>1, <1>2, <1>3, <1>4 DEF HizalaBitti, Geri
<1>26. ASSUME NEW e \in Eklenti, EkHizala(e) PROVE FALSE
    BY <1>1, <1>2, <1>3, <1>4, <1>26 DEF EkHizala, planVars
<1>27. ASSUME NEW e \in Eklenti, GeriEk(e) PROVE FALSE
    BY <1>1, <1>2, <1>3, <1>4, <1>27 DEF GeriEk, Geri
<1>28. Yenilendi => FALSE
    BY <1>1, <1>2, <1>3, <1>4 DEF Yenilendi, Geri
<1>29. SagliksizPanel => FALSE
    BY <1>1, <1>2, <1>3, <1>4 DEF SagliksizPanel, Geri
<1>30. GeriEnv => FALSE
    BY <1>1, <1>2, <1>3, <1>4 DEF GeriEnv, Geri
<1>31. UNCHANGED vars => FALSE
    BY <1>1, <1>2 DEF vars
<1> QED
    BY <1>5, <1>6, <1>7, <1>8, <1>9, <1>10, <1>11, <1>12, <1>13, <1>14, <1>15, <1>16, <1>17,
       <1>18, <1>19, <1>20, <1>21, <1>22, <1>23, <1>24, <1>25, <1>26, <1>27, <1>28, <1>29, <1>30,
       <1>31
       DEF Next

\* When a rotation ends with exit code 1 after a rollback, env and the add-ons'
\* files are what they were and the outside systems accept what env says, with
\* the same two provisos.
THEOREM EskidenKalDogru == Spec => EskidenKal
<1>1. SirInv /\ [Next]_vars => [BasarisizBiter => DosyalarEski /\ Gecerli(env)']_vars
    <2> SUFFICES ASSUME SirInv, [Next]_vars, BasarisizBiter PROVE DosyalarEski /\ Gecerli(env)'
        OBVIOUS
    <2>1. GeriSil \/ GeriSaglik
        BY BasarisizAdimi
    <2>2. CASE GeriSil
        <3>1. yon = "hata" /\ env' = env /\ ek' = ek /\ db' = db /\ vk' = vk /\ adim = "geriSil"
            BY <2>2 DEF GeriSil, disVars, SirInv, YapiInv, YonDurumu, KurtarAdimi
        <3>2. env = eski /\ ekDegisen = {}
            BY <3>1 DEF SirInv, YapiInv, DosyaDurumu, EkDurumu
        <3>3. (DbTarafi => db[DsnHost] = eski["db"]) /\ (ValkeyTarafi => vk = eski["redis"])
            BY <3>1 DEF SirInv, DbDurumu, VkDurumu, Geri
        <3> QED
            BY <3>1, <3>2, <3>3, Kalici DEF DosyalarEski, Gecerli, DbKabul, ValkeyKabul
    <2>3. CASE GeriSaglik
        <3>1. yon = "geridon" /\ env' = env /\ ek' = ek /\ db' = db /\ vk' = vk /\ adim = "geriEk"
              /\ ekKalan = {} /\ ~eksik
            BY <2>3 DEF GeriSaglik, Bitir, disVars, dosyaVars, SirInv, YapiInv, YonDurumu,
                        KurtarAdimi, BasarisizBiter
        <3>2. env = eski /\ \A e \in ekDegisen : ek[e] = eski["db"]
            BY <3>1 DEF SirInv, YapiInv, DosyaDurumu, EkDurumu
        <3>3. (DbTarafi => db[DsnHost] = eski["db"]) /\ (ValkeyTarafi => vk = eski["redis"])
            BY <3>1 DEF SirInv, DbDurumu, VkDurumu, Geri
        <3> QED
            BY <3>1, <3>2, <3>3, Kalici DEF DosyalarEski, Gecerli, DbKabul, ValkeyKabul
    <2> QED
        BY <2>1, <2>2, <2>3
<1> QED
    BY <1>1, SirHep, PTL DEF Spec, EskidenKal

-----------------------------------------------------------------------------
(***************************************************************************)
(* What a rotation that succeeds has done.  Verification sees one host     *)
(* entry and Valkey's memory only; that the others changed as well follows *)
(* from the order of the calls, and no fault is excepted: one that strikes *)
(* turns the command round, and Valkey's restart reads what was saved.     *)
(***************************************************************************)
YeniDurumu ==
    yon = "ileri" =>
        /\ \A h \in kume : yeniEnv[h] = nesil
        /\ adim = "alter" => \A h \in Host : h < sira => db[h] = nesil
        /\ "db" \in kume /\ adim \notin {"bekleyenYaz", "hostlar", "alter"} =>
              \A h \in Host : db[h] = nesil
        /\ adim = "vkSave" => vk = nesil
        /\ "redis" \in kume /\ adim \in {"vkDogrula", "envYaz", "hizala", "sil", "yenilendi"} =>
              vk = nesil /\ vkKayit = nesil

\* A failure turns round.
LEMMA DonusYeni == ASSUME NEW y \in Geri, GeriAl(y) PROVE YeniDurumu'
    BY DEF GeriAl, YeniDurumu, Geri

LEMMA BitisYeni == ASSUME NEW k, Bitir(k) PROVE YeniDurumu'
    BY DEF Bitir, Unut, YeniDurumu

LEMMA VkDustuYeni == ASSUME VkDustu PROVE YeniDurumu'
    BY DonusYeni DEF VkDustu, YeniDurumu, planVars, Geri

\* Steps that belong to another direction.
LEMMA YonsuzYeni == ASSUME yon # "ileri", UNCHANGED yon PROVE YeniDurumu'
    BY DEF YeniDurumu

LEMMA YeniKorunur == YapiInv /\ YeniDurumu /\ [Next]_vars => YeniDurumu'
<1> SUFFICES ASSUME YapiInv, YeniDurumu, [Next]_vars PROVE YeniDurumu'
    OBVIOUS
<1>0. /\ HostSayisi \in Nat \ {0} /\ DsnHost \in Host /\ Host = 1 .. HostSayisi
      /\ db \in [Host -> Nat] /\ sira \in Nat /\ kume \subseteq Hedef /\ nesil \in Nat
    BY HostVarsayim DEF Host, YapiInv, TypeOK
<1> USE <1>0 DEF disVars, dosyaVars, geriVars, planVars
<1>1. ASSUME NEW a \in {"yenile", "kurtar"}, NEW k \in SUBSET Hedef, Basla(a, k)
      PROVE  YeniDurumu'
    BY <1>1 DEF Basla, YeniDurumu
<1>2. CASE Oldu
    BY <1>2, BitisYeni DEF Oldu
<1>3. CASE ValkeyYenidenBasla
    BY <1>3 DEF ValkeyYenidenBasla, YeniDurumu
<1>4. CASE KurtarOku \/ KurtarDb \/ KurtarRedis \/ KurtarEnv \/ KurtarSil
    <2>1. yon # "ileri"
        BY <1>4 DEF YapiInv, YonDurumu, KurtarOku, KurtarDb, KurtarRedis, KurtarEnv, KurtarSil
    <2>2. yon' = yon \/ yon' = "kurtar"
        BY <1>4 DEF KurtarOku, KurtarDb, KurtarRedis, KurtarEnv, KurtarSil, Olc, Bitir, Unut
    <2> QED
        BY <2>1, <2>2 DEF YeniDurumu
<1>5. CASE Hazirla
    BY <1>5 DEF Hazirla, YeniDurumu
<1>6. CASE BekleyenYaz
    <2>1. CASE \E k \in Kod : Bitir(k)
        BY <2>1, BitisYeni
    <2>2. CASE adim' = IlkDis
        BY <1>6, <2>2 DEF BekleyenYaz, IlkDis, YeniDurumu, Bitir, Unut
    <2> QED
        BY <1>6, <2>1, <2>2 DEF BekleyenYaz, Kod
<1>7. CASE Hostlar
    BY <1>7, DonusYeni DEF Hostlar, YeniDurumu, Geri
<1>8. CASE Alter
    <2>1. CASE yon = "ileri"
        <3>1. "db" \in kume /\ adim = "alter" /\ adim' = "alter" /\ DbParola = nesil
            BY <1>8, <2>1 DEF Alter, YapiInv, BayrakDurumu, YeniDurumu, DbParola
        <3>2. \A h \in Host : h < sira' => db'[h] = nesil
            BY <1>8, <2>1, <3>1 DEF Alter, YeniDurumu
        <3> QED
            BY <1>8, <2>1, <3>1, <3>2 DEF Alter, YeniDurumu
    <2>2. CASE yon # "ileri"
        BY <1>8, <2>2, YonsuzYeni DEF Alter
    <2> QED
        BY <2>1, <2>2
<1>9. CASE AlterBitti
    BY <1>9 DEF AlterBitti, YeniDurumu
<1>10. CASE AlterDustu
    <2>1. CASE yon = "ileri"
        BY <1>10, <2>1, DonusYeni DEF AlterDustu, Geri
    <2>2. CASE yon # "ileri"
        BY <1>10, <2>2, YonsuzYeni DEF AlterDustu
    <2> QED
        BY <2>1, <2>2
<1>11. CASE DbDogrula
    <2>1. CASE GeriAl("hata")
        BY <2>1, DonusYeni DEF Geri
    <2>2. CASE adim' = (IF "redis" \in kume THEN "vkSet" ELSE "envYaz") /\ UNCHANGED <<planVars, yon>>
        BY <1>11, <2>2 DEF DbDogrula, YeniDurumu
    <2> QED
        BY <1>11, <2>1, <2>2 DEF DbDogrula
<1>12. CASE VkSet
    <2>1. CASE VkDustu
        BY <2>1, VkDustuYeni
    <2>2. CASE vk' = VkYeni /\ adim' = "vkSave" /\ UNCHANGED <<planVars, yon>>
        BY <1>12, <2>2 DEF VkSet, VkYeni, YeniDurumu, YapiInv, BayrakDurumu
    <2> QED
        BY <1>12, <2>1, <2>2 DEF VkSet
<1>13. CASE VkSave
    <2>1. CASE VkDustu
        BY <2>1, VkDustuYeni
    <2>2. CASE yon = "ileri" /\ vkKayit' = VkYeni /\ adim' = "vkDogrula" /\ UNCHANGED <<vk, planVars, yon>>
        BY <1>13, <2>2 DEF VkSave, VkYeni, YeniDurumu
    <2>3. CASE yon # "ileri" /\ UNCHANGED yon
        BY <2>3, YonsuzYeni
    <2> QED
        BY <1>13, <2>1, <2>2, <2>3 DEF VkSave
<1>14. CASE VkDogrula
    <2>1. CASE GeriAl("hata")
        BY <2>1, DonusYeni DEF Geri
    <2>2. CASE adim' = "envYaz" /\ UNCHANGED <<planVars, yon>>
        BY <1>14, <2>2 DEF VkDogrula, YeniDurumu
    <2> QED
        BY <1>14, <2>1, <2>2 DEF VkDogrula
<1>15. CASE EnvYaz
    <2>1. CASE GeriAl("hata")
        BY <2>1, DonusYeni DEF Geri
    <2>2. CASE adim' = (IF "db" \in kume THEN "hizala" ELSE "sil") /\ UNCHANGED <<planVars, yon>>
        BY <1>15, <2>2 DEF EnvYaz, YeniDurumu
    <2> QED
        BY <1>15, <2>1, <2>2 DEF EnvYaz
<1>16. CASE Sil
    BY <1>16 DEF Sil, YeniDurumu
<1>17. CASE GeriSil \/ Yenilendi
    BY <1>17, BitisYeni DEF GeriSil, Yenilendi
<1>18. CASE HizalaBitti
    BY <1>18 DEF HizalaBitti, YeniDurumu
<1>19. ASSUME NEW e \in Eklenti, EkHizala(e) \/ GeriEk(e) PROVE YeniDurumu'
    BY <1>19 DEF EkHizala, GeriEk, YeniDurumu
<1>20. CASE SagliksizPanel
    BY <1>20, DonusYeni DEF SagliksizPanel, Geri
<1>21. CASE GeriEnv
    <2>1. yon # "ileri"
        BY <1>21 DEF GeriEnv, YapiInv, YonDurumu
    <2> QED
        BY <1>21, <2>1, YonsuzYeni DEF GeriEnv
<1>22. CASE GeriSaglik
    BY <1>22, BitisYeni DEF GeriSaglik
<1>23. CASE UNCHANGED vars
    BY <1>23 DEF vars, YeniDurumu
<1> QED
    BY <1>1, <1>2, <1>3, <1>4, <1>5, <1>6, <1>7, <1>8, <1>9, <1>10, <1>11, <1>12, <1>13, <1>14,
       <1>15, <1>16, <1>17, <1>18, <1>19, <1>20, <1>21, <1>22, <1>23 DEF Next

\* Only Yenilendi ends a command with exit code 0.
LEMMA TamamAdimi == [Next]_vars /\ TamamBiter => Yenilendi
<1> SUFFICES ASSUME [Next]_vars, TamamBiter PROVE Yenilendi
    OBVIOUS
<1> USE DEF TamamBiter, disVars, dosyaVars, geriVars, planVars
<1>1. ASSUME NEW y \in Geri, GeriAl(y) PROVE FALSE
    BY <1>1 DEF GeriAl, DbGeriAdimi, GeriSonu
<1>2. VkDustu => FALSE
    BY <1>1 DEF VkDustu, DbGeriAdimi, GeriSonu, Geri
<1>3. ASSUME NEW k, Bitir(k), k # "tamam" PROVE FALSE
    BY <1>3 DEF Bitir
<1>4. ASSUME NEW a \in {"yenile", "kurtar"}, NEW k \in SUBSET Hedef, Basla(a, k) PROVE FALSE
    BY <1>4 DEF Basla
<1>5. Oldu \/ ValkeyYenidenBasla => FALSE
    BY <1>3 DEF Oldu, ValkeyYenidenBasla
<1>6. KurtarOku => FALSE
    BY <1>3 DEF KurtarOku
<1>7. KurtarDb \/ KurtarRedis => FALSE
    BY <1>3 DEF KurtarDb, KurtarRedis, Olc
<1>8. KurtarEnv \/ KurtarSil => FALSE
    BY <1>3 DEF KurtarEnv, KurtarSil
<1>9. Hazirla \/ BekleyenYaz => FALSE
    BY <1>3 DEF Hazirla, BekleyenYaz, IlkDis
<1>10. Hostlar \/ Alter \/ AlterBitti \/ AlterDustu \/ DbDogrula => FALSE
    BY <1>1 DEF Hostlar, Alter, AlterBitti, AlterDustu, DbDogrula, GeriSonu, Geri
<1>11. VkSet \/ VkSave \/ VkDogrula => FALSE
    BY <1>1, <1>2 DEF VkSet, VkSave, VkDogrula, DbGeriAdimi, GeriSonu, Geri
<1>12. EnvYaz \/ Sil \/ HizalaBitti => FALSE
    BY <1>1 DEF EnvYaz, Sil, HizalaBitti, Geri
<1>13. GeriSil \/ GeriSaglik => FALSE
    BY <1>3 DEF GeriSil, GeriSaglik
<1>14. ASSUME NEW e \in Eklenti, EkHizala(e) \/ GeriEk(e) PROVE FALSE
    BY <1>14 DEF EkHizala, GeriEk
<1>15. SagliksizPanel \/ GeriEnv => FALSE
    BY <1>1 DEF SagliksizPanel, GeriEnv, Geri
<1>16. UNCHANGED vars => FALSE
    BY DEF vars
<1> QED
    BY <1>4, <1>5, <1>6, <1>7, <1>8, <1>9, <1>10, <1>11, <1>12, <1>13, <1>14, <1>15, <1>16 DEF Next

\* After exit code 0 the old secrets of the targets are accepted nowhere: every host
\* entry, both of Valkey's copies and env hold the new ones (EskiGecmez), with any
\* number of host entries, whatever faults the command and Valkey met on the way.
THEOREM EskiGecmezDogru == Spec => EskiGecmez
<1> DEFINE Gecmez == TamamBiter =>
                        /\ \A h \in kume : env'[h] = nesil
                        /\ "db" \in kume => \A h \in Host : db'[h] = nesil
                        /\ "redis" \in kume => vk' = nesil /\ vkKayit' = nesil
<1>1. Init => YeniDurumu
    BY DEF Init, YeniDurumu
<1>2. YapiInv /\ YeniDurumu /\ [Next]_vars => [Gecmez]_vars
    <2> SUFFICES ASSUME YapiInv, YeniDurumu, [Next]_vars, TamamBiter PROVE Gecmez
        OBVIOUS
    <2>1. Yenilendi
        BY TamamAdimi
    <2>2. adim = "yenilendi" /\ yon = "ileri" /\ env = yeniEnv
        BY <2>1 DEF Yenilendi, YapiInv, YonDurumu, DosyaDurumu, KurtarAdimi
    <2>3. UNCHANGED <<db, vk, vkKayit, env>>
        BY <2>1 DEF Yenilendi, disVars, dosyaVars
    <2> QED
        BY <2>2, <2>3 DEF YeniDurumu
<1>3. SirInv => YapiInv
    BY DEF SirInv
<1> QED
    BY <1>1, <1>2, <1>3, SirHep, YeniKorunur, PTL DEF Spec, EskiGecmez

=============================================================================
