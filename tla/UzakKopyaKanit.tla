--------------------------- MODULE UzakKopyaKanit ---------------------------
(***************************************************************************)
(* Proofs about the off-site copy worker, for every number of backups,     *)
(* every set of settings and every bound of UzakKopya.                     *)
(***************************************************************************)
EXTENDS UzakKopya, FiniteSetTheorems, WellFoundedInduction, TLAPS

\* A nonempty set of backups has a member with the largest number.
LEMMA EnBuyuk ==
    ASSUME NEW T \in SUBSET Yedek, T # {},
           NEW f \in [Yedek -> Nat], NEW n \in Nat, \A b \in Yedek : f[b] <= n
    PROVE  \E m \in T : \A c \in T : f[c] <= f[m]
<1> DEFINE U == {n - f[c] : c \in T}
           R == OpToRel(<, Nat)
<1>1. U \subseteq Nat /\ U # {}
    OBVIOUS
<1>2. PICK x \in U : \A y \in U : ~(<<y, x>> \in R)
    BY <1>1, NatLessThanWellFounded, WFMin
<1>3. PICK m \in T : x = n - f[m]
    OBVIOUS
<1>4. ASSUME NEW c \in T PROVE f[c] <= f[m]
    <2> DEFINE y == n - f[c]
    <2>1. y \in U /\ y \in Nat /\ x \in Nat
        BY <1>1
    <2>2. ~(y < x)
        BY <1>2, <2>1 DEF OpToRel
    <2> QED
        BY <1>3, <2>2
<1> QED
    BY <1>4

-----------------------------------------------------------------------------
(***************************************************************************)
(* Type correctness.                                                       *)
(***************************************************************************)
\* The worker holds a job, and the settings it was claimed with, exactly between
\* its claim and its outcome: without this the type invariant is not inductive.
IsTutulur ==
    /\ is = Bos <=> adim \in {"kapali", "bos", "yerel"}
    /\ is # Bos => isAyar \in AyarUzayi

TipInv == TypeOK /\ IsTutulur

LEMMA TipBaslar == Init => TipInv
<1> SUFFICES ASSUME Init PROVE TypeOK /\ IsTutulur
    BY DEF TipInv
<1>6. IsTutulur
    BY DEF Init, IsTutulur
<1> USE DEF Init
<1>1. durum \in [Yedek -> Durum] /\ veri \in [Ad -> Nesne]
    BY DEF Durum, SatirYok, Nesne
<1>2. /\ yedek \in [Yedek -> {"yok", "var", "silinmis"}]
      /\ isNo \in [Yedek -> Nat] /\ deneme \in [Yedek -> Nat]
      /\ uzakAd \in [Yedek -> Klasor \cup {AdYok}] /\ manifestAd \in [Yedek -> Klasor \cup {AdYok}]
    OBVIOUS
<1>3. /\ dosya \subseteq Yedek /\ silIstek \subseteq Yedek /\ geriCekilen \subseteq Yedek
      /\ manifest \subseteq Ad /\ adaylar \subseteq Yedek
    OBVIOUS
<1>4. /\ adim \in Adim
      /\ is \in Yedek \cup {Bos} /\ calisan \in Yedek \cup {Bos} /\ aday \in Yedek \cup {Bos}
    BY DEF Adim
<1>5. /\ ayar \in AyarUzayi /\ isAyar \in AyarUzayi \cup {AyarYok}
      /\ iptalIst \in BOOLEAN /\ hata \in {"yok", "gecici", "kalici"}
      /\ sonIs \in Nat /\ cokme \in Nat /\ istek \in Nat
    BY IlkAyarVarsayim
<1> QED
    BY <1>1, <1>2, <1>3, <1>4, <1>5, <1>6 DEF TypeOK

\* The names the worker handles are names of the domain's backups.
LEMMA AdTuru ==
    ASSUME TypeOK, IsTutulur
    PROVE  /\ is # Bos => is \in Yedek /\ isAyar.klasor \in Klasor /\ IsAdi \in Ad
           /\ \A b \in Yedek : AdlarBizim(b) => uzakAd[b] \in Klasor /\ UzakAdi(b) \in Ad
    BY AyarVarsayim DEF TypeOK, IsTutulur, Ayar, IsAdi, Ad, AdlarBizim, UzakAdi

LEMMA TipKorunur == TipInv /\ [Next]_vars => TipInv'
<1> SUFFICES ASSUME TypeOK, IsTutulur, [Next]_vars PROVE TypeOK' /\ IsTutulur'
    BY DEF TipInv
<1>0. Bos \notin Yedek
    BY DEF Bos, Yedek
<1> USE <1>0 DEF TypeOK, IsTutulur, satirVars, adVars, driveVars, isciVars, yerelVars, sinirVars,
            Adim, IsAdimi, SaklamaAdimi
<1>1. CASE IsAl
    BY <1>1 DEF IsAl, Durum, Yarim
<1>2. CASE Basla
    BY <1>2 DEF Basla
<1>3. CASE Sifrele
    BY <1>3, AdTuru DEF Sifrele, Ilerle, Vazgec, Durum, Yarim
<1>4. CASE Yukle
    BY <1>4, AdTuru DEF Yukle, Yuklenen, YarimYuklenen, Ilerle, Vazgec, Durum, Yarim, Nesne
<1>5. CASE Dogrula
    BY <1>5 DEF Dogrula, VeriSilinmis, Ilerle, Vazgec, Nesne
<1>6. CASE ManifestYaz
    BY <1>6, AdTuru DEF ManifestYaz, Ilerle, Vazgec
<1>7. CASE Tamamla
    BY <1>7, AdTuru DEF Tamamla, Ilerle, Vazgec, Durum
<1>8. CASE SaklaListele
    BY <1>8 DEF SaklaListele, SaklamaAdaylari
<1>9. CASE SaklaSec
    BY <1>9 DEF SaklaSec, Durum
<1>10. CASE SaklaVeriSil
    BY <1>10 DEF SaklaVeriSil, VeriSilinmis, Nesne
<1>11. CASE SaklaManifestSil
    BY <1>11 DEF SaklaManifestSil, Durum
<1>12. CASE SaklamaSon
    BY <1>12 DEF SaklamaSon, Durum
<1>13. CASE Sonuclandir
    <2>1. durum' \in [Yedek -> Durum]
        BY <1>13 DEF Sonuclandir, Basarisiz, Durum
    <2>2. deneme' \in [Yedek -> Nat] /\ geriCekilen' \subseteq Yedek
        BY <1>13 DEF Sonuclandir, Basarisiz
    <2> QED
        BY <1>13, <2>1, <2>2 DEF Sonuclandir
<1>14. CASE YerelBitti
    BY <1>14 DEF YerelBitti
<1>15. CASE Coku
    <2>1. cokme' \in Nat
        BY <1>15 DEF Coku
    <2> QED
        BY <1>15, <2>1 DEF Coku
<1>16. CASE Acilis
    BY <1>16 DEF Acilis, Durum, Yarim
<1>17. CASE AyarDegistir
    BY <1>17 DEF AyarDegistir
<1>18. ASSUME NEW b \in Yedek, YedekAl(b) PROVE TypeOK' /\ IsTutulur'
    BY <1>18 DEF YedekAl
<1>19. ASSUME NEW b \in Yedek, KayitSil(b) PROVE TypeOK' /\ IsTutulur'
    BY <1>19 DEF KayitSil
<1>20. ASSUME NEW b \in Yedek, YerelDegisir(b) PROVE TypeOK' /\ IsTutulur'
    BY <1>20 DEF YerelDegisir
<1>21. ASSUME NEW b \in Yedek, KuyrugaAl(b) PROVE TypeOK' /\ IsTutulur'
    BY <1>21 DEF KuyrugaAl, Durum
<1>22. ASSUME NEW b \in Yedek, YenidenDene(b) PROVE TypeOK' /\ IsTutulur'
    BY <1>22 DEF YenidenDene, Durum
<1>23. ASSUME NEW b \in Yedek, SureDoldu(b) PROVE TypeOK' /\ IsTutulur'
    BY <1>23 DEF SureDoldu
<1>24. ASSUME NEW b \in Yedek, IptalEt(b) PROVE TypeOK' /\ IsTutulur'
    BY <1>24 DEF IptalEt, Durum, Yarim
<1>26. ASSUME NEW b \in Yedek, SilIste(b) PROVE TypeOK' /\ IsTutulur'
    BY <1>26 DEF SilIste
<1>25. CASE UNCHANGED vars
    BY <1>25 DEF vars
<1> QED
    BY <1>1, <1>2, <1>3, <1>4, <1>5, <1>6, <1>7, <1>8, <1>9, <1>10, <1>11, <1>12, <1>13,
       <1>14, <1>15, <1>16, <1>17, <1>18, <1>19, <1>20, <1>21, <1>22, <1>23, <1>24, <1>25, <1>26
       DEF Next, KuyrukNext, Bir, Isle, SaklamaUygula, Istek

\* In every behaviour, for every number of backups and every bound, the state
\* stays in its type (TypeOK).
THEOREM TipDogru == Spec => []TypeOK
<1>1. TipInv => TypeOK
    BY DEF TipInv
<1> QED
    BY TipBaslar, TipKorunur, <1>1, PTL DEF Spec
-----------------------------------------------------------------------------
(***************************************************************************)
(* What 'tamam' and 'silindi' stand for on Drive.                          *)
(***************************************************************************)
\* The job's row is half done until Tamamla; what the earlier steps made on
\* Drive is there when a later step relies on it; it stays half done exactly when
\* the job fails.  A cancellation finds this job or none.
IsDurumu ==
    /\ adim \in {"basla"} \cup IsAdimi => durum[is] \in Yarim
    /\ adim \in {"manifestle", "tamamla"} => veri[IsAdi] = "saglam"
    /\ adim = "tamamla" => IsAdi \in manifest
    /\ adim \in IsAdimi \cup SaklamaAdimi => hata = "yok"
    /\ adim \in SaklamaAdimi => durum[is] \notin Yarim
    /\ adim = "sonuclandir" => (hata = "yok" <=> durum[is] \notin Yarim)
    /\ calisan \in {Bos, is}

\* Retention deletes from Drive only what it has marked, data first.
SaklamaDurumu ==
    /\ adim \in {"saklaVeri", "saklaManifest"} =>
          aday \in Yedek /\ durum[aday] = "siliniyor" /\ AdlarBizim(aday)
    /\ adim = "saklaManifest" => veri[UzakAdi(aday)] = "yok"

KopyaInv == TipInv /\ IsDurumu /\ SaklamaDurumu /\ TamamSaglam /\ SilindiTemiz

LEMMA KopyaBaslar == Init => KopyaInv
<1>1. Init => IsDurumu /\ SaklamaDurumu /\ TamamSaglam /\ SilindiTemiz
    BY DEF Init, IsDurumu, SaklamaDurumu, TamamSaglam, SilindiTemiz, IsAdimi, SaklamaAdimi, SatirYok
<1> QED
    BY <1>1, TipBaslar DEF KopyaInv

LEMMA KopyaKorunur == KopyaInv /\ [Next]_vars => KopyaInv'
<1> DEFINE Hedef == IsDurumu' /\ SaklamaDurumu' /\ TamamSaglam' /\ SilindiTemiz'
<1> SUFFICES ASSUME KopyaInv, [Next]_vars PROVE Hedef
    BY TipKorunur DEF KopyaInv
<1>0. Bos \notin Yedek
    BY DEF Bos, Yedek
<1> USE <1>0 DEF KopyaInv, TipInv, TypeOK, IsTutulur, IsDurumu, SaklamaDurumu, TamamSaglam,
                 SilindiTemiz, IsAdi, UzakAdi, AdlarBizim, satirVars, adVars, driveVars, isciVars, yerelVars, sinirVars,
                 IsAdimi, SaklamaAdimi, Adim, Yarim, SatirYok
<1>1. CASE IsAl
    BY <1>1 DEF IsAl
<1>2. CASE Basla
    BY <1>2 DEF Basla
<1>3. CASE Sifrele
    BY <1>3 DEF Sifrele, Ilerle, Vazgec
<1>4. CASE Yukle
    <2>1. /\ is \in Yedek /\ is' = is /\ durum[is] \in Yarim /\ durum'[is] \in Yarim
          /\ adim' \notin SaklamaAdimi
          /\ UNCHANGED <<uzakAd, manifestAd, manifest, aday, isAyar>>
          /\ \A b \in Yedek \ {is} : durum'[b] = durum[b]
        BY <1>4 DEF Yukle, Yuklenen, YarimYuklenen, Ilerle, Vazgec
    <2>2. \A b \in Yedek \ {is}, k \in Klasor : veri'[<<b, k>>] = veri[<<b, k>>]
        BY <1>4 DEF Yukle, Yuklenen, YarimYuklenen, Ilerle, Vazgec, Ad
    <2>3. IsDurumu'
        BY <1>4, AdTuru DEF Yukle, Yuklenen, YarimYuklenen, Ilerle, Vazgec
    <2>4. TamamSaglam'
        BY <2>1, <2>2 DEF Ad
    <2>5. SilindiTemiz'
        BY <2>1, <2>2
    <2> QED
        BY <2>1, <2>3, <2>4, <2>5
<1>5. CASE Dogrula
    <2>1. /\ is \in Yedek /\ is' = is /\ durum[is] \in Yarim /\ durum'[is] \in Yarim
          /\ adim' \notin SaklamaAdimi
          /\ UNCHANGED <<uzakAd, manifestAd, manifest, aday, isAyar>>
          /\ \A b \in Yedek \ {is} : durum'[b] = durum[b]
        BY <1>5 DEF Dogrula, VeriSilinmis, Ilerle, Vazgec, UzaktaSaglam
    <2>2. \A b \in Yedek \ {is}, k \in Klasor : veri'[<<b, k>>] = veri[<<b, k>>]
        BY <1>5 DEF Dogrula, VeriSilinmis, Ilerle, Vazgec, UzaktaSaglam, Ad
    <2>3. IsDurumu'
        BY <1>5, AdTuru DEF Dogrula, VeriSilinmis, Ilerle, Vazgec, UzaktaSaglam
    <2>4. TamamSaglam'
        BY <2>1, <2>2 DEF Ad
    <2>5. SilindiTemiz'
        BY <2>1, <2>2
    <2> QED
        BY <2>1, <2>3, <2>4, <2>5
<1>6. CASE ManifestYaz
    BY <1>6 DEF ManifestYaz, Ilerle, Vazgec
<1>7. CASE Tamamla
    BY <1>7 DEF Tamamla, Ilerle, Vazgec
<1>8. CASE SaklaListele
    BY <1>8 DEF SaklaListele
<1>9. CASE SaklaSec
    BY <1>9 DEF SaklaSec
<1>10. CASE SaklaVeriSil
    <2>1. /\ aday \in Yedek /\ durum[aday] = "siliniyor" /\ AdlarBizim(aday)
          /\ UNCHANGED <<durum, uzakAd, manifestAd, manifest, aday, is, isAyar, calisan, hata>>
          /\ adim' \in {"saklaSec", "saklaManifest"}
        BY <1>10 DEF SaklaVeriSil
    <2>2. \A b \in Yedek \ {aday}, k \in Klasor : veri'[<<b, k>>] = veri[<<b, k>>]
        BY <1>10 DEF SaklaVeriSil, VeriSilinmis, Ad
    <2>3. adim' = "saklaManifest" => veri'[UzakAdi(aday)] = "yok"
        BY <1>10, AdTuru DEF SaklaVeriSil, VeriSilinmis
    <2>4. TamamSaglam'
        BY <2>1, <2>2 DEF Ad
    <2>5. SilindiTemiz'
        BY <2>1, <2>2
    <2>6. IsDurumu'
        BY <1>10, <2>1 DEF SaklaVeriSil
    <2>7. SaklamaDurumu'
        BY <2>1, <2>3
    <2> QED
        BY <2>4, <2>5, <2>6, <2>7
<1>11. CASE SaklaManifestSil
    BY <1>11 DEF SaklaManifestSil
<1>12. CASE SaklamaSon
    BY <1>12 DEF SaklamaSon
<1>13. CASE Sonuclandir
    BY <1>13 DEF Sonuclandir, Basarisiz
<1>14. CASE YerelBitti
    BY <1>14 DEF YerelBitti
<1>15. CASE Coku
    BY <1>15 DEF Coku
<1>16. CASE Acilis
    BY <1>16 DEF Acilis
<1>17. CASE AyarDegistir
    BY <1>17 DEF AyarDegistir
<1>18. ASSUME NEW b \in Yedek, YedekAl(b) PROVE Hedef
    BY <1>18 DEF YedekAl
<1>19. ASSUME NEW b \in Yedek, KayitSil(b) PROVE Hedef
    BY <1>19 DEF KayitSil
<1>20. ASSUME NEW b \in Yedek, YerelDegisir(b) PROVE Hedef
    BY <1>20 DEF YerelDegisir
<1>21. ASSUME NEW b \in Yedek, KuyrugaAl(b) PROVE Hedef
    BY <1>21 DEF KuyrugaAl
<1>22. ASSUME NEW b \in Yedek, YenidenDene(b) PROVE Hedef
    BY <1>22 DEF YenidenDene
<1>23. ASSUME NEW b \in Yedek, SureDoldu(b) PROVE Hedef
    BY <1>23 DEF SureDoldu
<1>24. ASSUME NEW b \in Yedek, IptalEt(b) PROVE Hedef
    BY <1>24 DEF IptalEt
<1>26. ASSUME NEW b \in Yedek, SilIste(b) PROVE Hedef
    BY <1>26 DEF SilIste
<1>25. CASE UNCHANGED vars
    BY <1>25 DEF vars
<1> QED
    BY <1>1, <1>2, <1>3, <1>4, <1>5, <1>6, <1>7, <1>8, <1>9, <1>10, <1>11, <1>12, <1>13, <1>14,
       <1>15, <1>16, <1>17, <1>18, <1>19, <1>20, <1>21, <1>22, <1>23, <1>24, <1>25, <1>26
       DEF Next, KuyrukNext, Bir, Isle, SaklamaUygula, Istek

\* A row 'tamam' always has its verified object and its manifest on Drive, for
\* every number of backups, attempts, folders, crashes and lost status writes
\* (TamamSaglam).
THEOREM TamamSaglamDogru == Spec => []TamamSaglam
<1>1. KopyaInv => TamamSaglam
    BY DEF KopyaInv
<1> QED
    BY KopyaBaslar, KopyaKorunur, <1>1, PTL DEF Spec

\* A row 'silindi' names its copy and has nothing left on Drive under that name,
\* however often retention was cut in the middle and whatever folders the
\* settings named before or since (SilindiTemiz).
THEOREM SilindiTemizDogru == Spec => []SilindiTemiz
<1>1. KopyaInv => SilindiTemiz
    BY DEF KopyaInv
<1> QED
    BY KopyaBaslar, KopyaKorunur, <1>1, PTL DEF Spec

-----------------------------------------------------------------------------
(***************************************************************************)
(* Retention keeps the newest copy.                                        *)
(***************************************************************************)
\* Queue rows carry different ids, all handed out already.
NoTekil ==
    /\ \A b \in Yedek : isNo[b] <= sonIs
    /\ \A b, c \in Yedek :
          durum[b] # SatirYok /\ durum[c] # SatirYok /\ isNo[b] = isNo[c] => b = c

\* The candidate being deleted is no longer to visit.  Every one still to visit
\* is a copy, and when it is a whole one there is a newer whole copy that is no candidate.
KalanKopya ==
    /\ adim \in {"saklaVeri", "saklaManifest"} => aday \notin adaylar
    /\ adim \in SaklamaAdimi \ {"saklaListele"} =>
          \A b \in adaylar :
              /\ durum[b] \in {"tamam", "siliniyor"}
              /\ durum[b] = "tamam" =>
                    \E c \in Yedek \ adaylar : durum[c] = "tamam" /\ isNo[c] > isNo[b]

SaklamaInv == KopyaInv /\ NoTekil /\ KalanKopya

\* A row that is not the first of the 'tamam' rows has a newer one, which the
\* settings can never make a candidate (SaklamaAdaylari).
LEMMA EnYeniAdayDegil ==
    ASSUME TypeOK, NoTekil, NEW yas,
           NEW b \in SaklamaAdaylari(isAyar, yas), durum[b] = "tamam"
    PROVE  \E c \in Yedek \ SaklamaAdaylari(isAyar, yas) : durum[c] = "tamam" /\ isNo[c] > isNo[b]
<1> DEFINE T == {c \in Yedek : durum[c] = "tamam"}
<1>1. b \in T /\ T \in SUBSET Yedek
    BY DEF SaklamaAdaylari
<1>2. isNo \in [Yedek -> Nat] /\ sonIs \in Nat /\ \A c \in Yedek : isNo[c] <= sonIs
    BY DEF TypeOK, NoTekil
<1>3. PICK m \in T : \A c \in T : isNo[c] <= isNo[m]
    BY <1>1, <1>2, EnBuyuk
<1>4. isAyar.saklamaN \in Nat \ {0}
    BY AyarVarsayim DEF TypeOK, Ayar, AyarYok
<1>5. {c \in Yedek : durum[c] = "tamam" /\ isNo[c] >= isNo[m]} = {m}
    BY <1>2, <1>3 DEF NoTekil, SatirYok
<1>6. Sira(m) = 1
    BY <1>5, FS_Singleton DEF Sira
<1>7. m \notin SaklamaAdaylari(isAyar, yas)
    BY <1>4, <1>6 DEF SaklamaAdaylari
<1>8. isNo[m] # isNo[b]
    BY <1>1, <1>7 DEF NoTekil, SatirYok
<1> QED
    BY <1>1, <1>2, <1>3, <1>7, <1>8

LEMMA SaklamaBaslar == Init => SaklamaInv
<1>1. Init => NoTekil /\ KalanKopya
    BY DEF Init, NoTekil, KalanKopya, SaklamaAdimi
<1> QED
    BY <1>1, KopyaBaslar DEF SaklamaInv

LEMMA SaklamaKorunur == SaklamaInv /\ [Next]_vars => SaklamaInv'
<1> DEFINE Hedef == NoTekil' /\ KalanKopya'
<1> SUFFICES ASSUME SaklamaInv, [Next]_vars PROVE Hedef
    BY KopyaKorunur DEF SaklamaInv
<1>0. Bos \notin Yedek
    BY DEF Bos, Yedek
<1> USE <1>0 DEF SaklamaInv, KopyaInv, TipInv, TypeOK, IsTutulur, IsDurumu, SaklamaDurumu,
                 NoTekil, KalanKopya, satirVars, adVars, driveVars, isciVars, yerelVars, sinirVars,
                 IsAdimi, SaklamaAdimi, Adim, Yarim, SatirYok
<1>1. CASE IsAl
    <2>1. PICK b \in Yedek : durum[b] = "bekliyor" /\ durum' = [durum EXCEPT ![b] = "sifreleniyor"]
        BY <1>1 DEF IsAl, Hazir
    <2>2. adim' = "basla" /\ UNCHANGED <<isNo, sonIs>>
        BY <1>1 DEF IsAl
    <2> QED
        BY <2>1, <2>2
<1>2. CASE Basla
    BY <1>2 DEF Basla
<1>3. CASE Sifrele
    BY <1>3 DEF Sifrele, Ilerle, Vazgec
<1>4. CASE Yukle
    BY <1>4 DEF Yukle, Yuklenen, YarimYuklenen, Ilerle, Vazgec
<1>5. CASE Dogrula
    BY <1>5 DEF Dogrula, VeriSilinmis, Ilerle, Vazgec
<1>6. CASE ManifestYaz
    BY <1>6 DEF ManifestYaz, Ilerle, Vazgec
<1>7. CASE Tamamla
    BY <1>7 DEF Tamamla, Ilerle, Vazgec
<1>8. CASE SaklaListele
    <2>1. CASE adim' = "sonuclandir"
        BY <1>8, <2>1 DEF SaklaListele
    <2>2. CASE adim' = "saklaSec"
        <3>1. PICK yas \in 0 .. sonIs : adaylar' = SaklamaAdaylari(isAyar, yas)
            BY <1>8, <2>2 DEF SaklaListele
        <3>2. UNCHANGED <<durum, isNo, sonIs>>
            BY <1>8 DEF SaklaListele
        <3>3. \A b \in adaylar' : durum[b] \in {"tamam", "siliniyor"}
            BY <3>1 DEF SaklamaAdaylari
        <3>4. \A b \in adaylar' : durum[b] = "tamam" =>
                  \E c \in Yedek \ adaylar' : durum[c] = "tamam" /\ isNo[c] > isNo[b]
            BY <3>1, EnYeniAdayDegil
        <3> QED
            BY <2>2, <3>2, <3>3, <3>4
    <2> QED
        BY <1>8, <2>1, <2>2 DEF SaklaListele
<1>9. CASE SaklaSec
    BY <1>9 DEF SaklaSec
<1>10. CASE SaklaVeriSil
    BY <1>10 DEF SaklaVeriSil, VeriSilinmis
<1>11. CASE SaklaManifestSil
    BY <1>11 DEF SaklaManifestSil
<1>12. CASE SaklamaSon
    BY <1>12 DEF SaklamaSon
<1>13. CASE Sonuclandir
    BY <1>13 DEF Sonuclandir, Basarisiz
<1>14. CASE YerelBitti
    BY <1>14 DEF YerelBitti
<1>15. CASE Coku
    BY <1>15 DEF Coku
<1>16. CASE Acilis
    BY <1>16 DEF Acilis
<1>17. CASE AyarDegistir
    BY <1>17 DEF AyarDegistir
<1>18. ASSUME NEW b \in Yedek, YedekAl(b) PROVE Hedef
    BY <1>18 DEF YedekAl
<1>19. ASSUME NEW b \in Yedek, KayitSil(b) PROVE Hedef
    BY <1>19 DEF KayitSil
<1>20. ASSUME NEW b \in Yedek, YerelDegisir(b) PROVE Hedef
    BY <1>20 DEF YerelDegisir
<1>21. ASSUME NEW b \in Yedek, KuyrugaAl(b) PROVE Hedef
    BY <1>21 DEF KuyrugaAl
<1>22. ASSUME NEW b \in Yedek, YenidenDene(b) PROVE Hedef
    BY <1>22 DEF YenidenDene
<1>23. ASSUME NEW b \in Yedek, SureDoldu(b) PROVE Hedef
    BY <1>23 DEF SureDoldu
<1>24. ASSUME NEW b \in Yedek, IptalEt(b) PROVE Hedef
    BY <1>24 DEF IptalEt
<1>26. ASSUME NEW b \in Yedek, SilIste(b) PROVE Hedef
    BY <1>26 DEF SilIste
<1>25. CASE UNCHANGED vars
    BY <1>25 DEF vars
<1> QED
    BY <1>1, <1>2, <1>3, <1>4, <1>5, <1>6, <1>7, <1>8, <1>9, <1>10, <1>11, <1>12, <1>13, <1>14,
       <1>15, <1>16, <1>17, <1>18, <1>19, <1>20, <1>21, <1>22, <1>23, <1>24, <1>25, <1>26
       DEF Next, KuyrukNext, Bir, Isle, SaklamaUygula, Istek

\* Retention never takes the newest copy of the domain (SonKopyaKorunur): with
\* any settings, any number of copies and any interruption, a newer verified
\* copy stays when one starts to be deleted.
THEOREM SonKopyaKorunurDogru == Spec => SonKopyaKorunur
<1> DEFINE Korunur == \A b \in Yedek :
                          durum[b] = "tamam" /\ durum'[b] = "siliniyor" =>
                             \E c \in Yedek : /\ durum[c] = "tamam" /\ durum'[c] = "tamam"
                                              /\ isNo[c] > isNo[b]
<1>1. SaklamaInv /\ [Next]_vars => [Korunur]_vars
    <2> SUFFICES ASSUME SaklamaInv, [Next]_vars,
                        NEW b \in Yedek, durum[b] = "tamam", durum'[b] = "siliniyor"
                 PROVE  \E c \in Yedek : /\ durum[c] = "tamam" /\ durum'[c] = "tamam"
                                         /\ isNo[c] > isNo[b]
        BY DEF Korunur
    <2>1. SaklaSec
        BY DEF Next, KuyrukNext, Bir, Isle, SaklamaUygula, Istek, vars, SaklamaInv, KopyaInv, TipInv, TypeOK,
               IsAl, Basla, Sifrele, Yukle, Dogrula, ManifestYaz, Tamamla, SaklaListele,
               SaklaVeriSil, SaklaManifestSil, SaklamaSon, Sonuclandir, Basarisiz, YerelBitti,
               Coku, Acilis, AyarDegistir, YedekAl, KayitSil, YerelDegisir, KuyrugaAl, YenidenDene,
               SureDoldu, IptalEt, SilIste, satirVars, adVars, SatirYok
    <2>2. b \in adaylar /\ durum' = [durum EXCEPT ![b] = "siliniyor"]
        BY <2>1 DEF SaklaSec, SaklamaInv, KopyaInv, TipInv, TypeOK
    <2>3. PICK c \in Yedek \ adaylar : durum[c] = "tamam" /\ isNo[c] > isNo[b]
        BY <2>1, <2>2 DEF SaklaSec, SaklamaInv, KalanKopya, SaklamaAdimi
    <2> QED
        BY <2>2, <2>3 DEF SaklamaInv, KopyaInv, TipInv, TypeOK
<1> QED
    BY SaklamaBaslar, SaklamaKorunur, <1>1, PTL DEF Spec, SonKopyaKorunur

-----------------------------------------------------------------------------
(***************************************************************************)
(* Cancellation, and rows left half done.                                  *)
(***************************************************************************)
LEMMA IptalAdimi ==
    ASSUME SaklamaInv, [Next]_vars, NEW b \in Yedek
    PROVE  /\ calisan = b /\ iptalIst /\ durum[b] \in Yarim /\ durum'[b] \notin Yarim
                  => durum'[b] = "iptal"
           /\ durum[b] = "iptal" /\ durum'[b] # "iptal" => istek' = istek + 1
<1> DEFINE Hedef ==
              /\ calisan = b /\ iptalIst /\ durum[b] \in Yarim /\ durum'[b] \notin Yarim
                    => durum'[b] = "iptal"
              /\ durum[b] = "iptal" /\ durum'[b] # "iptal" => istek' = istek + 1
<1> SUFFICES Hedef
    OBVIOUS
<1>0. Bos \notin Yedek
    BY DEF Bos, Yedek
<1> USE <1>0 DEF SaklamaInv, KopyaInv, TipInv, TypeOK, IsTutulur, IsDurumu, SaklamaDurumu,
                 KalanKopya, satirVars, adVars, driveVars, isciVars, yerelVars, sinirVars,
                 IsAdimi, SaklamaAdimi, Adim, Yarim, SatirYok
<1>1. CASE IsAl
    <2>1. PICK c \in Yedek : durum[c] = "bekliyor" /\ durum' = [durum EXCEPT ![c] = "sifreleniyor"]
        BY <1>1 DEF IsAl, Hazir
    <2>2. durum[b] \notin {"iptal"} \cup Yarim => Hedef
        OBVIOUS
    <2>3. durum[b] \in {"iptal"} \cup Yarim => durum'[b] = durum[b]
        BY <2>1
    <2> QED
        BY <2>2, <2>3
<1>2. CASE Basla
    BY <1>2 DEF Basla
<1>3. CASE Sifrele
    BY <1>3 DEF Sifrele, Ilerle, Vazgec
<1>4. CASE Yukle
    BY <1>4 DEF Yukle, Yuklenen, YarimYuklenen, Ilerle, Vazgec
<1>5. CASE Dogrula
    BY <1>5 DEF Dogrula, VeriSilinmis, Ilerle, Vazgec
<1>6. CASE ManifestYaz
    BY <1>6 DEF ManifestYaz, Ilerle, Vazgec
<1>7. CASE Tamamla
    BY <1>7 DEF Tamamla, Ilerle, Vazgec
<1>8. CASE SaklaListele
    BY <1>8 DEF SaklaListele
<1>9. CASE SaklaSec
    BY <1>9 DEF SaklaSec
<1>10. CASE SaklaVeriSil
    BY <1>10 DEF SaklaVeriSil, VeriSilinmis
<1>11. CASE SaklaManifestSil
    BY <1>11 DEF SaklaManifestSil
<1>12. CASE SaklamaSon
    BY <1>12 DEF SaklamaSon
<1>13. CASE Sonuclandir
    BY <1>13 DEF Sonuclandir, Basarisiz
<1>14. CASE YerelBitti
    BY <1>14 DEF YerelBitti
<1>15. CASE Coku
    BY <1>15 DEF Coku
<1>16. CASE Acilis
    BY <1>16 DEF Acilis
<1>17. CASE AyarDegistir
    BY <1>17 DEF AyarDegistir
<1>18. ASSUME NEW c \in Yedek, YedekAl(c) PROVE Hedef
    BY <1>18 DEF YedekAl
<1>19. ASSUME NEW c \in Yedek, KayitSil(c) PROVE Hedef
    BY <1>19 DEF KayitSil
<1>20. ASSUME NEW c \in Yedek, YerelDegisir(c) PROVE Hedef
    BY <1>20 DEF YerelDegisir
<1>21. ASSUME NEW c \in Yedek, KuyrugaAl(c) PROVE Hedef
    BY <1>21 DEF KuyrugaAl
<1>22. ASSUME NEW c \in Yedek, YenidenDene(c) PROVE Hedef
    BY <1>22 DEF YenidenDene
<1>23. ASSUME NEW c \in Yedek, SureDoldu(c) PROVE Hedef
    BY <1>23 DEF SureDoldu
<1>24. ASSUME NEW c \in Yedek, IptalEt(c) PROVE Hedef
    BY <1>24 DEF IptalEt
<1>26. ASSUME NEW c \in Yedek, SilIste(c) PROVE Hedef
    BY <1>26 DEF SilIste
<1>25. CASE UNCHANGED vars
    BY <1>25 DEF vars
<1> QED
    BY <1>1, <1>2, <1>3, <1>4, <1>5, <1>6, <1>7, <1>8, <1>9, <1>10, <1>11, <1>12, <1>13, <1>14,
       <1>15, <1>16, <1>17, <1>18, <1>19, <1>20, <1>21, <1>22, <1>23, <1>24, <1>25, <1>26
       DEF Next, KuyrukNext, Bir, Isle, SaklamaUygula, Istek

\* An accepted cancellation is final (IptalKesin), with any number of rows,
\* crashes and lost status writes.
THEOREM IptalKesinDogru == Spec => IptalKesin
<1>1. SaklamaInv /\ [Next]_vars =>
        [\A b \in Yedek :
            /\ calisan = b /\ iptalIst /\ durum[b] \in Yarim /\ durum'[b] \notin Yarim
                  => durum'[b] = "iptal"
            /\ durum[b] = "iptal" /\ durum'[b] # "iptal" => istek' = istek + 1]_vars
    BY IptalAdimi
<1> QED
    BY SaklamaBaslar, SaklamaKorunur, <1>1, PTL DEF Spec, IptalKesin

TekInv == KopyaInv /\ TekKosan

LEMMA TekKorunur ==
    ASSUME DbHatasi = FALSE
    PROVE  TekInv /\ [Next]_vars => TekInv'
<1> DEFINE Hedef == TekKosan'
<1> SUFFICES ASSUME TekInv, [Next]_vars PROVE Hedef
    BY KopyaKorunur DEF TekInv
<1>0. Bos \notin Yedek
    BY DEF Bos, Yedek
<1> USE <1>0 DEF TekInv, KopyaInv, TipInv, TypeOK, IsTutulur, IsDurumu, SaklamaDurumu, TekKosan,
                 YazmaKaybi, satirVars, adVars, driveVars, isciVars, yerelVars, sinirVars,
                 IsAdimi, SaklamaAdimi, Adim, Yarim, SatirYok
<1>1. CASE IsAl
    BY <1>1 DEF IsAl
<1>2. CASE Basla
    BY <1>2 DEF Basla
<1>3. CASE Sifrele
    BY <1>3 DEF Sifrele, Ilerle, Vazgec
<1>4. CASE Yukle
    BY <1>4 DEF Yukle, Yuklenen, YarimYuklenen, Ilerle, Vazgec
<1>5. CASE Dogrula
    BY <1>5 DEF Dogrula, VeriSilinmis, Ilerle, Vazgec
<1>6. CASE ManifestYaz
    BY <1>6 DEF ManifestYaz, Ilerle, Vazgec
<1>7. CASE Tamamla
    BY <1>7 DEF Tamamla, Ilerle, Vazgec
<1>8. CASE SaklaListele
    BY <1>8 DEF SaklaListele
<1>9. CASE SaklaSec
    BY <1>9 DEF SaklaSec
<1>10. CASE SaklaVeriSil
    BY <1>10 DEF SaklaVeriSil, VeriSilinmis
<1>11. CASE SaklaManifestSil
    BY <1>11 DEF SaklaManifestSil
<1>12. CASE SaklamaSon
    BY <1>12 DEF SaklamaSon
<1>13. CASE Sonuclandir
    BY <1>13 DEF Sonuclandir, Basarisiz
<1>14. CASE YerelBitti
    BY <1>14 DEF YerelBitti
<1>15. CASE Coku
    BY <1>15 DEF Coku
<1>16. CASE Acilis
    BY <1>16 DEF Acilis
<1>17. CASE AyarDegistir
    BY <1>17 DEF AyarDegistir
<1>18. ASSUME NEW b \in Yedek, YedekAl(b) PROVE Hedef
    BY <1>18 DEF YedekAl
<1>19. ASSUME NEW b \in Yedek, KayitSil(b) PROVE Hedef
    BY <1>19 DEF KayitSil
<1>20. ASSUME NEW b \in Yedek, YerelDegisir(b) PROVE Hedef
    BY <1>20 DEF YerelDegisir
<1>21. ASSUME NEW b \in Yedek, KuyrugaAl(b) PROVE Hedef
    BY <1>21 DEF KuyrugaAl
<1>22. ASSUME NEW b \in Yedek, YenidenDene(b) PROVE Hedef
    BY <1>22 DEF YenidenDene
<1>23. ASSUME NEW b \in Yedek, SureDoldu(b) PROVE Hedef
    BY <1>23 DEF SureDoldu
<1>24. ASSUME NEW b \in Yedek, IptalEt(b) PROVE Hedef
    BY <1>24 DEF IptalEt
<1>26. ASSUME NEW b \in Yedek, SilIste(b) PROVE Hedef
    BY <1>26 DEF SilIste
<1>25. CASE UNCHANGED vars
    BY <1>25 DEF vars
<1> QED
    BY <1>1, <1>2, <1>3, <1>4, <1>5, <1>6, <1>7, <1>8, <1>9, <1>10, <1>11, <1>12, <1>13, <1>14,
       <1>15, <1>16, <1>17, <1>18, <1>19, <1>20, <1>21, <1>22, <1>23, <1>24, <1>25, <1>26
       DEF Next, KuyrukNext, Bir, Isle, SaklamaUygula, Istek

\* Where no status write is lost, a half-done row is the worker's own job or
\* waits for the restart that requeues it (TekKosan).
THEOREM TekKosanDogru ==
    ASSUME DbHatasi = FALSE
    PROVE  Spec => []TekKosan
<1>1. Init => TekInv
    BY KopyaBaslar DEF Init, TekInv, TekKosan, Yarim, SatirYok
<1>2. TekInv => TekKosan
    BY DEF TekInv
<1> QED
    BY <1>1, TekKorunur, <1>2, PTL DEF Spec

-----------------------------------------------------------------------------
(***************************************************************************)
(* Where the copy of a row 'tamam' is.                                     *)
(***************************************************************************)
\* Once the archive is encrypted, the row names the object this attempt makes,
\* whatever an earlier attempt had recorded.
AdYazili == adim \in IsAdimi \ {"sifrele"} => uzakAd[is] = isAyar.klasor

BulunurInv == KopyaInv /\ AdYazili /\ TamamBulunur

LEMMA BulunurKorunur ==
    ASSUME DbHatasi = FALSE
    PROVE  BulunurInv /\ [Next]_vars => BulunurInv'
<1> DEFINE Hedef == AdYazili' /\ TamamBulunur'
<1> SUFFICES ASSUME BulunurInv, [Next]_vars PROVE Hedef
    BY KopyaKorunur DEF BulunurInv
<1>0. Bos \notin Yedek
    BY DEF Bos, Yedek
<1> USE <1>0 DEF BulunurInv, KopyaInv, TipInv, TypeOK, IsTutulur, IsDurumu, SaklamaDurumu, AdYazili, TamamBulunur, AdlarBizim,
                 YazmaKaybi, satirVars, adVars, driveVars, isciVars, yerelVars, sinirVars,
                 IsAdimi, SaklamaAdimi, Adim, Yarim, SatirYok
<1>1. CASE IsAl
    BY <1>1 DEF IsAl
<1>2. CASE Basla
    BY <1>2 DEF Basla
<1>3. CASE Sifrele
    BY <1>3 DEF Sifrele, Ilerle, Vazgec
<1>4. CASE Yukle
    BY <1>4 DEF Yukle, Yuklenen, YarimYuklenen, Ilerle, Vazgec
<1>5. CASE Dogrula
    BY <1>5 DEF Dogrula, VeriSilinmis, Ilerle, Vazgec
<1>6. CASE ManifestYaz
    BY <1>6 DEF ManifestYaz, Ilerle, Vazgec
<1>7. CASE Tamamla
    <2>1. /\ is \in Yedek /\ uzakAd[is] = isAyar.klasor /\ durum[is] # "tamam"
          /\ uzakAd' = uzakAd /\ adim' \in {"saklaListele", "sonuclandir"}
        BY <1>7 DEF Tamamla, Ilerle, Vazgec
    <2>2. \A b \in Yedek \ {is} : durum'[b] = durum[b] /\ manifestAd'[b] = manifestAd[b]
        BY <1>7, <2>1 DEF Tamamla
    <2>3. durum'[is] = "tamam" => manifestAd'[is] = isAyar.klasor
        BY <1>7, <2>1 DEF Tamamla
    <2>4. isAyar.klasor # AdYok
        BY <2>1, AdTuru, KlasorVarsayim
    <2> QED
        BY <2>1, <2>2, <2>3, <2>4
<1>8. CASE SaklaListele
    BY <1>8 DEF SaklaListele
<1>9. CASE SaklaSec
    BY <1>9 DEF SaklaSec
<1>10. CASE SaklaVeriSil
    BY <1>10 DEF SaklaVeriSil, VeriSilinmis
<1>11. CASE SaklaManifestSil
    BY <1>11 DEF SaklaManifestSil
<1>12. CASE SaklamaSon
    BY <1>12 DEF SaklamaSon
<1>13. CASE Sonuclandir
    BY <1>13 DEF Sonuclandir, Basarisiz
<1>14. CASE YerelBitti
    BY <1>14 DEF YerelBitti
<1>15. CASE Coku
    BY <1>15 DEF Coku
<1>16. CASE Acilis
    BY <1>16 DEF Acilis
<1>17. CASE AyarDegistir
    BY <1>17 DEF AyarDegistir
<1>18. ASSUME NEW b \in Yedek, YedekAl(b) PROVE Hedef
    BY <1>18 DEF YedekAl
<1>19. ASSUME NEW b \in Yedek, KayitSil(b) PROVE Hedef
    BY <1>19 DEF KayitSil
<1>20. ASSUME NEW b \in Yedek, YerelDegisir(b) PROVE Hedef
    BY <1>20 DEF YerelDegisir
<1>21. ASSUME NEW b \in Yedek, KuyrugaAl(b) PROVE Hedef
    BY <1>21 DEF KuyrugaAl
<1>22. ASSUME NEW b \in Yedek, YenidenDene(b) PROVE Hedef
    BY <1>22 DEF YenidenDene
<1>23. ASSUME NEW b \in Yedek, SureDoldu(b) PROVE Hedef
    BY <1>23 DEF SureDoldu
<1>24. ASSUME NEW b \in Yedek, IptalEt(b) PROVE Hedef
    BY <1>24 DEF IptalEt
<1>26. ASSUME NEW b \in Yedek, SilIste(b) PROVE Hedef
    BY <1>26 DEF SilIste
<1>25. CASE UNCHANGED vars
    BY <1>25 DEF vars
<1> QED
    BY <1>1, <1>2, <1>3, <1>4, <1>5, <1>6, <1>7, <1>8, <1>9, <1>10, <1>11, <1>12, <1>13, <1>14,
       <1>15, <1>16, <1>17, <1>18, <1>19, <1>20, <1>21, <1>22, <1>23, <1>24, <1>25, <1>26
       DEF Next, KuyrukNext, Bir, Isle, SaklamaUygula, Istek

\* Where no status write is lost, the row of every whole copy records the name
\* its copy has (TamamBulunur), although the folder may change at any time.
THEOREM TamamBulunurDogru ==
    ASSUME DbHatasi = FALSE
    PROVE  Spec => []TamamBulunur
<1>1. Init => BulunurInv
    BY KopyaBaslar DEF Init, BulunurInv, AdYazili, TamamBulunur, IsAdimi, SatirYok
<1>2. BulunurInv => TamamBulunur
    BY DEF BulunurInv
<1> QED
    BY <1>1, BulunurKorunur, <1>2, PTL DEF Spec

\* The queue by itself (KuyrukSpec, the system of run kuyruk) is the queue beside
\* something that never moves an archive, so that what is proved of Spec holds
\* of it.
THEOREM KuyrukUygular == KuyrukSpec => Spec
<1>1. [KuyrukNext]_vars => [Next]_vars
    BY DEF Next
<1> QED
    BY <1>1, PTL DEF KuyrukSpec, Spec

=============================================================================
