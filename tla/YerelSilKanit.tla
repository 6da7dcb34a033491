---------------------------- MODULE YerelSilKanit ----------------------------
(***************************************************************************)
(* Proofs about the local deletion, for every number of backups, every set *)
(* of settings, of cleaners, of backup runs and of restores, and every     *)
(* bound.  Where a theorem holds for some cleaners or some backup runs     *)
(* only, it says so: the others are the runs yerel_yaris and yerel_okuma.  *)
(***************************************************************************)
EXTENDS YerelSil, UzakKopyaKanit

-----------------------------------------------------------------------------
(***************************************************************************)
(* The system with its cleaners is still the queue and its worker.         *)
(***************************************************************************)
LEMMA TemizlikYerel ==
    ASSUME NEW p \in Temizleyici, Temizlik(p)
    PROVE  (\E b \in Yedek : YerelDegisir(b)) \/ YerelBitti \/ UNCHANGED vars
<1> USE OynakVarsayim DEF YerelDegisir, GeriKoy
<1>1. CASE Listele(p)
    BY <1>1 DEF Listele
<1>2. CASE Sec(p)
    BY <1>2 DEF Sec
<1>3. CASE UzakDogrula(p)
    BY <1>3 DEF UzakDogrula
<1>4. CASE Tasi(p)
    BY <1>4 DEF Tasi
<1>5. CASE Yokla(p)
    BY <1>5 DEF Yokla
<1>6. CASE Kaldir(p)
    BY <1>6 DEF Kaldir
<1>7. CASE Isaretle(p)
    BY <1>7 DEF Isaretle
<1>8. CASE TemizlikBitti(p)
    BY <1>8 DEF TemizlikBitti
<1> QED
    BY <1>1, <1>2, <1>3, <1>4, <1>5, <1>6, <1>7, <1>8 DEF Temizlik

\* What one restore request does.
GeriAdimi(r) ==
    \/ \E b \in Yedek : GeriBasla(r, b)
    \/ GeriAc(r) \/ GeriBulur(r) \/ GeriOkudu(r) \/ GeriBiter(r)

LEMMA YAdimKuyrukAdimi == [YNext]_tumVars => [Next]_vars
<1> SUFFICES ASSUME [YNext]_tumVars PROVE [Next]_vars
    OBVIOUS
<1>1. CASE YIsci \/ TemizliksizBitti
    BY <1>1 DEF YIsci, TemizliksizBitti, Next, KuyrukNext, Bir
<1>2. CASE IsciTemizler \/ ApiTemizler \/ ApiKilitler
    BY <1>2 DEF IsciTemizler, ApiTemizler, ApiKilitler
<1>3. ASSUME NEW p \in Temizleyici, Temizlik(p) PROVE [Next]_vars
    BY <1>3, TemizlikYerel DEF Next, KuyrukNext, Bir
<1>4. ASSUME NEW tur \in Uretici, YedekBasla(tur) PROVE [Next]_vars
    BY <1>4 DEF YedekBasla
<1>5. ASSUME NEW b \in Yedek, YedekOlusur(b) PROVE [Next]_vars
    BY <1>5 DEF YedekOlusur, Next, KuyrukNext
<1>6. ASSUME NEW b \in Yedek, IsGeriBasla(b) PROVE [Next]_vars
    BY <1>6 DEF IsGeriBasla
<1>7. ASSUME NEW b \in Yedek, YIstek(b) PROVE [Next]_vars
    BY <1>7 DEF YIstek, Next, KuyrukNext
<1>8. ASSUME NEW b \in Yedek, SureDoldu(b) PROVE [Next]_vars
    BY <1>8 DEF Next, KuyrukNext
<1>9. CASE AyarDegistir
    BY <1>9 DEF Next, KuyrukNext
<1>10. CASE YedekBiter \/ \E r \in GeriIstek : GeriAdimi(r)
    BY <1>10 DEF YedekBiter, GeriAdimi, GeriBasla, GeriAc, GeriBulur, GeriOkudu, GeriBiter
<1>11. CASE IsGeriKaydet \/ IsGeriBulur \/ IsGeriBiter \/ JobDurdur
    BY <1>11 DEF IsGeriKaydet, IsGeriBulur, IsGeriBiter, JobDurdur
<1>12. CASE YCoku \/ YAcilis
    BY <1>12 DEF YCoku, YAcilis, Next, KuyrukNext
<1>13. CASE UNCHANGED tumVars
    BY <1>13 DEF tumVars
<1> QED
    BY <1>1, <1>2, <1>3, <1>4, <1>5, <1>6, <1>7, <1>8, <1>9, <1>10, <1>11, <1>12, <1>13
       DEF YNext, GeriAdimi

\* With its cleaners, backup runs and restores the system is still the queue of
\* UzakKopya: every behaviour of YSpec is one of Spec, so that all that is
\* proved of the queue, the worker and retention holds here.
THEOREM YerelKuyruguUygular == YSpec => Spec
<1>1. YInit => Init
    BY DEF YInit
<1> QED
    BY <1>1, YAdimKuyrukAdimi, PTL DEF YSpec, Spec

-----------------------------------------------------------------------------
(***************************************************************************)
(* Type correctness.                                                       *)
(***************************************************************************)
\* Only the holder of yerelSilMu is at work, and an archive it works on has been
\* chosen; between its two renames the archive is under its second name.
TemizDurumu ==
    \A p \in Temizleyici :
        /\ kilit = p <=> temiz[p].adim \notin {"bos", "kilit"}
        /\ temiz[p].adim \in {"dogrula", "tasi", "yokla", "kaldir", "isaretle"} =>
              temiz[p].b \in Yedek
        /\ temiz[p].adim \in {"yokla", "kaldir"} => temiz[p].b \in silinecek

\* An archive has one name, and only a backup that was taken has an archive or a
\* queue row, or can be asked to go.
DosyaDurumu ==
    /\ silinecek \cap dosya = {}
    /\ \A b \in Yedek : b \in dosya \cup silinecek \cup silIstek \/ durum[b] # SatirYok => yedek[b] # "yok"

YTip == YTypeOK /\ TemizDurumu

\* What is known of a restore request, and of the restore job.
GeriKayit == [adim: GeriAdim, b: Yedek \cup {Bos}]

LEMMA YTipBaslar == YInit => YTip
<1> SUFFICES ASSUME YInit PROVE YTip
    OBVIOUS
<1>1. TypeOK
    BY TipBaslar DEF YInit, TipInv
<1>2. temiz = [p \in Temizleyici |-> Durgun]
    BY DEF YInit
<1>3. Durgun \in [adim: TemizAdim, liste: SUBSET Yedek, uygun: SUBSET Yedek,
                  tut: Nat, b: Yedek \cup {Bos}]
    BY DEF Durgun, TemizAdim
<1>4. TemizDurumu
    BY TemizleyiciVarsayim DEF YInit, TemizDurumu, Durgun, KilitBos
<1>5. geri \in [GeriIstek -> GeriKayit] /\ isGeri \in GeriKayit
    BY DEF YInit, GeriYok, GeriKayit, GeriAdim
<1> QED
    BY <1>1, <1>2, <1>3, <1>4, <1>5 DEF YInit, YTip, YTypeOK, GeriKayit, KilitBos

\* What a cleaner knows: it changes in its own record only.
TemizKayit == [adim: TemizAdim, liste: SUBSET Yedek, uygun: SUBSET Yedek,
               tut: Nat, b: Yedek \cup {Bos}]

LEMMA AtlaKayit ==
    ASSUME temiz \in [Temizleyici -> TemizKayit], NEW p \in Temizleyici, Atla(p)
    PROVE  /\ temiz'[p].adim = "sec"
           /\ \A q \in Temizleyici \ {p} : temiz'[q] = temiz[q]
           /\ temiz' \in [Temizleyici -> TemizKayit]
BY DEF Atla, TemizKayit, TemizAdim

LEMMA GecirKayit ==
    ASSUME temiz \in [Temizleyici -> TemizKayit], NEW p \in Temizleyici,
           NEW a \in TemizAdim, Gecir(p, a)
    PROVE  /\ temiz'[p].adim = a /\ temiz'[p].b = temiz[p].b
           /\ \A q \in Temizleyici \ {p} : temiz'[q] = temiz[q]
           /\ temiz' \in [Temizleyici -> TemizKayit]
BY DEF Gecir, TemizKayit, TemizAdim

LEMMA BaslarKayit ==
    ASSUME temiz \in [Temizleyici -> TemizKayit], NEW p \in Temizleyici,
           NEW a \in TemizAdim, NEW n \in Nat,
           temiz' = [temiz EXCEPT ![p].adim = a, ![p].tut = n]
    PROVE  /\ temiz'[p].adim = a
           /\ \A q \in Temizleyici \ {p} : temiz'[q] = temiz[q]
           /\ temiz' \in [Temizleyici -> TemizKayit]
BY DEF TemizKayit, TemizAdim

LEMMA ListeleKayit ==
    ASSUME temiz \in [Temizleyici -> TemizKayit], NEW p \in Temizleyici, Listele(p)
    PROVE  /\ temiz'[p].adim = "sec"
           /\ \A q \in Temizleyici \ {p} : temiz'[q] = temiz[q]
           /\ temiz' \in [Temizleyici -> TemizKayit]
<1> DEFINE driveli == {b \in Yedek : KokYedegi(b) /\ DriveTamam(b)}
           uygun == {b \in driveli : YerelSira(b) > temiz[p].tut}
           liste == (uygun \cap dosya) \cup {b \in driveli : b \notin dosya \cup yerelYok}
<1>1. uygun \in SUBSET Yedek /\ liste \in SUBSET Yedek
    OBVIOUS
<1>2. temiz' = [temiz EXCEPT ![p].adim = "sec", ![p].uygun = uygun, ![p].liste = liste]
    BY DEF Listele
<1> DEFINE t1 == [temiz EXCEPT ![p].adim = "sec"]
           t2 == [t1 EXCEPT ![p].uygun = uygun]
<1> HIDE DEF uygun, liste
<1>3. /\ t1 \in [Temizleyici -> TemizKayit] /\ t1[p].adim = "sec"
      /\ \A q \in Temizleyici \ {p} : t1[q] = temiz[q]
    BY DEF TemizKayit, TemizAdim
<1>4. temiz' = [t2 EXCEPT ![p].liste = liste]
    BY <1>2
<1> HIDE DEF t1
<1>5. /\ t2 \in [Temizleyici -> TemizKayit] /\ t2[p].adim = "sec"
      /\ \A q \in Temizleyici \ {p} : t2[q] = temiz[q]
    BY <1>1, <1>3 DEF TemizKayit
<1> HIDE DEF t2
<1> QED
    BY <1>1, <1>4, <1>5 DEF TemizKayit

\* A step of a restore request changes that request's record only.
LEMMA GeriGecer ==
    ASSUME geri \in [GeriIstek -> GeriKayit], NEW r \in GeriIstek, NEW a \in GeriAdim,
           geri' = [geri EXCEPT ![r].adim = a]
    PROVE  /\ geri' \in [GeriIstek -> GeriKayit]
           /\ geri'[r].adim = a /\ geri'[r].b = geri[r].b
           /\ \A s \in GeriIstek \ {r} : geri'[s] = geri[s]
BY DEF GeriKayit

LEMMA GeriTuru ==
    ASSUME geri \in [GeriIstek -> GeriKayit], NEW r \in GeriIstek, GeriAdimi(r)
    PROVE  geri' \in [GeriIstek -> GeriKayit] /\ ilerleme' \in BOOLEAN \cup {ilerleme}
<1>1. CASE \E b \in Yedek : GeriBasla(r, b)
    BY <1>1 DEF GeriBasla, GeriKayit, GeriAdim
<1>2. CASE GeriAc(r)
    BY <1>2, GeriGecer DEF GeriAc, GeriAdim
<1>3. CASE GeriBulur(r)
    BY <1>3, GeriGecer DEF GeriBulur, GeriAdim
<1>4. CASE GeriOkudu(r)
    BY <1>4, GeriGecer DEF GeriOkudu, GeriAdim
<1>5. CASE GeriBiter(r)
    BY <1>5 DEF GeriBiter, GeriYok, GeriKayit, GeriAdim
<1> QED
    BY <1>1, <1>2, <1>3, <1>4, <1>5 DEF GeriAdimi

LEMMA TemizlikTip ==
    ASSUME YTip, TypeOK', NEW p \in Temizleyici, Temizlik(p)
    PROVE  YTip'
<1> USE TemizleyiciVarsayim DEF YTip, YTypeOK, TemizDurumu, TemizAdim, kullanimVars, geriVars
<1>0. temiz \in [Temizleyici -> TemizKayit]
    BY DEF TemizKayit
<1>1. CASE Listele(p)
    BY <1>0, <1>1, ListeleKayit DEF Listele, TemizKayit
<1>2. CASE Sec(p)
    BY <1>2 DEF Sec
<1>3. CASE UzakDogrula(p)
    BY <1>3 DEF UzakDogrula, Gecir, Atla
<1>4. CASE Tasi(p)
    <2>1. temiz[p].b \in Yedek /\ UNCHANGED <<yerelYok, kilit, kullanimVars>>
        BY <1>4 DEF Tasi
    <2>2. CASE Gecir(p, "yokla") /\ silinecek' = silinecek \cup {temiz[p].b}
        BY <1>0, <1>4, <2>1, <2>2, GecirKayit DEF Tasi, TemizKayit
    <2>3. CASE Atla(p) /\ UNCHANGED silinecek
        BY <1>0, <1>4, <2>1, <2>3, AtlaKayit DEF Tasi, TemizKayit
    <2> QED
        BY <1>4, <2>2, <2>3 DEF Tasi
<1>5. CASE Yokla(p)
    BY <1>5 DEF Yokla, GeriKoy, Gecir, Atla
<1>6. CASE Kaldir(p)
    BY <1>6 DEF Kaldir, GeriKoy, Gecir, Atla
<1>7. CASE Isaretle(p)
    <2>1. temiz[p].b \in Yedek
        BY <1>7 DEF Isaretle
    <2>2. yerelYok' \subseteq Yedek
        BY <1>7, <2>1 DEF Isaretle
    <2>3. Atla(p)
        BY <1>7 DEF Isaretle
    <2>4. UNCHANGED <<silinecek, kilit, kullanimVars>>
        BY <1>7 DEF Isaretle
    <2> QED
        BY <1>0, <1>7, <2>2, <2>3, <2>4, AtlaKayit DEF Isaretle, TemizKayit
<1>8. CASE TemizlikBitti(p)
    BY <1>8 DEF TemizlikBitti, Durgun, KilitBos
<1> QED
    BY <1>1, <1>2, <1>3, <1>4, <1>5, <1>6, <1>7, <1>8 DEF Temizlik

LEMMA YTipKorunur == YTip /\ TypeOK' /\ [YNext]_tumVars => YTip'
<1> SUFFICES ASSUME YTip, TypeOK', [YNext]_tumVars PROVE YTip'
    OBVIOUS
<1> USE TemizleyiciVarsayim
    DEF YTip, YTypeOK, TemizDurumu, TemizAdim, GeriAdim, temizVars, kullanimVars, geriVars, yVars
<1>0. temiz \in [Temizleyici -> TemizKayit]
    BY DEF TemizKayit
<1>1. CASE YIsci \/ TemizliksizBitti
    BY <1>1 DEF YIsci, TemizliksizBitti
<1>2. CASE IsciTemizler
    <2>1. ayar.yerelTut \in Nat
        BY AyarVarsayim DEF TypeOK, Ayar
    <2>2. /\ temiz'["isci"].adim = "listele"
          /\ \A q \in Temizleyici \ {"isci"} : temiz'[q] = temiz[q]
          /\ temiz' \in [Temizleyici -> TemizKayit]
        BY <1>0, <1>2, <2>1, BaslarKayit DEF IsciTemizler
    <2> QED
        BY <1>2, <2>2 DEF IsciTemizler, KilitBos, TemizKayit
<1>3. CASE ApiTemizler
    <2>1. ayar.yerelTut \in Nat
        BY AyarVarsayim DEF TypeOK, Ayar
    <2>2. /\ temiz'["api"].adim = "kilit"
          /\ \A q \in Temizleyici \ {"api"} : temiz'[q] = temiz[q]
          /\ temiz' \in [Temizleyici -> TemizKayit]
        BY <1>0, <1>3, <2>1, BaslarKayit DEF ApiTemizler
    <2> QED
        BY <1>3, <2>2 DEF ApiTemizler, TemizKayit
<1>4. CASE ApiKilitler
    BY <1>4 DEF ApiKilitler, Gecir, KilitBos
<1>5. ASSUME NEW p \in Temizleyici, Temizlik(p) PROVE YTip'
    BY <1>5, TemizlikTip
<1>6. ASSUME NEW tur \in Uretici, YedekBasla(tur) PROVE YTip'
    BY <1>6, UreticiVarsayim DEF YedekBasla
<1>7. CASE YedekBiter
    BY <1>7 DEF YedekBiter
<1>8. ASSUME NEW b \in Yedek, YedekOlusur(b) PROVE YTip'
    BY <1>8 DEF YedekOlusur
<1>9. ASSUME NEW r \in GeriIstek, GeriAdimi(r) PROVE YTip'
    <2>1. geri' \in [GeriIstek -> GeriKayit] /\ ilerleme' \in BOOLEAN
        BY <1>9, GeriTuru DEF GeriKayit
    <2>2. UNCHANGED <<temizVars, uretim, isGeri, isSatir, isKayit, isIptal, durdur>>
        BY <1>9 DEF GeriAdimi, GeriBasla, GeriAc, GeriBulur, GeriOkudu, GeriBiter
    <2> QED
        BY <2>1, <2>2 DEF GeriKayit
<1>10. ASSUME NEW b \in Yedek, IsGeriBasla(b) PROVE YTip'
    BY <1>10 DEF IsGeriBasla
<1>11. ASSUME NEW b \in Yedek, YIstek(b) PROVE YTip'
    BY <1>11 DEF YIstek
<1>12. ASSUME NEW b \in Yedek, SureDoldu(b), UNCHANGED yVars PROVE YTip'
    BY <1>12
<1>13. CASE AyarDegistir /\ UNCHANGED yVars
    BY <1>13
<1>16. CASE IsGeriKaydet
    BY <1>16 DEF IsGeriKaydet
<1>17. CASE IsGeriBulur
    BY <1>17 DEF IsGeriBulur
<1>18. CASE IsGeriBiter
    BY <1>18 DEF IsGeriBiter, GeriYok
<1>19. CASE JobDurdur
    <2>1. durdur' \in Nat
        BY <1>19 DEF JobDurdur
    <2> QED
        BY <1>19, <2>1 DEF JobDurdur
<1>20. CASE YCoku
    <2>1. /\ UNCHANGED <<silinecek, yerelYok, isSatir, durdur>>
          /\ kilit' = KilitBos /\ uretim' = "yok" /\ ilerleme' = FALSE
          /\ geri' = [r \in GeriIstek |-> GeriYok]
          /\ isGeri' = GeriYok /\ isKayit' = FALSE /\ isIptal' = FALSE
          /\ temiz' = [p \in Temizleyici |-> Durgun]
        BY <1>20 DEF YCoku
    <2> QED
        BY <2>1 DEF Durgun, GeriYok, KilitBos
<1>21. CASE YAcilis
    BY <1>21 DEF YAcilis
<1>22. CASE UNCHANGED tumVars
    BY <1>22 DEF tumVars
<1> QED
    BY <1>1, <1>2, <1>3, <1>4, <1>5, <1>6, <1>7, <1>8, <1>9, <1>10, <1>11, <1>12, <1>13,
       <1>16, <1>17, <1>18, <1>19, <1>20, <1>21, <1>22 DEF YNext, GeriAdimi

\* All that is proved of the queue, the types here, and the two facts about files.
YInv == SaklamaInv /\ YTip /\ DosyaDurumu

LEMMA YBaslar == YInit => YInv
<1>1. YInit => DosyaDurumu
    BY DEF YInit, Init, DosyaDurumu
<1> QED
    BY <1>1, YTipBaslar, SaklamaBaslar DEF YInit, YInv

-----------------------------------------------------------------------------
(***************************************************************************)
(* Where the archives are.                                                 *)
(***************************************************************************)
\* Only KuyrugaAl opens a row, and it has seen the backup's own row.
LEMMA SatirVardi ==
    ASSUME SaklamaInv, [Next]_vars, NEW b \in Yedek, durum'[b] # SatirYok
    PROVE  durum[b] # SatirYok \/ yedek[b] = "var"
<1> DEFINE Hedef == durum[b] # SatirYok \/ yedek[b] = "var"
<1> SUFFICES Hedef
    OBVIOUS
<1>0. Bos \notin Yedek
    BY DEF Bos, Yedek
<1> USE <1>0 DEF SaklamaInv, KopyaInv, TipInv, TypeOK, IsTutulur, IsDurumu, SaklamaDurumu,
                 satirVars, adVars, driveVars, isciVars, yerelVars, sinirVars, IsAdimi, SaklamaAdimi, Adim, Yarim, SatirYok
<1>1. CASE IsAl \/ Basla
    BY <1>1 DEF IsAl, Basla, Hazir
<1>2. CASE Isle
    BY <1>2 DEF Isle, Sifrele, Yukle, Dogrula, ManifestYaz, Tamamla
<1>3. CASE SaklaListele \/ SaklaVeriSil \/ SaklaManifestSil \/ SaklamaSon
    BY <1>3 DEF SaklaListele, SaklaVeriSil, SaklaManifestSil, SaklamaSon
<1>4. CASE Sonuclandir \/ YerelBitti
    BY <1>4 DEF Sonuclandir, Basarisiz, YerelBitti
<1>5. CASE Coku \/ Acilis \/ AyarDegistir
    BY <1>5 DEF Coku, Acilis, AyarDegistir
<1>6. ASSUME NEW c \in Yedek, YedekAl(c) \/ YerelDegisir(c) \/ Istek(c) \/ SureDoldu(c) PROVE Hedef
    BY <1>6 DEF YedekAl, YerelDegisir, Istek, SilIste, KayitSil, KuyrugaAl, KokYedegi, YenidenDene,
                IptalEt, SureDoldu
<1>7. CASE UNCHANGED vars
    BY <1>7 DEF vars
<1>8. CASE SaklaSec
    BY <1>8 DEF SaklaSec, KalanKopya
<1> QED
    BY <1>1, <1>2, <1>3, <1>4, <1>5, <1>6, <1>7, <1>8 DEF Next, KuyrukNext, Bir, SaklamaUygula

\* A backup that was taken stays taken.
LEMMA AlinanKalir ==
    ASSUME TypeOK, [Next]_vars, NEW b \in Yedek, yedek[b] # "yok"
    PROVE  yedek'[b] # "yok"
<1> DEFINE Hedef == yedek'[b] # "yok"
<1> SUFFICES Hedef
    OBVIOUS
<1> USE DEF TypeOK, yerelVars
<1>1. CASE Bir
    BY <1>1 DEF Bir, IsAl, Basla, Isle, Sifrele, Yukle, Dogrula, ManifestYaz, Tamamla, SaklamaUygula,
                SaklaListele, SaklaSec, SaklaVeriSil, SaklaManifestSil, SaklamaSon, Sonuclandir,
                YerelBitti
<1>2. CASE Coku \/ Acilis \/ AyarDegistir
    BY <1>2 DEF Coku, Acilis, AyarDegistir
<1>3. ASSUME NEW c \in Yedek, YedekAl(c) \/ YerelDegisir(c) \/ Istek(c) \/ SureDoldu(c) PROVE Hedef
    BY <1>3 DEF YedekAl, YerelDegisir, Istek, SilIste, KayitSil, KuyrugaAl, YenidenDene, IptalEt,
                SureDoldu
<1>4. CASE UNCHANGED vars
    BY <1>4 DEF vars
<1> QED
    BY <1>1, <1>2, <1>3, <1>4 DEF Next, KuyrukNext

\* A deletion is asked for by a request (or a pruning), carried out by it, and
\* forgotten in a crash: the worker and its cleaner ask for none.
LEMMA IsteyenAdim ==
    ASSUME [Next]_vars
    PROVE  UNCHANGED silIstek \/ Coku \/ \E b \in Yedek : SilIste(b) \/ KayitSil(b)
BY DEF Next, KuyrukNext, Bir, IsAl, Basla, Isle, Sifrele, Yukle, Dogrula, ManifestYaz, Tamamla, SaklamaUygula,
       SaklaListele, SaklaSec, SaklaVeriSil, SaklaManifestSil, SaklamaSon, Sonuclandir, YerelBitti,
       Acilis, AyarDegistir, YedekAl, YerelDegisir, Istek, KuyrugaAl, YenidenDene, IptalEt, SureDoldu,
       vars, yerelVars

\* Which steps touch an archive: a backup run, a deletion of the row, and the
\* cleaner that holds the lock.
LEMMA DosyaAdimi ==
    ASSUME YInv, [YNext]_tumVars
    PROVE  \/ UNCHANGED <<dosya, silinecek>>
           \/ \E b \in Yedek : YedekAl(b) /\ UNCHANGED silinecek
           \/ \E b \in Yedek : KayitSil(b) /\ UNCHANGED silinecek
           \/ \E p \in Temizleyici : Tasi(p) \/ Yokla(p) \/ Kaldir(p)
<1> DEFINE Hedef == \/ UNCHANGED <<dosya, silinecek>>
                    \/ \E b \in Yedek : YedekAl(b) /\ UNCHANGED silinecek
                    \/ \E b \in Yedek : KayitSil(b) /\ UNCHANGED silinecek
                    \/ \E p \in Temizleyici : Tasi(p) \/ Yokla(p) \/ Kaldir(p)
<1> SUFFICES Hedef
    OBVIOUS
<1> USE DEF yerelVars, temizVars, yVars
<1>1. CASE YIsci \/ TemizliksizBitti
    BY <1>1 DEF YIsci, TemizliksizBitti, IsAl, Basla, Isle, Sifrele, Yukle, Dogrula, ManifestYaz,
                Tamamla, SaklamaUygula, SaklaListele, SaklaSec, SaklaVeriSil, SaklaManifestSil,
                SaklamaSon, Sonuclandir, YerelBitti
<1>2. CASE IsciTemizler \/ ApiTemizler \/ ApiKilitler
    BY <1>2 DEF IsciTemizler, ApiTemizler, ApiKilitler, vars
<1>3. ASSUME NEW p \in Temizleyici, Temizlik(p) PROVE Hedef
    BY <1>3 DEF Temizlik, Listele, Sec, UzakDogrula, Isaretle, TemizlikBitti, YerelBitti, vars
<1>4. ASSUME NEW tur \in Uretici, YedekBasla(tur) PROVE Hedef
    BY <1>4 DEF YedekBasla, vars
<1>5. ASSUME NEW b \in Yedek, YedekOlusur(b) PROVE Hedef
    BY <1>5 DEF YedekOlusur
<1>6. ASSUME NEW b \in Yedek, IsGeriBasla(b) PROVE Hedef
    BY <1>6 DEF IsGeriBasla, vars
<1>7. ASSUME NEW b \in Yedek, YIstek(b) PROVE Hedef
    BY <1>7 DEF YIstek, Istek, SilIste, KuyrugaAl, YenidenDene, IptalEt
<1>8. ASSUME NEW b \in Yedek, SureDoldu(b), UNCHANGED yVars PROVE Hedef
    BY <1>8 DEF SureDoldu
<1>9. CASE AyarDegistir /\ UNCHANGED yVars
    BY <1>9 DEF AyarDegistir
<1>10. CASE YedekBiter \/ \E r \in GeriIstek : GeriAdimi(r)
    BY <1>10 DEF YedekBiter, GeriAdimi, GeriBasla, GeriAc, GeriBulur, GeriOkudu, GeriBiter, vars
<1>11. CASE IsGeriKaydet \/ IsGeriBulur \/ IsGeriBiter \/ JobDurdur
    BY <1>11 DEF IsGeriKaydet, IsGeriBulur, IsGeriBiter, JobDurdur, vars
<1>12. CASE YCoku \/ YAcilis
    BY <1>12 DEF YCoku, YAcilis, Coku, Acilis
<1>13. CASE UNCHANGED tumVars
    BY <1>13 DEF tumVars, vars
<1> QED
    BY <1>1, <1>2, <1>3, <1>4, <1>5, <1>6, <1>7, <1>8, <1>9, <1>10, <1>11, <1>12, <1>13
       DEF YNext, GeriAdimi

LEMMA DosyaKorunur == YInv /\ [YNext]_tumVars => DosyaDurumu'
<1> SUFFICES ASSUME YInv, [YNext]_tumVars PROVE DosyaDurumu'
    OBVIOUS
<1>1. [Next]_vars
    BY YAdimKuyrukAdimi
<1>2. \A b \in Yedek : yedek[b] # "yok" => yedek'[b] # "yok"
    BY <1>1, AlinanKalir DEF YInv, YTip, YTypeOK
<1>3. \A b \in Yedek : durum'[b] # SatirYok => yedek'[b] # "yok"
    BY <1>1, <1>2, SatirVardi DEF YInv, DosyaDurumu
<1>8. \A b \in Yedek : b \in silIstek' => yedek'[b] # "yok"
    <2>1. \A b \in Yedek : b \in silIstek => yedek[b] # "yok"
        BY DEF YInv, DosyaDurumu
    <2>2. CASE UNCHANGED silIstek \/ Coku
        BY <1>2, <2>1, <2>2 DEF Coku
    <2>3. ASSUME NEW b \in Yedek, SilIste(b) \/ KayitSil(b)
          PROVE  \A c \in Yedek : c \in silIstek' => yedek'[c] # "yok"
        BY <1>2, <2>1, <2>3 DEF SilIste, KayitSil, yerelVars
    <2> QED
        BY <1>1, <2>2, <2>3, IsteyenAdim
<1> USE <1>8 DEF YInv, YTip, YTypeOK, TypeOK, DosyaDurumu
<1>4. CASE UNCHANGED <<dosya, silinecek>>
    BY <1>2, <1>3, <1>4
<1>5. ASSUME NEW b \in Yedek, YedekAl(b), UNCHANGED silinecek PROVE DosyaDurumu'
    BY <1>2, <1>3, <1>5 DEF YedekAl
<1>6. ASSUME NEW b \in Yedek, KayitSil(b), UNCHANGED silinecek PROVE DosyaDurumu'
    BY <1>2, <1>3, <1>6 DEF KayitSil
<1>7. ASSUME NEW p \in Temizleyici, Tasi(p) \/ Yokla(p) \/ Kaldir(p) PROVE DosyaDurumu'
    <2>1. temiz[p].b \in Yedek
        BY <1>7 DEF TemizDurumu, Tasi, Yokla, Kaldir
    <2>2. CASE Tasi(p)
        BY <1>2, <1>3, <2>1, <2>2 DEF Tasi, YerelDegisir, vars, yerelVars
    <2>3. CASE Yokla(p) \/ Kaldir(p)
        <3>1. temiz[p].b \in silinecek
            BY <2>3 DEF TemizDurumu, Yokla, Kaldir
        <3>2. CASE UNCHANGED vars
            BY <1>2, <1>3, <2>3, <3>2 DEF Yokla, Kaldir, GeriKoy, YerelDegisir, vars, yerelVars
        <3>3. CASE YerelDegisir(temiz[p].b)
            BY <1>2, <1>3, <2>1, <2>3, <3>1, <3>3 DEF Yokla, Kaldir, GeriKoy, YerelDegisir, vars, yerelVars
        <3> QED
            BY <2>3, <3>2, <3>3 DEF Yokla, Kaldir, GeriKoy
    <2> QED
        BY <1>7, <2>2, <2>3
<1> QED
    BY <1>4, <1>5, <1>6, <1>7, DosyaAdimi

LEMMA YKorunur == YInv /\ [YNext]_tumVars => YInv'
<1> SUFFICES ASSUME YInv, [YNext]_tumVars PROVE YInv'
    OBVIOUS
<1>1. SaklamaInv'
    BY YAdimKuyrukAdimi, SaklamaKorunur DEF YInv
<1>2. TypeOK'
    BY <1>1 DEF SaklamaInv, KopyaInv, TipInv
<1>3. YTip'
    BY <1>2, YTipKorunur DEF YInv
<1> QED
    BY <1>1, <1>3, DosyaKorunur DEF YInv

\* With any cleaners, backup runs and restores, whatever fails or crashes, the
\* state stays in its type (YTypeOK): a cleaner that touches an archive has
\* chosen one.
THEOREM YTipDogru == YSpec => []YTypeOK
<1>1. YInv => YTypeOK
    BY DEF YInv, YTip
<1> QED
    BY YBaslar, YKorunur, <1>1, PTL DEF YSpec

\* What is proved of the queue and of retention also holds beside the cleaners,
\* in whatever folders the attempts put their objects: a row 'tamam' has a whole
\* copy, a row 'silindi' nothing under the name it records, the newest copy stays
\* and a cancellation is final (TamamSaglam, SilindiTemiz, SonKopyaKorunur,
\* IptalKesin).
THEOREM KuyrukSozuYerelde ==
    YSpec => []TamamSaglam /\ []SilindiTemiz /\ SonKopyaKorunur /\ IptalKesin
BY YerelKuyruguUygular, TamamSaglamDogru, SilindiTemizDogru, SonKopyaKorunurDogru,
   IptalKesinDogru, PTL

-----------------------------------------------------------------------------
(***************************************************************************)
(* The worker cleans alone: no archive goes without its copy.              *)
(***************************************************************************)
\* The worker cleans between two jobs, so nobody takes the copy it has seen on
\* Drive while it is at work.
IsciTemizDurumu ==
    \A p \in Temizleyici :
        /\ temiz[p].adim # "bos" => adim \in {"yerel", "bos"}
        /\ temiz[p].adim \in {"tasi", "yokla", "kaldir", "isaretle"} => DriveTamam(temiz[p].b)

\* The worker's state and the copies do not change while the cleaner is at work,
\* but for a crash, and then the cleaner is gone too.
LEMMA IsciDurur ==
    ASSUME YInv, IsciTemizDurumu, [YNext]_tumVars, Temizleyici \subseteq {"isci"},
           NEW p \in Temizleyici, temiz[p].adim # "bos", temiz'[p].adim # "bos"
    PROVE  /\ adim' = adim
           /\ \A b \in Yedek : durum[b] = "tamam" => durum'[b] = "tamam"
           /\ UNCHANGED adVars
<1> DEFINE Hedef == /\ adim' = adim
                    /\ \A b \in Yedek : durum[b] = "tamam" => durum'[b] = "tamam"
                    /\ UNCHANGED adVars
<1> SUFFICES Hedef
    OBVIOUS
<1>0. p = "isci" /\ IsciMesgul /\ adim \in {"yerel", "bos"}
    BY DEF IsciMesgul, IsciTemizDurumu
<1> USE DEF YInv, YTip, YTypeOK, TypeOK, isciVars, satirVars, adVars, vars
<1>1. CASE YIsci \/ TemizliksizBitti
    BY <1>0, <1>1 DEF YIsci, TemizliksizBitti
<1>2. CASE IsciTemizler \/ ApiTemizler \/ ApiKilitler
    BY <1>2 DEF IsciTemizler, ApiTemizler, ApiKilitler
<1>3. ASSUME NEW q \in Temizleyici, Temizlik(q) PROVE Hedef
    <2>1. ~TemizlikBitti(q)
        BY <1>0 DEF TemizlikBitti, Durgun
    <2> QED
        BY <1>3, <2>1 DEF Temizlik, Listele, Sec, UzakDogrula, Isaretle, Tasi, Yokla, Kaldir, GeriKoy,
                          YerelDegisir
<1>4. ASSUME NEW tur \in Uretici, YedekBasla(tur) PROVE Hedef
    BY <1>4 DEF YedekBasla
<1>5. ASSUME NEW b \in Yedek, YedekOlusur(b) PROVE Hedef
    BY <1>5 DEF YedekOlusur, YedekAl
<1>6. ASSUME NEW b \in Yedek, IsGeriBasla(b) PROVE Hedef
    BY <1>6 DEF IsGeriBasla
<1>7. ASSUME NEW b \in Yedek, YIstek(b) PROVE Hedef
    BY <1>7 DEF YIstek, Istek, SilIste, KayitSil, KuyrugaAl, YenidenDene, IptalEt, SatirYok
<1>8. ASSUME NEW b \in Yedek, SureDoldu(b), UNCHANGED yVars PROVE Hedef
    BY <1>8 DEF SureDoldu
<1>9. CASE AyarDegistir /\ UNCHANGED yVars
    BY <1>9 DEF AyarDegistir
<1>10. CASE YedekBiter \/ \E r \in GeriIstek : GeriAdimi(r)
    BY <1>10 DEF YedekBiter, GeriAdimi, GeriBasla, GeriAc, GeriBulur, GeriOkudu, GeriBiter
<1>11. CASE IsGeriKaydet \/ IsGeriBulur \/ IsGeriBiter \/ JobDurdur
    BY <1>11 DEF IsGeriKaydet, IsGeriBulur, IsGeriBiter, JobDurdur
<1>12. CASE YCoku
    BY <1>12 DEF YCoku, Durgun
<1>13. CASE YAcilis
    BY <1>0, <1>13 DEF YAcilis, Acilis
<1>14. CASE UNCHANGED tumVars
    BY <1>14 DEF tumVars
<1> QED
    BY <1>1, <1>2, <1>3, <1>4, <1>5, <1>6, <1>7, <1>8, <1>9, <1>10, <1>11, <1>12, <1>13, <1>14
       DEF YNext, GeriAdimi

\* Which steps change what a cleaner knows.
LEMMA TemizAdimi ==
    ASSUME [YNext]_tumVars
    PROVE  \/ UNCHANGED temiz
           \/ IsciTemizler \/ ApiTemizler \/ ApiKilitler
           \/ \E p \in Temizleyici : Temizlik(p)
           \/ YCoku
BY DEF YNext, tumVars, yVars, temizVars, YIsci, TemizliksizBitti, YedekBasla, YedekBiter, YedekOlusur,
       GeriBasla, GeriAc, GeriBulur, GeriOkudu, GeriBiter, IsGeriBasla, IsGeriKaydet, IsGeriBulur, IsGeriBiter, JobDurdur,
       YIstek, YAcilis

LEMMA IsciTemizKorunur ==
    ASSUME YInv, IsciTemizDurumu, [YNext]_tumVars, Temizleyici \subseteq {"isci"}
    PROVE  IsciTemizDurumu'
<1> SUFFICES ASSUME NEW p \in Temizleyici, temiz'[p].adim # "bos"
             PROVE  /\ adim' \in {"yerel", "bos"}
                    /\ temiz'[p].adim \in {"tasi", "yokla", "kaldir", "isaretle"} =>
                          DriveTamam(temiz[p].b)'
    BY DEF IsciTemizDurumu
<1>0. temiz \in [Temizleyici -> TemizKayit] /\ p = "isci"
    BY DEF YInv, YTip, YTypeOK, TemizKayit
<1>1. temiz'[p].adim \in {"tasi", "yokla", "kaldir", "isaretle"} => temiz'[p].b \in Yedek
    BY YKorunur DEF YInv, YTip, TemizDurumu
<1>2. CASE temiz[p].adim = "bos"
    <2>1. IsciTemizler
        <3>1. ASSUME NEW q \in Temizleyici, Temizlik(q) PROVE FALSE
            BY <1>0, <1>2, <3>1 DEF Temizlik, Listele, Sec, UzakDogrula, Tasi, Yokla, Kaldir, Isaretle,
               TemizlikBitti
        <3>2. ~(ApiTemizler \/ ApiKilitler)
            BY DEF ApiTemizler, ApiKilitler
        <3>3. ~YCoku /\ temiz' # temiz
            BY <1>2 DEF YCoku, Durgun
        <3> QED
            BY <3>1, <3>2, <3>3, TemizAdimi
    <2>2. temiz'[p].adim = "listele" /\ adim' = adim /\ adim \in {"yerel", "bos"}
        <3>1. ayar.yerelTut \in Nat
            BY AyarVarsayim DEF YInv, YTip, YTypeOK, TypeOK, Ayar
        <3>2. temiz'[p].adim = "listele"
            BY <1>0, <2>1, <3>1, BaslarKayit DEF IsciTemizler, TemizAdim
        <3> QED
            BY <2>1, <3>2 DEF IsciTemizler, vars, isciVars
    <2> QED
        BY <2>2
<1>3. CASE temiz[p].adim # "bos"
    <2>1. /\ adim' = adim
          /\ \A b \in Yedek : durum[b] = "tamam" => durum'[b] = "tamam"
          /\ UNCHANGED adVars
        BY <1>3, IsciDurur
    <2>4. ASSUME NEW b \in Yedek, DriveTamam(b) PROVE DriveTamam(b)'
        BY <2>1, <2>4 DEF DriveTamam, AdlarBizim, adVars
    <2>2. adim \in {"yerel", "bos"}
        BY <1>3 DEF IsciTemizDurumu
    <2>3. temiz'[p].adim \in {"tasi", "yokla", "kaldir", "isaretle"} =>
             \A b \in Yedek : temiz'[p].b = b => DriveTamam(b)
        <3>1. CASE UNCHANGED temiz
            BY <3>1 DEF IsciTemizDurumu
        <3>2. CASE IsciTemizler \/ ApiTemizler \/ ApiKilitler
            BY <1>0, <1>3, <3>2 DEF IsciTemizler, ApiTemizler, ApiKilitler
        <3>3. CASE YCoku
            BY <3>3 DEF YCoku, Durgun
        <3>4. CASE Listele(p)
            BY <1>0, <3>4, ListeleKayit
        <3>5. CASE Sec(p)
            BY <1>0, <3>5 DEF Sec, TemizKayit
        <3>6. CASE UzakDogrula(p)
            BY <1>0, <3>6, AtlaKayit DEF UzakDogrula, Gecir, TemizKayit
        <3>7. CASE Tasi(p) \/ Yokla(p) \/ Kaldir(p)
            BY <1>0, <3>7, AtlaKayit DEF Tasi, Yokla, Kaldir, Gecir, TemizKayit, IsciTemizDurumu
        <3>8. CASE Isaretle(p)
            BY <1>0, <3>8, AtlaKayit DEF Isaretle
        <3>9. CASE TemizlikBitti(p)
            BY <1>0, <3>9 DEF TemizlikBitti, Durgun
        <3> QED
            BY <1>0, <3>1, <3>2, <3>3, <3>4, <3>5, <3>6, <3>7, <3>8, <3>9, TemizAdimi DEF Temizlik
    <2> QED
        <3>1. ASSUME temiz'[p].adim \in {"tasi", "yokla", "kaldir", "isaretle"}
              PROVE  DriveTamam(temiz[p].b)'
            <4>1. PICK b \in Yedek : b = temiz'[p].b
                BY <1>1, <3>1
            <4>2. DriveTamam(b)'
                BY <2>3, <2>4, <3>1, <4>1
            <4> QED
                BY <4>1, <4>2 DEF DriveTamam, AdlarBizim
        <3> QED
            BY <2>1, <2>2, <3>1
<1> QED
    BY <1>2, <1>3

\* What a step takes from the disk for good, only the cleaner's os.Remove takes.
LEMMA KaldiranAdim ==
    ASSUME YInv, [YNext]_tumVars, NEW b \in Kaldirilan
    PROVE  \E p \in Temizleyici : /\ Kaldir(p) /\ temiz[p].b = b
                                  /\ UNCHANGED vars
<1> USE DEF Kaldirilan, YInv, YTip, YTypeOK, TypeOK
<1>1. PICK p \in Temizleyici : Tasi(p) \/ Yokla(p) \/ Kaldir(p)
    BY DosyaAdimi
<1>2. ~Tasi(p)
    BY DEF Tasi
<1>3. b \in Yedek /\ b \notin dosya
    BY DEF DosyaDurumu
<1>4. ASSUME GeriKoy(temiz[p].b) PROVE FALSE
    BY <1>3, <1>4 DEF GeriKoy, YerelDegisir
<1>5. Kaldir(p) /\ silinecek' = silinecek \ {temiz[p].b} /\ UNCHANGED vars
    BY <1>1, <1>2, <1>4 DEF Yokla, Kaldir
<1> QED
    BY <1>5

\* Where only the worker cleans, an archive is removed while its verified copy
\* stands on Drive, under the name its row records, at that very moment
\* (YerelKopyasizSilinmez), although the name is made anew at every attempt.  With the
\* administrator's cleaning run beside the worker this fails: run yerel_yaris.
THEOREM YerelKopyasizSilinmezDogru ==
    ASSUME Temizleyici \subseteq {"isci"}
    PROVE  YSpec => YerelKopyasizSilinmez
<1>1. YInit => YInv /\ IsciTemizDurumu
    BY YBaslar DEF YInit, IsciTemizDurumu, Durgun
<1>2. YInv /\ IsciTemizDurumu /\ [YNext]_tumVars => (YInv /\ IsciTemizDurumu)'
    BY YKorunur, IsciTemizKorunur
<1>3. YInv /\ IsciTemizDurumu /\ [YNext]_tumVars =>
         [\A b \in Kaldirilan :
             DriveTamam(b) /\ veri[UzakAdi(b)] = "saglam" /\ UzakAdi(b) \in manifest]_tumVars
    <2> SUFFICES ASSUME YInv, IsciTemizDurumu, [YNext]_tumVars, NEW b \in Kaldirilan
                 PROVE  DriveTamam(b) /\ veri[UzakAdi(b)] = "saglam" /\ UzakAdi(b) \in manifest
        OBVIOUS
    <2>1. PICK p \in Temizleyici : Kaldir(p) /\ temiz[p].b = b
        BY KaldiranAdim
    <2>2. DriveTamam(b) /\ b \in Yedek
        BY <2>1 DEF Kaldir, IsciTemizDurumu, YInv, YTip, TemizDurumu
    <2> QED
        BY <2>2 DEF YInv, SaklamaInv, KopyaInv, TamamSaglam, DriveTamam, AdlarBizim, UzakAdi
<1> QED
    BY <1>1, <1>2, <1>3, PTL DEF YSpec, YerelKopyasizSilinmez

-----------------------------------------------------------------------------
(***************************************************************************)
(* No archive goes under a restore.                                        *)
(***************************************************************************)
\* A cleaner comes to its os.Remove only through the second look, which found
\* the archive unused.
LEMMA KaldiraGelir ==
    ASSUME YInv, [YNext]_tumVars, NEW p \in Temizleyici, temiz'[p].adim = "kaldir"
    PROVE  \/ temiz[p].adim = "kaldir" /\ temiz'[p].b = temiz[p].b
           \/ UNCHANGED kullanimVars /\ ~ilerleme /\ ~isSatir
<1>0. temiz \in [Temizleyici -> TemizKayit]
    BY DEF YInv, YTip, YTypeOK, TemizKayit
<1>1. CASE UNCHANGED temiz
    BY <1>1
<1>2. CASE IsciTemizler
    <2>1. ayar.yerelTut \in Nat
        BY AyarVarsayim DEF YInv, YTip, YTypeOK, TypeOK, Ayar
    <2>2. temiz'["isci"].adim = "listele" /\ \A q \in Temizleyici \ {"isci"} : temiz'[q] = temiz[q]
        BY <1>0, <1>2, <2>1, BaslarKayit DEF IsciTemizler, TemizAdim
    <2> QED
        BY <2>2
<1>3. CASE ApiTemizler
    <2>1. ayar.yerelTut \in Nat
        BY AyarVarsayim DEF YInv, YTip, YTypeOK, TypeOK, Ayar
    <2>2. temiz'["api"].adim = "kilit" /\ \A q \in Temizleyici \ {"api"} : temiz'[q] = temiz[q]
        BY <1>0, <1>3, <2>1, BaslarKayit DEF ApiTemizler, TemizAdim
    <2> QED
        BY <2>2
<1>4. CASE ApiKilitler
    <2>1. temiz'["api"].adim = "listele" /\ \A q \in Temizleyici \ {"api"} : temiz'[q] = temiz[q]
        BY <1>0, <1>4, GecirKayit DEF ApiKilitler, TemizAdim
    <2> QED
        BY <2>1
<1>5. CASE YCoku
    BY <1>5 DEF YCoku, Durgun
<1>6. ASSUME NEW q \in Temizleyici, Temizlik(q), q # p PROVE temiz'[p] = temiz[p]
    BY <1>0, <1>6, ListeleKayit, AtlaKayit DEF Temizlik, Listele, Sec, UzakDogrula, Tasi, Yokla,
       Kaldir, Isaretle, TemizlikBitti, Gecir
<1>7. CASE Temizlik(p)
    <2>1. ~Listele(p) /\ ~Isaretle(p)
        BY <1>0, ListeleKayit, AtlaKayit DEF Isaretle
    <2>2. ~Sec(p)
        BY <1>0 DEF Sec, TemizKayit
    <2>3. ~UzakDogrula(p)
        BY <1>0, AtlaKayit DEF UzakDogrula, Gecir, TemizKayit
    <2>4. ~Tasi(p) /\ ~Kaldir(p)
        BY <1>0, AtlaKayit DEF Tasi, Kaldir, Gecir, TemizKayit
    <2>5. ~TemizlikBitti(p)
        BY <1>0 DEF TemizlikBitti, Durgun
    <2>6. Yokla(p)
        BY <1>7, <2>1, <2>2, <2>3, <2>4, <2>5 DEF Temizlik
    <2>7. ~Kullanimda(temiz[p].b)
        BY <1>0, <2>6, AtlaKayit DEF Yokla
    <2> QED
        BY <2>6, <2>7 DEF Yokla, Kullanimda
<1> QED
    BY <1>1, <1>2, <1>3, <1>4, <1>5, <1>6, <1>7, TemizAdimi

\* A restore request comes to its reading only where it found the archive at its
\* name.
LEMMA OkumayaGelir ==
    ASSUME YInv, [YNext]_tumVars, NEW r \in GeriIstek, geri'[r].adim = "oku"
    PROVE  /\ geri'[r].b = geri[r].b
           /\ geri[r].adim = "oku" \/ geri[r].b \in dosya
<1>0. geri \in [GeriIstek -> GeriKayit]
    BY DEF YInv, YTip, YTypeOK, GeriKayit
<1>1. CASE UNCHANGED geri
    BY <1>1
<1>2. ASSUME NEW s \in GeriIstek, GeriAdimi(s)
      PROVE  /\ geri'[r].b = geri[r].b
             /\ geri[r].adim = "oku" \/ geri[r].b \in dosya
    <2>1. CASE \E b \in Yedek : GeriBasla(s, b)
        BY <1>0, <2>1 DEF GeriBasla
    <2>2. CASE GeriAc(s)
        BY <1>0, <2>2, GeriGecer DEF GeriAc, GeriAdim
    <2>3. CASE GeriBulur(s)
        BY <1>0, <2>3, GeriGecer DEF GeriBulur, GeriAdim
    <2>4. CASE GeriOkudu(s)
        BY <1>0, <2>4, GeriGecer DEF GeriOkudu, GeriAdim
    <2>5. CASE GeriBiter(s)
        BY <1>0, <2>5 DEF GeriBiter, GeriYok
    <2> QED
        BY <1>2, <2>1, <2>2, <2>3, <2>4, <2>5 DEF GeriAdimi
<1>3. CASE YCoku
    BY <1>3 DEF YCoku, GeriYok
<1>4. UNCHANGED geri \/ YCoku \/ \E s \in GeriIstek : GeriAdimi(s)
    BY DEF YNext, GeriAdimi, tumVars, yVars, kullanimVars, geriVars, YIsci, TemizliksizBitti,
           IsciTemizler, ApiTemizler, ApiKilitler, Temizlik, Listele, Sec, UzakDogrula, Tasi, Yokla,
           Kaldir, Isaretle, TemizlikBitti, YedekBasla, YedekBiter, YedekOlusur, IsGeriBasla,
           IsGeriKaydet, IsGeriBulur, IsGeriBiter, JobDurdur, YIstek, YAcilis
<1> QED
    BY <1>1, <1>2, <1>3, <1>4

\* So does the restore job, and its row was opened before.
LEMMA IsOkumayaGelir ==
    ASSUME YInv, [YNext]_tumVars, isGeri'.adim = "oku", isSatir'
    PROVE  /\ isGeri'.b = isGeri.b
           /\ (isGeri.adim = "oku" /\ isSatir) \/ isGeri.b \in dosya
<1> DEFINE Hedef == /\ isGeri'.b = isGeri.b
                    /\ (isGeri.adim = "oku" /\ isSatir) \/ isGeri.b \in dosya
<1> SUFFICES Hedef
    OBVIOUS
<1>0. isGeri \in GeriKayit
    BY DEF YInv, YTip, YTypeOK, GeriKayit
<1>1. CASE UNCHANGED <<isGeri, isSatir>>
    BY <1>1
<1>2. CASE \E b \in Yedek : IsGeriBasla(b)
    BY <1>2 DEF IsGeriBasla
<1>3. CASE IsGeriKaydet
    BY <1>0, <1>3 DEF IsGeriKaydet, GeriKayit
<1>4. CASE IsGeriBulur
    BY <1>0, <1>4 DEF IsGeriBulur, GeriKayit
<1>5. CASE IsGeriBiter \/ YCoku \/ YAcilis
    BY <1>5 DEF IsGeriBiter, YCoku, YAcilis, GeriYok
<1>6. CASE JobDurdur
    BY <1>6 DEF JobDurdur
<1>7. \/ UNCHANGED <<isGeri, isSatir>>
      \/ \E b \in Yedek : IsGeriBasla(b)
      \/ IsGeriKaydet \/ IsGeriBulur \/ IsGeriBiter \/ JobDurdur \/ YCoku \/ YAcilis
    BY DEF YNext, GeriAdimi, GeriBasla, GeriAc, GeriBulur, GeriOkudu, GeriBiter, tumVars, yVars,
           kullanimVars, geriVars, YIsci, TemizliksizBitti,
           IsciTemizler, ApiTemizler, ApiKilitler, Temizlik, Listele, Sec, UzakDogrula, Tasi, Yokla,
           Kaldir, Isaretle, TemizlikBitti, YedekBasla, YedekBiter, YedekOlusur, YIstek
<1> QED
    BY <1>1, <1>2, <1>3, <1>4, <1>5, <1>6, <1>7

\* What a cleaner is about to remove the restore job is not reading: its open row
\* would have been seen, and since then the archive is not at its name.
IsOkumaDurumu ==
    \A p \in Temizleyici :
        temiz[p].adim = "kaldir" =>
            ~(isGeri.adim = "oku" /\ isGeri.b = temiz[p].b /\ isSatir)

LEMMA IsOkumaKorunur ==
    ASSUME YInv, IsOkumaDurumu, [YNext]_tumVars
    PROVE  IsOkumaDurumu'
<1> SUFFICES ASSUME NEW p \in Temizleyici, temiz'[p].adim = "kaldir",
                    isGeri'.adim = "oku", isGeri'.b = temiz'[p].b, isSatir'
             PROVE  FALSE
    BY DEF IsOkumaDurumu
<1>1. CASE temiz[p].adim = "kaldir" /\ temiz'[p].b = temiz[p].b
    <2>1. temiz[p].b \notin dosya
        BY <1>1 DEF YInv, YTip, TemizDurumu, DosyaDurumu
    <2> QED
        BY <1>1, <2>1, IsOkumayaGelir DEF IsOkumaDurumu
<1>2. CASE UNCHANGED kullanimVars /\ ~ilerleme /\ ~isSatir
    BY <1>2 DEF kullanimVars, geriVars
<1> QED
    BY <1>1, <1>2, KaldiraGelir

\* No archive is removed while the restore job whose row is open reads it
\* (IsOkunanSilinmez): for any cleaners, backup runs and restore requests beside
\* it, through crashes and failed renames.
THEOREM IsOkunanSilinmezDogru == YSpec => IsOkunanSilinmez
<1>1. YInit => YInv /\ IsOkumaDurumu
    BY YBaslar DEF YInit, IsOkumaDurumu, Durgun
<1>2. YInv /\ IsOkumaDurumu /\ [YNext]_tumVars => (YInv /\ IsOkumaDurumu)'
    BY YKorunur, IsOkumaKorunur
<1>3. YInv /\ IsOkumaDurumu /\ [YNext]_tumVars =>
         [\A b \in Kaldirilan : ~(isGeri.adim = "oku" /\ isGeri.b = b /\ isSatir)]_tumVars
    <2> SUFFICES ASSUME YInv, IsOkumaDurumu, [YNext]_tumVars, NEW b \in Kaldirilan
                 PROVE  ~(isGeri.adim = "oku" /\ isGeri.b = b /\ isSatir)
        OBVIOUS
    <2>1. PICK p \in Temizleyici : Kaldir(p) /\ temiz[p].b = b
        BY KaldiranAdim
    <2> QED
        BY <2>1 DEF Kaldir, IsOkumaDurumu
<1> QED
    BY <1>1, <1>2, <1>3, PTL DEF YSpec, IsOkunanSilinmez

\* A request that looks for its archive, or reads it, has the domain's progress
\* record open: nobody else has closed it.
KayitAcik ==
    /\ uretim # "manuel"
    /\ \A r \in GeriIstek : geri[r].adim \in {"hazirla", "oku"} => ilerleme

LEMMA KayitAcikKalir ==
    ASSUME YInv, KayitAcik, [YNext]_tumVars, "manuel" \notin Uretici,
           \A r, s \in GeriIstek : r = s
    PROVE  KayitAcik'
<1>0. geri \in [GeriIstek -> GeriKayit]
    BY DEF YInv, YTip, YTypeOK, GeriKayit
<1>1. CASE UNCHANGED <<uretim, ilerleme, geri>>
    BY <1>1 DEF KayitAcik
<1>2. ASSUME NEW tur \in Uretici, YedekBasla(tur) PROVE KayitAcik'
    BY <1>2 DEF YedekBasla, KayitAcik, geriVars
<1>3. CASE YedekBiter
    BY <1>3 DEF YedekBiter, KayitAcik, geriVars
<1>4. ASSUME NEW s \in GeriIstek, GeriAdimi(s) PROVE KayitAcik'
    <2>0. UNCHANGED uretim /\ GeriIstek = {s}
        BY <1>4 DEF GeriAdimi, GeriBasla, GeriAc, GeriBulur, GeriOkudu, GeriBiter
    <2>1. CASE \E b \in Yedek : GeriBasla(s, b)
        BY <1>0, <2>0, <2>1 DEF GeriBasla, KayitAcik
    <2>2. CASE GeriAc(s)
        BY <2>0, <2>2 DEF GeriAc, KayitAcik
    <2>3. CASE GeriBulur(s)
        BY <2>0, <2>3 DEF GeriBulur, KayitAcik
    <2>4. CASE GeriOkudu(s)
        BY <1>0, <2>0, <2>4, GeriGecer DEF GeriOkudu, KayitAcik, GeriAdim
    <2>5. CASE GeriBiter(s)
        BY <1>0, <2>0, <2>5 DEF GeriBiter, GeriYok, KayitAcik
    <2> QED
        BY <1>4, <2>1, <2>2, <2>3, <2>4, <2>5 DEF GeriAdimi
<1>5. CASE YCoku
    BY <1>5 DEF YCoku, GeriYok, KayitAcik
<1>6. \/ UNCHANGED <<uretim, ilerleme, geri>>
      \/ \E tur \in Uretici : YedekBasla(tur)
      \/ YedekBiter \/ YCoku
      \/ \E s \in GeriIstek : GeriAdimi(s)
    BY DEF YNext, GeriAdimi, tumVars, yVars, kullanimVars, geriVars, YIsci, TemizliksizBitti,
           IsciTemizler, ApiTemizler, ApiKilitler, Temizlik, Listele, Sec, UzakDogrula, Tasi, Yokla,
           Kaldir, Isaretle, TemizlikBitti, YedekOlusur, IsGeriBasla,
           IsGeriKaydet, IsGeriBulur, IsGeriBiter, JobDurdur, YIstek, YAcilis
<1> QED
    BY <1>1, <1>2, <1>3, <1>4, <1>5, <1>6

\* ... and what a cleaner is about to remove no request is reading.
OkumaDurumu ==
    \A p \in Temizleyici, r \in GeriIstek :
        temiz[p].adim = "kaldir" => ~(geri[r].adim = "oku" /\ geri[r].b = temiz[p].b)

LEMMA OkumaKorunur ==
    ASSUME YInv, KayitAcik, OkumaDurumu, [YNext]_tumVars
    PROVE  OkumaDurumu'
<1> SUFFICES ASSUME NEW p \in Temizleyici, NEW r \in GeriIstek, temiz'[p].adim = "kaldir",
                    geri'[r].adim = "oku", geri'[r].b = temiz'[p].b
             PROVE  FALSE
    BY DEF OkumaDurumu
<1>1. CASE temiz[p].adim = "kaldir" /\ temiz'[p].b = temiz[p].b
    <2>1. temiz[p].b \notin dosya
        BY <1>1 DEF YInv, YTip, TemizDurumu, DosyaDurumu
    <2> QED
        BY <1>1, <2>1, OkumayaGelir DEF OkumaDurumu
<1>2. CASE UNCHANGED kullanimVars /\ ~ilerleme /\ ~isSatir
    BY <1>2 DEF kullanimVars, geriVars, KayitAcik
<1> QED
    BY <1>1, <1>2, KaldiraGelir

\* No archive is removed while a restore request reads it (OkunanSilinmez), where
\* nobody else closes the progress record the request has opened: no manual
\* backup run occurs and no second restore was let in between the check of the
\* record and its opening.  Without the first hypothesis it fails in the run
\* yerel_okuma; without the second, two requests are enough.
THEOREM OkunanSilinmezDogru ==
    ASSUME "manuel" \notin Uretici,
           \A r, s \in GeriIstek : r = s
    PROVE  YSpec => OkunanSilinmez
<1>1. YInit => YInv /\ KayitAcik /\ OkumaDurumu
    BY YBaslar DEF YInit, KayitAcik, OkumaDurumu, Durgun, GeriYok
<1>2. YInv /\ KayitAcik /\ OkumaDurumu /\ [YNext]_tumVars => (YInv /\ KayitAcik /\ OkumaDurumu)'
    BY YKorunur, KayitAcikKalir, OkumaKorunur
<1>3. YInv /\ OkumaDurumu /\ [YNext]_tumVars =>
         [\A b \in Kaldirilan, r \in GeriIstek : ~(geri[r].adim = "oku" /\ geri[r].b = b)]_tumVars
    <2> SUFFICES ASSUME YInv, OkumaDurumu, [YNext]_tumVars, NEW b \in Kaldirilan, NEW r \in GeriIstek
                 PROVE  ~(geri[r].adim = "oku" /\ geri[r].b = b)
        OBVIOUS
    <2>1. PICK p \in Temizleyici : Kaldir(p) /\ temiz[p].b = b
        BY KaldiranAdim
    <2> QED
        BY <2>1 DEF Kaldir, OkumaDurumu
<1> QED
    BY <1>1, <1>2, <1>3, PTL DEF YSpec, OkunanSilinmez

-----------------------------------------------------------------------------
(***************************************************************************)
(* The system keeps the promise of YedekSozlesme.                          *)
(***************************************************************************)
\* Where a backup is kept, as Sozlesme maps it.
YerOf(b) == (IF b \in dosya \cup silinecek THEN {"yerel"} ELSE {})
            \cup (IF durum[b] = "tamam" THEN {"drive"} ELSE {})

\* A verified copy comes with Tamamla and goes with SaklaSec, and with nothing else.
LEMMA TamamAdimi ==
    ASSUME SaklamaInv, [Next]_vars
    PROVE  Tamamla \/ SaklaSec \/ \A b \in Yedek : durum'[b] = "tamam" <=> durum[b] = "tamam"
<1> DEFINE Hedef == \A b \in Yedek : durum'[b] = "tamam" <=> durum[b] = "tamam"
<1> SUFFICES ASSUME ~Tamamla, ~SaklaSec PROVE Hedef
    OBVIOUS
<1>0. Bos \notin Yedek
    BY DEF Bos, Yedek
<1> USE <1>0 DEF SaklamaInv, KopyaInv, TipInv, TypeOK, IsTutulur, IsDurumu, SaklamaDurumu, satirVars,
                 adVars, IsAdimi, SaklamaAdimi, Adim, Yarim, SatirYok
<1>1. CASE IsAl \/ Basla
    BY <1>1 DEF IsAl, Basla, Hazir
<1>2. CASE Isle
    BY <1>2 DEF Isle, Sifrele, Yukle, Dogrula, ManifestYaz
<1>3. CASE SaklamaUygula
    BY <1>3 DEF SaklamaUygula, SaklaListele, SaklaVeriSil, SaklaManifestSil, SaklamaSon
<1>4. CASE Sonuclandir \/ YerelBitti
    BY <1>4 DEF Sonuclandir, Basarisiz, YerelBitti
<1>5. CASE Coku \/ Acilis \/ AyarDegistir
    BY <1>5 DEF Coku, Acilis, AyarDegistir
<1>6. ASSUME NEW c \in Yedek, YedekAl(c) \/ YerelDegisir(c) \/ Istek(c) \/ SureDoldu(c) PROVE Hedef
    BY <1>6 DEF YedekAl, YerelDegisir, Istek, SilIste, KayitSil, KuyrugaAl, YenidenDene, IptalEt,
                SureDoldu
<1>7. CASE UNCHANGED vars
    BY <1>7 DEF vars
<1> QED
    BY <1>1, <1>2, <1>3, <1>4, <1>5, <1>6, <1>7 DEF Next, KuyrukNext, Bir

\* Only a backup run adds a backup, and its archive with it.
LEMMA AlinanAdimi ==
    ASSUME YInv, [Next]_vars, UNCHANGED dosya
    PROVE  \A b \in Yedek : yedek'[b] # "yok" <=> yedek[b] # "yok"
<1> DEFINE Hedef == \A b \in Yedek : yedek'[b] # "yok" <=> yedek[b] # "yok"
<1> SUFFICES Hedef
    OBVIOUS
<1> USE DEF YInv, YTip, YTypeOK, TypeOK, yerelVars
<1>1. CASE Bir
    BY <1>1 DEF Bir, IsAl, Basla, Isle, Sifrele, Yukle, Dogrula, ManifestYaz, Tamamla, SaklamaUygula,
                SaklaListele, SaklaSec, SaklaVeriSil, SaklaManifestSil, SaklamaSon, Sonuclandir,
                YerelBitti
<1>2. CASE Coku \/ Acilis \/ AyarDegistir
    BY <1>2 DEF Coku, Acilis, AyarDegistir
<1>3. ASSUME NEW c \in Yedek, YerelDegisir(c) \/ Istek(c) \/ SureDoldu(c), ~KayitSil(c) PROVE Hedef
    BY <1>3 DEF YerelDegisir, Istek, SilIste, KuyrugaAl, YenidenDene, IptalEt, SureDoldu
<1>6. ASSUME NEW c \in Yedek, KayitSil(c) PROVE Hedef
    <2>1. yedek[c] # "yok"
        BY <1>6 DEF KayitSil, DosyaDurumu
    <2>2. yedek' = yedek \/ yedek' = [yedek EXCEPT ![c] = "silinmis"]
        BY <1>6 DEF KayitSil
    <2> QED
        BY <2>1, <2>2
<1>4. ASSUME NEW c \in Yedek, YedekAl(c) PROVE Hedef
    BY <1>4 DEF YedekAl, DosyaDurumu
<1>5. CASE UNCHANGED vars
    BY <1>5 DEF vars
<1> QED
    BY <1>1, <1>2, <1>3, <1>4, <1>5, <1>6 DEF Next, KuyrukNext

LEMMA SozlesmeBaslar == YInit => Sozlesme!SozlesmeInit
BY DEF YInit, Init, SatirYok, Sozlesme!SozlesmeInit

\* The steps of the abstract specification, through the mapping: one backup's
\* places change and the others' do not.
LEMMA BirYer ==
    ASSUME NEW b \in Yedek, NEW X, YerOf(b)' = X,
           \A c \in Yedek \ {b} : YerOf(c)' = YerOf(c)
    PROVE  [c \in Yedek |-> YerOf(c)]' = [[c \in Yedek |-> YerOf(c)] EXCEPT ![b] = X]
OBVIOUS

LEMMA AyniYer ==
    ASSUME \A b \in Yedek : yedek'[b] # "yok" <=> yedek[b] # "yok",
           \A b \in Yedek : YerOf(b)' = YerOf(b),
           UNCHANGED silIstek
    PROVE  UNCHANGED Sozlesme!sozlesmeVars
<1>1. {b \in Yedek : yedek[b] # "yok"}' = {b \in Yedek : yedek[b] # "yok"}
    OBVIOUS
<1>2. [c \in Yedek |-> YerOf(c)]' = [c \in Yedek |-> YerOf(c)]
    OBVIOUS
<1> QED
    BY <1>1, <1>2 DEF Sozlesme!sozlesmeVars, YerOf

\* The deletion somebody asked for: its own archive goes, or nothing does.
LEMMA KayitSilUyar ==
    ASSUME YInv, NEW b \in Yedek, KayitSil(b), UNCHANGED silinecek
    PROVE  Sozlesme!KullaniciSil(b)
<1> DEFINE Yer == [c \in Yedek |-> YerOf(c)]
           Alinan == {c \in Yedek : yedek[c] # "yok"}
<1>0. TypeOK
    BY DEF YInv, YTip, YTypeOK
<1>1. \A c \in Yedek : yedek'[c] # "yok" <=> yedek[c] # "yok"
    <2>1. CASE yedek' = yedek
        BY <2>1
    <2>2. CASE yedek' = [yedek EXCEPT ![b] = "silinmis"]
        <3>1. yedek[b] # "yok"
            BY DEF KayitSil, YInv, DosyaDurumu
        <3> QED
            BY <1>0, <2>2, <3>1 DEF TypeOK
    <2> QED
        BY <2>1, <2>2 DEF KayitSil
<1>2. Alinan' = Alinan
    BY <1>1
<1>3. \A c \in Yedek \ {b} : YerOf(c)' = YerOf(c)
    BY DEF KayitSil, YerOf, satirVars
<1>4. b \in silIstek /\ silIstek' = silIstek \ {b}
    BY DEF KayitSil
<1>5. CASE b \in silinecek \/ dosya' = dosya
    <2>1. YerOf(b)' = YerOf(b)
        BY <1>5 DEF KayitSil, YerOf, satirVars
    <2>2. Yer' = Yer
        BY <1>3, <2>1
    <2> QED
        BY <1>2, <1>4, <2>2 DEF Sozlesme!KullaniciSil, YerOf
<1>6. CASE b \notin silinecek /\ dosya' = dosya \ {b}
    <2>1. YerOf(b)' = YerOf(b) \ {"yerel"}
        BY <1>6 DEF KayitSil, YerOf, satirVars
    <2>2. Yer' = [Yer EXCEPT ![b] = @ \ {"yerel"}]
        BY <1>3, <2>1, BirYer
    <2> QED
        BY <1>2, <1>4, <2>2 DEF Sozlesme!KullaniciSil, YerOf
<1> QED
    BY <1>5, <1>6 DEF KayitSil

LEMMA SozlesmeAdimi ==
    ASSUME YInv, IsciTemizDurumu, [YNext]_tumVars, Temizleyici \subseteq {"isci"}
    PROVE  [Sozlesme!SozlesmeNext]_(Sozlesme!sozlesmeVars)
<1> DEFINE Yer == [c \in Yedek |-> YerOf(c)]
           Alinan == {c \in Yedek : yedek[c] # "yok"}
           Hedef == [Sozlesme!SozlesmeNext]_(Sozlesme!sozlesmeVars)
<1> SUFFICES Hedef
    OBVIOUS
<1>0. [Next]_vars /\ SaklamaInv /\ TypeOK
    BY YAdimKuyrukAdimi DEF YInv, YTip, YTypeOK
<1>1. CASE UNCHANGED <<dosya, silinecek>>
    <2>0. \A b \in Yedek : yedek'[b] # "yok" <=> yedek[b] # "yok"
        BY <1>0, <1>1, AlinanAdimi
    <2>1. Alinan' = Alinan
        BY <2>0
    <2>5. CASE Coku
        <3>1. Yer' = Yer /\ silIstek' = {}
            BY <1>1, <2>5 DEF Coku, YerOf, satirVars
        <3>2. Sozlesme!Unut
            BY <2>1, <3>1 DEF Sozlesme!Unut, YerOf
        <3> QED
            BY <3>2 DEF Sozlesme!SozlesmeNext
    <2>6. ASSUME NEW b \in Yedek, SilIste(b) PROVE Hedef
        <3>1. Yer' = Yer /\ silIstek' = silIstek \cup {b} /\ b \in Alinan
            BY <1>1, <2>6 DEF SilIste, YerOf, satirVars
        <3>2. Sozlesme!Iste(b)
            BY <2>1, <3>1 DEF Sozlesme!Iste, YerOf
        <3> QED
            BY <3>2 DEF Sozlesme!SozlesmeNext
    <2>7. ASSUME NEW b \in Yedek, KayitSil(b) PROVE Hedef
        BY <1>1, <2>7, KayitSilUyar DEF Sozlesme!SozlesmeNext
    <2>8. SUFFICES ASSUME UNCHANGED silIstek PROVE Hedef
        BY <1>0, <2>5, <2>6, <2>7, IsteyenAdim
    <2>2. CASE Tamamla
        <3>1. is \in Yedek /\ durum[is] \in Yarim
            BY <1>0, <2>2 DEF Tamamla, TypeOK, SaklamaInv, KopyaInv, TipInv, IsTutulur, IsDurumu, IsAdimi
        <3>2. CASE UNCHANGED durum
            BY <1>1, <2>0, <2>8, <3>2, AyniYer DEF YerOf
        <3>3. CASE durum' = [durum EXCEPT ![is] = "tamam"]
            <4>0. PICK b \in Yedek : b = is
                BY <3>1
            <4>1. YerOf(b)' = YerOf(b) \cup {"drive"}
                BY <1>0, <1>1, <3>3, <4>0 DEF YerOf, TypeOK
            <4>2. \A c \in Yedek \ {b} : YerOf(c)' = YerOf(c)
                BY <1>0, <1>1, <3>3, <4>0 DEF YerOf, TypeOK
            <4>3. Yer' = [Yer EXCEPT ![b] = @ \cup {"drive"}]
                BY <4>1, <4>2, BirYer
            <4>4. b \in Alinan
                BY <3>1, <4>0 DEF YInv, DosyaDurumu, Yarim, SatirYok
            <4>5. Sozlesme!Gonder(b)
                BY <2>1, <2>8, <4>3, <4>4 DEF Sozlesme!Gonder, YerOf
            <4> QED
                BY <4>5 DEF Sozlesme!SozlesmeNext
        <3> QED
            BY <2>2, <3>2, <3>3 DEF Tamamla
    <2>3. CASE SaklaSec
        <3>1. PICK b \in adaylar : durum' = [durum EXCEPT ![b] = "siliniyor"] \/ UNCHANGED durum
            BY <2>3 DEF SaklaSec
        <3>2. b \in Yedek
            BY <1>0, <3>1 DEF TypeOK
        <3>3. CASE durum[b] = "tamam" /\ durum' = [durum EXCEPT ![b] = "siliniyor"]
            <4>1. PICK c \in Yedek \ adaylar : durum[c] = "tamam" /\ isNo[c] > isNo[b]
                BY <1>0, <2>3, <3>1, <3>3 DEF SaklaSec, SaklamaInv, KalanKopya, SaklamaAdimi
            <4>2. c \in Yedek \ {b} /\ "drive" \in YerOf(c)
                BY <3>1, <4>1 DEF YerOf
            <4>3. YerOf(b)' = YerOf(b) \ {"drive"}
                BY <1>0, <1>1, <3>2, <3>3 DEF YerOf, TypeOK
            <4>4. \A d \in Yedek \ {b} : YerOf(d)' = YerOf(d)
                BY <1>0, <1>1, <3>2, <3>3 DEF YerOf, TypeOK
            <4>5. Yer' = [Yer EXCEPT ![b] = @ \ {"drive"}]
                BY <3>2, <4>3, <4>4, BirYer
            <4>6. Sozlesme!DriveBosalt(b)
                BY <2>1, <2>8, <4>2, <4>5 DEF Sozlesme!DriveBosalt, YerOf
            <4> QED
                BY <3>2, <4>6 DEF Sozlesme!SozlesmeNext
        <3>4. CASE ~(durum[b] = "tamam" /\ durum' = [durum EXCEPT ![b] = "siliniyor"])
            <4>1. \A c \in Yedek : YerOf(c)' = YerOf(c)
                BY <1>0, <1>1, <3>1, <3>2, <3>4 DEF YerOf, TypeOK
            <4> QED
                BY <2>0, <2>8, <4>1, AyniYer
        <3> QED
            BY <3>3, <3>4
    <2>4. CASE \A b \in Yedek : durum'[b] = "tamam" <=> durum[b] = "tamam"
        <3>1. \A b \in Yedek : YerOf(b)' = YerOf(b)
            BY <1>1, <2>4 DEF YerOf
        <3> QED
            BY <2>0, <2>8, <3>1, AyniYer
    <2> QED
        BY <1>0, <2>2, <2>3, <2>4, TamamAdimi
<1>2. ASSUME NEW b \in Yedek, YedekAl(b), UNCHANGED silinecek PROVE Hedef
    <2>1. b \notin Alinan /\ Alinan' = Alinan \cup {b}
        BY <1>0, <1>2 DEF YedekAl, TypeOK
    <2>2. YerOf(b)' = {"yerel"}
        BY <1>0, <1>2 DEF YedekAl, YerOf, satirVars, YInv, DosyaDurumu, SatirYok
    <2>3. \A c \in Yedek \ {b} : YerOf(c)' = YerOf(c)
        BY <1>2 DEF YedekAl, YerOf, satirVars
    <2>4. Yer' = [Yer EXCEPT ![b] = {"yerel"}]
        BY <2>2, <2>3, BirYer
    <2>5. Sozlesme!Olustur(b)
        BY <1>2, <2>1, <2>4 DEF Sozlesme!Olustur, YerOf, YedekAl
    <2> QED
        BY <2>5 DEF Sozlesme!SozlesmeNext
<1>3. ASSUME NEW b \in Yedek, KayitSil(b), UNCHANGED silinecek PROVE Hedef
    BY <1>3, KayitSilUyar DEF Sozlesme!SozlesmeNext
<1>4. ASSUME NEW p \in Temizleyici, Tasi(p) \/ Yokla(p) \/ Kaldir(p) PROVE Hedef
    <2>0. PICK b \in Yedek : b = temiz[p].b
        BY <1>4 DEF YInv, YTip, TemizDurumu, Tasi, Yokla, Kaldir
    <2>1. UNCHANGED <<yedek, durum, silIstek>>
        BY <1>4 DEF Tasi, Yokla, Kaldir, GeriKoy, YerelDegisir, vars, yerelVars, satirVars
    <2>2. Alinan' = Alinan
        BY <2>1
    <2>3. CASE b \in dosya' \cup silinecek' <=> b \in dosya \cup silinecek
        <3>1. \A c \in Yedek : c \in dosya' \cup silinecek' <=> c \in dosya \cup silinecek
            BY <1>4, <2>0, <2>3 DEF Tasi, Yokla, Kaldir, GeriKoy, YerelDegisir, vars, yerelVars
        <3> QED
            BY <2>1, <3>1, AyniYer DEF YerOf
    <2>4. CASE ~(b \in dosya' \cup silinecek' <=> b \in dosya \cup silinecek)
        <3>1. b \in silinecek \/ Tasi(p)
            BY <1>4, <2>0 DEF YInv, YTip, TemizDurumu, Yokla, Kaldir
        <3>2. ~Tasi(p)
            BY <2>0, <2>4 DEF Tasi, YerelDegisir, vars, yerelVars
        <3>3. Kaldir(p) /\ UNCHANGED vars /\ silinecek' = silinecek \ {b}
            BY <1>4, <2>0, <2>4, <3>1, <3>2 DEF Yokla, Kaldir, GeriKoy, YerelDegisir, YInv, DosyaDurumu
        <3>4. "drive" \in YerOf(b)
            BY <2>0, <3>3 DEF Kaldir, IsciTemizDurumu, DriveTamam, YerOf
        <3>5. YerOf(b)' = YerOf(b) \ {"yerel"}
            BY <2>4, <3>1, <3>2, <3>3 DEF YerOf, vars, yerelVars, satirVars
        <3>6. \A c \in Yedek \ {b} : YerOf(c)' = YerOf(c)
            BY <3>3 DEF YerOf, vars, yerelVars, satirVars
        <3>7. Yer' = [Yer EXCEPT ![b] = @ \ {"yerel"}]
            BY <3>5, <3>6, BirYer
        <3>8. Sozlesme!YerelBosalt(b)
            BY <2>1, <2>2, <3>4, <3>7 DEF Sozlesme!YerelBosalt, YerOf
        <3> QED
            BY <3>8 DEF Sozlesme!SozlesmeNext
    <2> QED
        BY <2>3, <2>4
<1> QED
    BY <1>1, <1>2, <1>3, <1>4, DosyaAdimi

\* Where only the worker cleans, the whole system, with its retries, crashes,
\* lost writes, retention and local deletion, is an implementation of
\* YedekSozlesme (SozlesmeyeUyar).  An archive that nobody asked to delete goes
\* from the disk only while its copy is on Drive, a request takes the archive it
\* was made for and no other, and Drive is never emptied.
THEOREM SozlesmeyeUyarDogru ==
    ASSUME Temizleyici \subseteq {"isci"}
    PROVE  YSpec => SozlesmeyeUyar
<1>1. YInit => YInv /\ IsciTemizDurumu /\ Sozlesme!SozlesmeInit
    BY YBaslar, SozlesmeBaslar DEF YInit, IsciTemizDurumu, Durgun
<1>2. YInv /\ IsciTemizDurumu /\ [YNext]_tumVars => (YInv /\ IsciTemizDurumu)'
    BY YKorunur, IsciTemizKorunur
<1>3. YInv /\ IsciTemizDurumu /\ [YNext]_tumVars
         => [Sozlesme!SozlesmeNext]_(Sozlesme!sozlesmeVars)
    BY SozlesmeAdimi
<1> QED
    BY <1>1, <1>2, <1>3, PTL DEF YSpec, SozlesmeyeUyar, Sozlesme!SozlesmeSpec

=============================================================================
