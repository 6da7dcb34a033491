------------------------- MODULE TasimaKuyrukKanit -------------------------
(***************************************************************************)
(* Proofs about the migration queue, for every set of owners and requests, *)
(* every number of items, tries, jobs and crashes.                         *)
(***************************************************************************)
EXTENDS TasimaKuyruk, TLAPS

-----------------------------------------------------------------------------
(***************************************************************************)
(* The inductive invariant.                                                *)
(***************************************************************************)
\* One request at a time is between its entry into Baslat and its return.
MuTek == \A r \in Istek : istek[r].adim # "bos" => baslatMu = {r}

\* A request that inserts items writes to its own job, and no more than are left.
KalemDurumu ==
    \A r \in Istek : istek[r].adim = "kalem" =>
        /\ istek[r].is \in Is /\ istek[r].is <= sonIs
        /\ bekleyen[istek[r].is] + istek[r].kalan <= KalemSayisi

\* Rows that do not exist yet.
SiraDurumu == \A j \in Is : j > sonIs => durum[j] = "yok" /\ bekleyen[j] = 0

\* Between the count and the insert nobody else opens a job for the owner.
EkleDurumu ==
    \A r \in Istek : istek[r].adim = "ekle" =>
        \A j \in Is : sahip[j] = istek[r].sahip => durum[j] \notin Acik

\* The dispatcher fills the slot only while it is free.
DagitDurumu ==
    /\ dagitan.adim # "bos" => aktif = Yok
    /\ dagitan.adim = "al" => dagitan.is \in Is

\* The goroutine against its row.
IsDurumu ==
    \A j \in Is :
        /\ is[j].adim \in {"yukle", "dongu", "aktar"} => durum[j] = "calisiyor"
        /\ is[j].adim \in {"birak", "sil"} => durum[j] \in Biten
        /\ is[j].adim \in {"dongu", "aktar"} => is[j].kalan <= bekleyen[j]

\* Before AcilistaTemizle is through, nothing else runs.
KapaliDurumu ==
    /\ panel # "acik" =>
        /\ \A r \in Istek : istek[r].adim = "bos"
        /\ cagri = 0 /\ dagitan.adim = "bos" /\ iptalci = {}
        /\ \A j \in Is : is[j].adim = "yok"
    /\ panel = "acilis" => \A j \in Is : durum[j] # "calisiyor"

YapiInv ==
    TypeOK /\ MuTek /\ KalemDurumu /\ SiraDurumu /\ DagitDurumu /\ IsDurumu /\ KapaliDurumu /\ TekYuva
KuyrukInv == YapiInv /\ EkleDurumu /\ SahipTekAcik /\ SahipsizYok /\ KimlikKalmaz

\* The empty records, and records whose step changes, are of their type.
LEMMA BosKayitlar == IstekYok \in IstekKaydi /\ DagitYok \in DagitKaydi /\ IsYok \in IsKaydi
    BY SahipVarsayim, KalemVarsayim, DenemeVarsayim
       DEF IstekYok, DagitYok, IsYok, IstekKaydi, DagitKaydi, IsKaydi

LEMMA IsKaydiAdim ==
    ASSUME NEW k \in IsKaydi, NEW a \in {"yok", "sil"} \cup Yurur
    PROVE  [k EXCEPT !.adim = a] \in IsKaydi
    BY DEF IsKaydi

LEMMA IsKaydiKalan ==
    ASSUME NEW k \in IsKaydi, k.kalan > 0
    PROVE  [k EXCEPT !.adim = "aktar", !.kalan = k.kalan - 1] \in IsKaydi
<1>1. k.kalan - 1 \in 0 .. KalemSayisi
    BY KalemVarsayim DEF IsKaydi
<1> QED
    BY <1>1 DEF IsKaydi, Yurur

LEMMA YapiBaslar == Init => YapiInv
<1> SUFFICES ASSUME Init PROVE YapiInv
    OBVIOUS
<1> USE SahipVarsayim, KalemVarsayim, DenemeVarsayim, SinirVarsayim DEF Init
<1>1. TypeOK
    <2>1. /\ durum \in [Is -> Durum] /\ sahip \in [Is -> Sahip] /\ bekleyen \in [Is -> 0 .. KalemSayisi]
          /\ sonIs \in 0 .. IsSiniri /\ cokme \in 0 .. CokmeSiniri
        BY DEF Durum
    <2>2. istek \in [Istek -> IstekKaydi] /\ dagitan \in DagitKaydi /\ is \in [Is -> IsKaydi]
        BY BosKayitlar
    <2> QED
        BY <2>1, <2>2 DEF TypeOK
<1>2. MuTek /\ KalemDurumu /\ SiraDurumu
    BY DEF MuTek, KalemDurumu, SiraDurumu, IstekYok, Is
<1>3. DagitDurumu /\ IsDurumu /\ KapaliDurumu /\ TekYuva
    BY DEF DagitDurumu, IsDurumu, KapaliDurumu, TekYuva, DagitYok, IsYok, IstekYok, Yurur
<1> QED
    BY <1>1, <1>2, <1>3 DEF YapiInv

LEMMA TipKorunur == YapiInv /\ [Next]_vars => TypeOK'
<1> SUFFICES ASSUME YapiInv, [Next]_vars PROVE TypeOK'
    OBVIOUS
<1>0. Yok \notin Is /\ Kok \in Sahip /\ KalemSayisi \in Nat \ {0} /\ DagitDeneme \in Nat \ {0}
      /\ IsSiniri \in Nat /\ CokmeSiniri \in Nat
    BY SahipVarsayim, KalemVarsayim, DenemeVarsayim, SinirVarsayim DEF Yok, Is
<1> USE <1>0 DEF YapiInv, TypeOK, satirVars, surecVars
<1>1. CASE AcilisKes
    BY <1>1 DEF AcilisKes, Durum, Acik, Biten
<1>2. CASE AcilisTemizle
    BY <1>2 DEF AcilisTemizle, Durum, Acik, Biten
<1>3. CASE Cok
    <2>1. cokme' \in 0 .. CokmeSiniri
        BY <1>3 DEF Cok
    <2>2. istek' \in [Istek -> IstekKaydi] /\ is' \in [Is -> IsKaydi] /\ dagitan' \in DagitKaydi
        BY <1>3, BosKayitlar DEF Cok, Sifirla
    <2> QED
        BY <1>3, <2>1, <2>2 DEF Cok, Sifirla
<1>4. ASSUME NEW o \in Sahip, SahipSil(o) PROVE TypeOK'
    BY <1>4 DEF SahipSil
<1>5. ASSUME NEW r \in Istek, NEW o \in Sahip, Baslat(r, o) PROVE TypeOK'
    <2>1. [IstekYok EXCEPT !.adim = "say", !.sahip = o] \in IstekKaydi
        BY BosKayitlar DEF IstekKaydi
    <2> QED
        BY <1>5, <2>1 DEF Baslat
<1>6. ASSUME NEW r \in Istek, BaslatSay(r) PROVE TypeOK'
    BY <1>6, BosKayitlar DEF BaslatSay, IstekBirak, IstekKaydi, IstekYok
<1>7. ASSUME NEW r \in Istek, BaslatEkle(r) PROVE TypeOK'
    BY <1>7 DEF BaslatEkle, IstekKaydi, Is, Durum, Acik, Biten
<1>8. ASSUME NEW r \in Istek, BaslatKalem(r) PROVE TypeOK'
    BY <1>8 DEF BaslatKalem, IstekKaydi, KalemDurumu
<1>9. ASSUME NEW r \in Istek, BaslatBitir(r) PROVE TypeOK'
    BY <1>9, BosKayitlar DEF BaslatBitir, IstekBirak, IstekKaydi, IstekYok
<1>10. ASSUME NEW js \in SUBSET Is, TopluIptal(js) PROVE TypeOK'
    BY <1>10 DEF TopluIptal, Durum, Acik, Biten, Kuyruktaki
<1>11. CASE DagitBasla
    <2>1. [adim |-> "sec", is |-> Yok, kalan |-> DagitDeneme] \in DagitKaydi
        BY DEF DagitKaydi
    <2>2. dagitan' \in DagitKaydi
        BY <1>11, <2>1, BosKayitlar DEF DagitBasla
    <2>3. cagri' \in Nat
        BY <1>11 DEF DagitBasla
    <2> QED
        BY <1>11, <2>2, <2>3 DEF DagitBasla
<1>12. CASE DagitSec
    <2>1. dagitan' \in DagitKaydi
        BY <1>12, BosKayitlar DEF DagitSec, Vazgec, DagitKaydi
    <2> QED
        BY <1>12, <2>1 DEF DagitSec, Vazgec
<1>13. CASE DagitAl
    <2>1. dagitan' \in DagitKaydi
        BY <1>13, BosKayitlar DEF DagitAl, Vazgec, DagitKaydi
    <2>2. [IsYok EXCEPT !.adim = "yukle"] \in IsKaydi
        BY BosKayitlar, IsKaydiAdim DEF Yurur
    <2>3. durum' \in [Is -> Durum] /\ aktif' \in Is \cup {Yok} /\ is' \in [Is -> IsKaydi]
        BY <1>13, <2>2 DEF DagitAl, DagitDurumu, Durum, Acik
    <2> QED
        BY <1>13, <2>1, <2>3 DEF DagitAl, Vazgec
<1>14. ASSUME NEW j \in Is, Iptal(j) PROVE TypeOK'
    BY <1>14 DEF Iptal
<1>15. ASSUME NEW j \in Is, IptalYaz(j) PROVE TypeOK'
    BY <1>15 DEF IptalYaz, Durum, Acik, Biten
<1>16. ASSUME NEW j \in Is, Yukle(j) PROVE TypeOK'
    <2>1. [is[j] EXCEPT !.adim = "birak"] \in IsKaydi
        BY IsKaydiAdim DEF Yurur
    <2>2. [is[j] EXCEPT !.adim = "dongu", !.kalan = bekleyen[j]] \in IsKaydi
        BY DEF IsKaydi, Yurur
    <2>3. is' \in [Is -> IsKaydi]
        BY <1>16, <2>1, <2>2 DEF Yukle, IsBitir
    <2>4. durum' \in [Is -> Durum] /\ bekleyen' \in [Is -> 0 .. KalemSayisi]
        BY <1>16 DEF Yukle, IsBitir, Durum, Biten
    <2> QED
        BY <1>16, <2>3, <2>4 DEF Yukle
<1>17. ASSUME NEW j \in Is, Dongu(j) PROVE TypeOK'
    <2>1. [is[j] EXCEPT !.adim = "birak"] \in IsKaydi
        BY IsKaydiAdim DEF Yurur
    <2>2. is[j].kalan > 0 =>
              [is[j] EXCEPT !.adim = "aktar", !.kalan = is[j].kalan - 1] \in IsKaydi
        BY IsKaydiKalan DEF IsKaydi
    <2>3. is' \in [Is -> IsKaydi]
        BY <1>17, <2>1, <2>2 DEF Dongu, IsBitir
    <2>4. durum' \in [Is -> Durum]
        BY <1>17 DEF Dongu, IsBitir, Durum, Biten
    <2>5. is[j].kalan \in Nat /\ bekleyen[j] \in 0 .. KalemSayisi
        BY DEF IsKaydi
    <2>6. bekleyen' \in [Is -> 0 .. KalemSayisi]
        BY <1>17, <2>5 DEF Dongu, IsBitir, IsDurumu
    <2> QED
        BY <1>17, <2>3, <2>4, <2>6 DEF Dongu
<1>18. ASSUME NEW j \in Is, Aktar(j) PROVE TypeOK'
    BY <1>18 DEF Aktar, IsBitir, IsKaydi, Yurur, Durum, Acik, Biten
<1>19. ASSUME NEW j \in Is, Panik(j) PROVE TypeOK'
    BY <1>19 DEF Panik, IsKaydi, Yurur, Durum, Acik, Biten
<1>20. ASSUME NEW j \in Is, YuvaBirak(j) PROVE TypeOK'
    <2>1. [IsYok EXCEPT !.adim = "sil"] \in IsKaydi
        BY BosKayitlar, IsKaydiAdim
    <2> QED
        BY <1>20, <2>1 DEF YuvaBirak
<1>21. ASSUME NEW j \in Is, KimlikSil(j) PROVE TypeOK'
    BY <1>21, BosKayitlar DEF KimlikSil, IsKaydi, Yurur, IsYok
<1>22. CASE UNCHANGED vars
    BY <1>22 DEF vars
<1> QED
    BY <1>1, <1>2, <1>3, <1>4, <1>5, <1>6, <1>7, <1>8, <1>9, <1>10, <1>11, <1>12, <1>13, <1>14,
       <1>15, <1>16, <1>17, <1>18, <1>19, <1>20, <1>21, <1>22
       DEF Next, IstekAdimi, Dagit, IsAdimi

\* The part of the invariant about the requests in Baslat.
LEMMA IstekKorunur == YapiInv /\ [Next]_vars => MuTek' /\ KalemDurumu' /\ SiraDurumu'
<1> DEFINE Hedef == MuTek' /\ KalemDurumu' /\ SiraDurumu'
<1> SUFFICES ASSUME YapiInv, [Next]_vars PROVE Hedef
    OBVIOUS
<1>0. Yok \notin Is /\ Kok \in Sahip /\ KalemSayisi \in Nat \ {0} /\ DagitDeneme \in Nat \ {0}
      /\ IsSiniri \in Nat /\ CokmeSiniri \in Nat
    BY SahipVarsayim, KalemVarsayim, DenemeVarsayim, SinirVarsayim DEF Yok, Is
<1> USE <1>0 DEF YapiInv, TypeOK, MuTek, KalemDurumu, SiraDurumu, satirVars, surecVars
<1>1. CASE AcilisKes
    BY <1>1 DEF AcilisKes
<1>2. CASE AcilisTemizle
    BY <1>2 DEF AcilisTemizle, Kuyruktaki
<1>3. CASE Cok
    BY <1>3 DEF Cok, Sifirla, IstekYok
<1>4. ASSUME NEW o \in Sahip, SahipSil(o) PROVE Hedef
    BY <1>4 DEF SahipSil
<1>5. ASSUME NEW r \in Istek, NEW o \in Sahip, Baslat(r, o) PROVE Hedef
    BY <1>5 DEF Baslat, IstekYok
<1>6. ASSUME NEW r \in Istek, BaslatSay(r) PROVE Hedef
    <2>1. baslatMu = {r} /\ \A q \in Istek \ {r} : istek[q].adim = "bos"
        BY <1>6 DEF BaslatSay
    <2>2. \A q \in Istek \ {r} : istek'[q] = istek[q]
        BY <1>6 DEF BaslatSay, IstekBirak
    <2>3. istek'[r].adim = "bos" \/ (istek'[r].adim = "ekle" /\ baslatMu' = baslatMu)
        BY <1>6 DEF BaslatSay, IstekBirak, IstekKaydi, IstekYok
    <2>4. UNCHANGED <<durum, bekleyen, sonIs>>
        BY <1>6 DEF BaslatSay
    <2> QED
        BY <2>1, <2>2, <2>3, <2>4
<1>7. ASSUME NEW r \in Istek, BaslatEkle(r) PROVE Hedef
    BY <1>7 DEF BaslatEkle, IstekKaydi, Is
<1>8. ASSUME NEW r \in Istek, BaslatKalem(r) PROVE Hedef
    <2>1. istek[r].is \in Is /\ istek[r].is <= sonIs /\ istek[r].kalan \in Nat
        BY <1>8 DEF BaslatKalem, IstekKaydi
    <2>2. istek'[r] = [istek[r] EXCEPT !.kalan = istek[r].kalan - 1]
        BY <1>8 DEF BaslatKalem
    <2>3. istek'[r].adim = "kalem" /\ istek'[r].is = istek[r].is /\ istek'[r].kalan = istek[r].kalan - 1
        BY <1>8, <2>2 DEF BaslatKalem, IstekKaydi
    <2>4. \A q \in Istek \ {r} : istek[q].adim = "bos" /\ istek'[q] = istek[q]
        BY <1>8 DEF BaslatKalem
    <2>5. MuTek'
        BY <1>8, <2>3, <2>4 DEF BaslatKalem
    <2>6. bekleyen'[istek[r].is] <= bekleyen[istek[r].is] + 1 /\ bekleyen'[istek[r].is] \in Nat
        BY <1>8, <2>1 DEF BaslatKalem
    <2>7. bekleyen[istek[r].is] + istek[r].kalan <= KalemSayisi /\ bekleyen[istek[r].is] \in Nat
        BY <1>8, <2>1 DEF BaslatKalem
    <2>8. KalemDurumu'
        BY <1>8, <2>1, <2>3, <2>4, <2>6, <2>7 DEF BaslatKalem
    <2>9. \A k \in Is : k > sonIs => bekleyen'[k] = bekleyen[k]
        BY <1>8, <2>1 DEF BaslatKalem, Is
    <2>10. SiraDurumu'
        BY <1>8, <2>9 DEF BaslatKalem
    <2> QED
        BY <2>5, <2>8, <2>10
<1>9. ASSUME NEW r \in Istek, BaslatBitir(r) PROVE Hedef
    BY <1>9 DEF BaslatBitir, IstekBirak, IstekYok
<1>10. ASSUME NEW js \in SUBSET Is, TopluIptal(js) PROVE Hedef
    BY <1>10 DEF TopluIptal, Kuyruktaki
<1>11. CASE DagitBasla
    BY <1>11 DEF DagitBasla
<1>12. CASE DagitSec
    BY <1>12 DEF DagitSec, EnEski, Vazgec
<1>13. CASE DagitAl
    BY <1>13 DEF DagitAl, Vazgec, DagitDurumu
<1>14. ASSUME NEW j \in Is, Iptal(j) PROVE Hedef
    BY <1>14 DEF Iptal
<1>15. ASSUME NEW j \in Is, IptalYaz(j) PROVE Hedef
    <2>1. \A k \in Is : bekleyen[k] \in Nat /\ bekleyen'[k] \in Nat /\ bekleyen'[k] <= bekleyen[k]
        BY <1>15 DEF IptalYaz
    <2>2. \A k \in Is : durum[k] = "yok" => durum'[k] = "yok"
        BY <1>15 DEF IptalYaz
    <2>3. UNCHANGED <<istek, baslatMu, sonIs>>
        BY <1>15 DEF IptalYaz
    <2>4. KalemDurumu'
        <3> SUFFICES ASSUME NEW q \in Istek, istek[q].adim = "kalem"
                     PROVE  /\ istek[q].is \in Is /\ istek[q].is <= sonIs
                            /\ bekleyen'[istek[q].is] + istek[q].kalan <= KalemSayisi
            BY <2>3
        <3>1. istek[q].kalan \in Nat /\ istek[q].is \in Is
            BY DEF IstekKaydi
        <3> QED
            BY <2>1, <3>1
    <2> QED
        BY <2>1, <2>2, <2>3, <2>4
<1>16. ASSUME NEW j \in Is, Yukle(j) PROVE Hedef
    <2>1. \A k \in Is : bekleyen[k] \in Nat /\ bekleyen'[k] \in Nat /\ bekleyen'[k] <= bekleyen[k]
        BY <1>16 DEF Yukle, IsBitir
    <2>2. \A k \in Is : durum[k] = "yok" => durum'[k] = "yok"
        BY <1>16 DEF Yukle, IsBitir, IsDurumu
    <2>3. UNCHANGED <<istek, baslatMu, sonIs>>
        BY <1>16 DEF Yukle
    <2>4. KalemDurumu'
        <3> SUFFICES ASSUME NEW q \in Istek, istek[q].adim = "kalem"
                     PROVE  /\ istek[q].is \in Is /\ istek[q].is <= sonIs
                            /\ bekleyen'[istek[q].is] + istek[q].kalan <= KalemSayisi
            BY <2>3
        <3>1. istek[q].kalan \in Nat /\ istek[q].is \in Is
            BY DEF IstekKaydi
        <3> QED
            BY <2>1, <3>1
    <2> QED
        BY <2>1, <2>2, <2>3, <2>4
<1>17. ASSUME NEW j \in Is, Dongu(j) PROVE Hedef
    <2>1. \A k \in Is : bekleyen[k] \in Nat /\ bekleyen'[k] \in Nat /\ bekleyen'[k] <= bekleyen[k]
        BY <1>17 DEF Dongu, IsBitir, IsDurumu, IsKaydi
    <2>2. \A k \in Is : durum[k] = "yok" => durum'[k] = "yok"
        BY <1>17 DEF Dongu, IsBitir, IsDurumu
    <2>3. UNCHANGED <<istek, baslatMu, sonIs>>
        BY <1>17 DEF Dongu
    <2>4. KalemDurumu'
        <3> SUFFICES ASSUME NEW q \in Istek, istek[q].adim = "kalem"
                     PROVE  /\ istek[q].is \in Is /\ istek[q].is <= sonIs
                            /\ bekleyen'[istek[q].is] + istek[q].kalan <= KalemSayisi
            BY <2>3
        <3>1. istek[q].kalan \in Nat /\ istek[q].is \in Is
            BY DEF IstekKaydi
        <3> QED
            BY <2>1, <3>1
    <2> QED
        BY <2>1, <2>2, <2>3, <2>4
<1>18. ASSUME NEW j \in Is, Aktar(j) PROVE Hedef
    <2>1. \A k \in Is : bekleyen[k] \in Nat /\ bekleyen'[k] \in Nat /\ bekleyen'[k] <= bekleyen[k]
        BY <1>18 DEF Aktar, IsBitir
    <2>2. \A k \in Is : durum[k] = "yok" => durum'[k] = "yok"
        BY <1>18 DEF Aktar, IsBitir, IsDurumu
    <2>3. UNCHANGED <<istek, baslatMu, sonIs>>
        BY <1>18 DEF Aktar
    <2>4. KalemDurumu'
        <3> SUFFICES ASSUME NEW q \in Istek, istek[q].adim = "kalem"
                     PROVE  /\ istek[q].is \in Is /\ istek[q].is <= sonIs
                            /\ bekleyen'[istek[q].is] + istek[q].kalan <= KalemSayisi
            BY <2>3
        <3>1. istek[q].kalan \in Nat /\ istek[q].is \in Is
            BY DEF IstekKaydi
        <3> QED
            BY <2>1, <3>1
    <2> QED
        BY <2>1, <2>2, <2>3, <2>4
<1>19. ASSUME NEW j \in Is, Panik(j) PROVE Hedef
    BY <1>19 DEF Panik, IsDurumu
<1>20. ASSUME NEW j \in Is, YuvaBirak(j) PROVE Hedef
    BY <1>20 DEF YuvaBirak
<1>21. ASSUME NEW j \in Is, KimlikSil(j) PROVE Hedef
    BY <1>21 DEF KimlikSil
<1>22. CASE UNCHANGED vars
    BY <1>22 DEF vars
<1> QED
    BY <1>1, <1>2, <1>3, <1>4, <1>5, <1>6, <1>7, <1>8, <1>9, <1>10, <1>11, <1>12, <1>13, <1>14,
       <1>15, <1>16, <1>17, <1>18, <1>19, <1>20, <1>21, <1>22
       DEF Next, IstekAdimi, Dagit, IsAdimi

\* The part of the invariant about the dispatcher and the jobs it starts.
LEMMA IsKorunur == YapiInv /\ [Next]_vars => DagitDurumu' /\ IsDurumu' /\ KapaliDurumu' /\ TekYuva'
<1> DEFINE Hedef == DagitDurumu' /\ IsDurumu' /\ KapaliDurumu' /\ TekYuva'
<1> SUFFICES ASSUME YapiInv, [Next]_vars PROVE Hedef
    OBVIOUS
<1>0. Yok \notin Is /\ Kok \in Sahip /\ KalemSayisi \in Nat \ {0} /\ DagitDeneme \in Nat \ {0}
      /\ IsSiniri \in Nat /\ CokmeSiniri \in Nat
    BY SahipVarsayim, KalemVarsayim, DenemeVarsayim, SinirVarsayim DEF Yok, Is
<1> USE <1>0 DEF YapiInv, TypeOK, DagitDurumu, IsDurumu, KapaliDurumu, TekYuva, satirVars, surecVars
<1>1. CASE AcilisKes
    BY <1>1 DEF AcilisKes
<1>2. CASE AcilisTemizle
    BY <1>2 DEF AcilisTemizle
<1>3. CASE Cok
    BY <1>3 DEF Cok, Sifirla, IstekYok, DagitYok, IsYok, Yurur
<1>4. ASSUME NEW o \in Sahip, SahipSil(o) PROVE Hedef
    BY <1>4 DEF SahipSil
<1>5. ASSUME NEW r \in Istek, NEW o \in Sahip, Baslat(r, o) PROVE Hedef
    BY <1>5 DEF Baslat, IstekYok
<1>6. ASSUME NEW r \in Istek, BaslatSay(r) PROVE Hedef
    BY <1>6 DEF BaslatSay, IstekBirak
<1>7. ASSUME NEW r \in Istek, BaslatEkle(r) PROVE Hedef
    BY <1>7 DEF BaslatEkle, SiraDurumu, Is, Biten
<1>8. ASSUME NEW r \in Istek, BaslatKalem(r) PROVE Hedef
    <2>1. \A k \in Is : bekleyen[k] \in Nat /\ bekleyen'[k] \in Nat /\ bekleyen'[k] >= bekleyen[k]
        BY <1>8 DEF BaslatKalem
    <2>2. \A k \in Is : is[k].kalan \in Nat
        BY DEF IsKaydi
    <2>3. \A q \in Istek : istek[q].adim = "bos" => istek'[q].adim = "bos"
        BY <1>8 DEF BaslatKalem
    <2>4. UNCHANGED <<durum, panel, cagri, dagitan, aktif, iptalci, is>>
        BY <1>8 DEF BaslatKalem
    <2>5. IsDurumu'
        BY <2>1, <2>2, <2>4
    <2> QED
        BY <2>3, <2>4, <2>5
<1>9. ASSUME NEW r \in Istek, BaslatBitir(r) PROVE Hedef
    BY <1>9 DEF BaslatBitir, IstekBirak, IstekYok
<1>10. ASSUME NEW js \in SUBSET Is, TopluIptal(js) PROVE Hedef
    BY <1>10 DEF TopluIptal, Kuyruktaki, Biten
<1>11. CASE DagitBasla
    BY <1>11 DEF DagitBasla, DagitYok
<1>12. CASE DagitSec
    <2>1. dagitan'.adim = "al" => dagitan'.is \in Is
        <3>1. CASE dagitan' = DagitYok
            BY <3>1 DEF DagitYok
        <3>2. ASSUME NEW j \in Is, dagitan' = [dagitan EXCEPT !.adim = "al", !.is = j]
              PROVE  dagitan'.is \in Is
            BY <3>2 DEF DagitKaydi
        <3> QED
            BY <1>12, <3>1, <3>2 DEF DagitSec, Vazgec
    <2>2. aktif' = Yok /\ panel = "acik"
        BY <1>12 DEF DagitSec
    <2> QED
        BY <1>12, <2>1, <2>2 DEF DagitSec
<1>13. CASE DagitAl
    BY <1>13 DEF DagitAl, Vazgec, DagitYok, DagitKaydi, IsYok, IsKaydi, Biten, Yurur
<1>14. ASSUME NEW j \in Is, Iptal(j) PROVE Hedef
    BY <1>14 DEF Iptal
<1>15. ASSUME NEW j \in Is, IptalYaz(j) PROVE Hedef
    BY <1>15 DEF IptalYaz, Biten, Yurur
<1>16. ASSUME NEW j \in Is, Yukle(j) PROVE Hedef
    BY <1>16 DEF Yukle, IsBitir, IsKaydi, Biten, Yurur
<1>17. ASSUME NEW j \in Is, Dongu(j) PROVE Hedef
    BY <1>17 DEF Dongu, IsBitir, IsKaydi, Biten, Yurur
<1>18. ASSUME NEW j \in Is, Aktar(j) PROVE Hedef
    BY <1>18 DEF Aktar, IsBitir, IsKaydi, Biten, Yurur
<1>19. ASSUME NEW j \in Is, Panik(j) PROVE Hedef
    BY <1>19 DEF Panik, IsKaydi, Biten, Yurur
<1>20. ASSUME NEW j \in Is, YuvaBirak(j) PROVE Hedef
    BY <1>20 DEF YuvaBirak, IsYok, Biten, Yurur, KilitBos
<1>21. ASSUME NEW j \in Is, KimlikSil(j) PROVE Hedef
    BY <1>21 DEF KimlikSil, IsYok, Biten, Yurur
<1>22. CASE UNCHANGED vars
    BY <1>22 DEF vars
<1> QED
    BY <1>1, <1>2, <1>3, <1>4, <1>5, <1>6, <1>7, <1>8, <1>9, <1>10, <1>11, <1>12, <1>13, <1>14,
       <1>15, <1>16, <1>17, <1>18, <1>19, <1>20, <1>21, <1>22
       DEF Next, IstekAdimi, Dagit, IsAdimi

LEMMA YapiKorunur == YapiInv /\ [Next]_vars => YapiInv'
<1> SUFFICES ASSUME YapiInv, [Next]_vars PROVE YapiInv'
    OBVIOUS
<1>1. TypeOK'
    BY TipKorunur
<1>2. MuTek' /\ KalemDurumu' /\ SiraDurumu'
    BY IstekKorunur
<1>3. DagitDurumu' /\ IsDurumu' /\ KapaliDurumu' /\ TekYuva'
    BY IsKorunur
<1> QED
    BY <1>1, <1>2, <1>3 DEF YapiInv

\* In every behaviour, for every number of requests, jobs and crashes, the state
\* stays in its type (TypeOK).
THEOREM TipDogru == Spec => []TypeOK
<1>1. YapiInv => TypeOK
    BY DEF YapiInv
<1> QED
    BY YapiBaslar, YapiKorunur, <1>1, PTL DEF Spec

\* One migration at a time, the one that owns the slot (TekYuva): the dispatcher
\* starts a job only while the slot is free, and the slot is given back by the
\* job that has it.
THEOREM TekYuvaDogru == Spec => []TekYuva
<1>1. YapiInv => TekYuva
    BY DEF YapiInv
<1> QED
    BY YapiBaslar, YapiKorunur, <1>1, PTL DEF Spec

-----------------------------------------------------------------------------
(***************************************************************************)
(* Owners, rows without a goroutine, credentials.                          *)
(***************************************************************************)
LEMMA KuyrukBaslar == Init => KuyrukInv
<1>1. Init => EkleDurumu /\ SahipTekAcik /\ SahipsizYok /\ KimlikKalmaz
    BY DEF Init, EkleDurumu, SahipTekAcik, SahipsizYok, KimlikKalmaz, IstekYok, Acik
<1> QED
    BY <1>1, YapiBaslar DEF KuyrukInv

\* The owner of a new job has no other one.
LEMMA SahipKorunur == KuyrukInv /\ [Next]_vars => EkleDurumu' /\ SahipTekAcik'
<1> DEFINE Hedef == EkleDurumu' /\ SahipTekAcik'
<1> SUFFICES ASSUME KuyrukInv, [Next]_vars PROVE Hedef
    OBVIOUS
<1>0. Yok \notin Is /\ Kok \in Sahip /\ KalemSayisi \in Nat \ {0} /\ DagitDeneme \in Nat \ {0}
      /\ IsSiniri \in Nat /\ CokmeSiniri \in Nat
    BY SahipVarsayim, KalemVarsayim, DenemeVarsayim, SinirVarsayim DEF Yok, Is
<1> USE <1>0 DEF KuyrukInv, YapiInv, TypeOK, EkleDurumu, SahipTekAcik, Acik, satirVars, surecVars
<1>1. CASE AcilisKes
    BY <1>1 DEF AcilisKes
<1>2. CASE AcilisTemizle
    BY <1>2 DEF AcilisTemizle, Kuyruktaki
<1>3. CASE Cok
    BY <1>3 DEF Cok, Sifirla, IstekYok
<1>4. ASSUME NEW o \in Sahip, SahipSil(o) PROVE Hedef
    BY <1>4 DEF SahipSil
<1>5. ASSUME NEW r \in Istek, NEW o \in Sahip, Baslat(r, o) PROVE Hedef
    BY <1>5 DEF Baslat, IstekYok
<1>6. ASSUME NEW r \in Istek, BaslatSay(r) PROVE Hedef
    BY <1>6 DEF BaslatSay, IstekBirak, IstekKaydi, IstekYok
<1>7. ASSUME NEW r \in Istek, BaslatEkle(r) PROVE Hedef
    <2> DEFINE n == sonIs + 1
    <2>1. n \in Is /\ istek[r].sahip \in Sahip
        BY <1>7 DEF BaslatEkle, Is, IstekKaydi
    <2>2. /\ \A k \in Is \ {n} : durum'[k] = durum[k] /\ sahip'[k] = sahip[k]
          /\ sahip'[n] = istek[r].sahip
        BY <1>7, <2>1 DEF BaslatEkle
    <2>3. \A k \in Is \ {n} : sahip[k] = istek[r].sahip => durum[k] \notin Acik
        BY <1>7 DEF BaslatEkle
    <2>4. SahipTekAcik'
        BY <2>1, <2>2, <2>3
    <2>5. \A q \in Istek : istek'[q].adim # "ekle"
        BY <1>7 DEF BaslatEkle, MuTek, IstekKaydi
    <2> QED
        BY <2>4, <2>5
<1>8. ASSUME NEW r \in Istek, BaslatKalem(r) PROVE Hedef
    BY <1>8 DEF BaslatKalem, IstekKaydi
<1>9. ASSUME NEW r \in Istek, BaslatBitir(r) PROVE Hedef
    BY <1>9 DEF BaslatBitir, IstekBirak, IstekYok
<1>10. ASSUME NEW js \in SUBSET Is, TopluIptal(js) PROVE Hedef
    BY <1>10 DEF TopluIptal, Kuyruktaki
<1>11. CASE DagitBasla
    BY <1>11 DEF DagitBasla
<1>12. CASE DagitSec
    BY <1>12 DEF DagitSec, EnEski, Vazgec
<1>13. CASE DagitAl
    BY <1>13 DEF DagitAl, Vazgec, DagitDurumu
<1>14. ASSUME NEW j \in Is, Iptal(j) PROVE Hedef
    BY <1>14 DEF Iptal
<1>15. ASSUME NEW j \in Is, IptalYaz(j) PROVE Hedef
    BY <1>15 DEF IptalYaz
<1>16. ASSUME NEW j \in Is, Yukle(j) PROVE Hedef
    BY <1>16 DEF Yukle, IsBitir, IsDurumu
<1>17. ASSUME NEW j \in Is, Dongu(j) PROVE Hedef
    BY <1>17 DEF Dongu, IsBitir, IsDurumu
<1>18. ASSUME NEW j \in Is, Aktar(j) PROVE Hedef
    BY <1>18 DEF Aktar, IsBitir, IsDurumu
<1>19. ASSUME NEW j \in Is, Panik(j) PROVE Hedef
    BY <1>19 DEF Panik, IsDurumu
<1>20. ASSUME NEW j \in Is, YuvaBirak(j) PROVE Hedef
    BY <1>20 DEF YuvaBirak
<1>21. ASSUME NEW j \in Is, KimlikSil(j) PROVE Hedef
    BY <1>21 DEF KimlikSil
<1>22. CASE UNCHANGED vars
    BY <1>22 DEF vars
<1> QED
    BY <1>1, <1>2, <1>3, <1>4, <1>5, <1>6, <1>7, <1>8, <1>9, <1>10, <1>11, <1>12, <1>13, <1>14,
       <1>15, <1>16, <1>17, <1>18, <1>19, <1>20, <1>21, <1>22
       DEF Next, IstekAdimi, Dagit, IsAdimi

\* No row is left running, and no credentials are left behind.
LEMMA SahipsizKorunur == KuyrukInv /\ [Next]_vars => SahipsizYok' /\ KimlikKalmaz'
<1> DEFINE Hedef == SahipsizYok' /\ KimlikKalmaz'
<1> SUFFICES ASSUME KuyrukInv, [Next]_vars PROVE Hedef
    OBVIOUS
<1>0. Yok \notin Is /\ Kok \in Sahip /\ KalemSayisi \in Nat \ {0} /\ DagitDeneme \in Nat \ {0}
      /\ IsSiniri \in Nat /\ CokmeSiniri \in Nat
    BY SahipVarsayim, KalemVarsayim, DenemeVarsayim, SinirVarsayim DEF Yok, Is
<1> USE <1>0 DEF KuyrukInv, YapiInv, TypeOK, SahipsizYok, KimlikKalmaz, Acik, Yurur, satirVars, surecVars
<1>1. CASE AcilisKes
    BY <1>1 DEF AcilisKes
<1>2. CASE AcilisTemizle
    BY <1>2 DEF AcilisTemizle, Kuyruktaki, KapaliDurumu
<1>3. CASE Cok
    BY <1>3 DEF Cok, Sifirla
<1>4. ASSUME NEW o \in Sahip, SahipSil(o) PROVE Hedef
    BY <1>4 DEF SahipSil
<1>5. ASSUME NEW r \in Istek, NEW o \in Sahip, Baslat(r, o) PROVE Hedef
    BY <1>5 DEF Baslat
<1>6. ASSUME NEW r \in Istek, BaslatSay(r) PROVE Hedef
    BY <1>6 DEF BaslatSay, IstekBirak
<1>7. ASSUME NEW r \in Istek, BaslatEkle(r) PROVE Hedef
    BY <1>7 DEF BaslatEkle, IsDurumu, SiraDurumu, Is, Biten
<1>8. ASSUME NEW r \in Istek, BaslatKalem(r) PROVE Hedef
    BY <1>8 DEF BaslatKalem
<1>9. ASSUME NEW r \in Istek, BaslatBitir(r) PROVE Hedef
    BY <1>9 DEF BaslatBitir, IstekBirak
<1>10. ASSUME NEW js \in SUBSET Is, TopluIptal(js) PROVE Hedef
    BY <1>10 DEF TopluIptal, Kuyruktaki
<1>11. CASE DagitBasla
    BY <1>11 DEF DagitBasla
<1>12. CASE DagitSec
    BY <1>12 DEF DagitSec, EnEski, Vazgec
<1>13. CASE DagitAl
    BY <1>13 DEF DagitAl, Vazgec, DagitDurumu, IsYok
<1>14. ASSUME NEW j \in Is, Iptal(j) PROVE Hedef
    BY <1>14 DEF Iptal
<1>15. ASSUME NEW j \in Is, IptalYaz(j) PROVE Hedef
    BY <1>15 DEF IptalYaz
<1>16. ASSUME NEW j \in Is, Yukle(j) PROVE Hedef
    <2>1. UNCHANGED <<kimlik, panel>> /\ durum[j] = "calisiyor"
        BY <1>16 DEF Yukle, IsDurumu
    <2>2. \A k \in Is \ {j} : durum'[k] = durum[k] /\ is'[k] = is[k]
        BY <1>16 DEF Yukle, IsBitir
    <2>3. is'[j].adim = "birak" \/ (durum'[j] = durum[j] /\ is'[j].adim \in Yurur)
        BY <1>16 DEF Yukle, IsBitir, IsKaydi
    <2> QED
        BY <2>1, <2>2, <2>3
<1>17. ASSUME NEW j \in Is, Dongu(j) PROVE Hedef
    <2>1. UNCHANGED <<kimlik, panel>> /\ durum[j] = "calisiyor"
        BY <1>17 DEF Dongu, IsDurumu
    <2>2. \A k \in Is \ {j} : durum'[k] = durum[k] /\ is'[k] = is[k]
        BY <1>17 DEF Dongu, IsBitir
    <2>3. is'[j].adim = "birak" \/ (durum'[j] = durum[j] /\ is'[j].adim \in Yurur)
        BY <1>17 DEF Dongu, IsBitir, IsKaydi
    <2> QED
        BY <2>1, <2>2, <2>3
<1>18. ASSUME NEW j \in Is, Aktar(j) PROVE Hedef
    <2>1. UNCHANGED <<kimlik, panel>> /\ durum[j] = "calisiyor"
        BY <1>18 DEF Aktar, IsDurumu
    <2>2. \A k \in Is \ {j} : durum'[k] = durum[k] /\ is'[k] = is[k]
        BY <1>18 DEF Aktar, IsBitir
    <2>3. is'[j].adim = "birak" \/ (durum'[j] = durum[j] /\ is'[j].adim \in Yurur)
        BY <1>18 DEF Aktar, IsBitir, IsKaydi
    <2> QED
        BY <2>1, <2>2, <2>3
<1>19. ASSUME NEW j \in Is, Panik(j) PROVE Hedef
    <2>1. UNCHANGED <<kimlik, panel>> /\ durum[j] = "calisiyor"
        BY <1>19 DEF Panik, IsDurumu
    <2>2. \A k \in Is \ {j} : durum'[k] = durum[k] /\ is'[k] = is[k]
        BY <1>19 DEF Panik
    <2>3. is'[j].adim = "birak" \/ (durum'[j] = durum[j] /\ is'[j].adim \in Yurur)
        BY <1>19 DEF Panik, IsKaydi
    <2> QED
        BY <2>1, <2>2, <2>3
<1>20. ASSUME NEW j \in Is, YuvaBirak(j) PROVE Hedef
    BY <1>20 DEF YuvaBirak, IsYok, IsDurumu, Biten
<1>21. ASSUME NEW j \in Is, KimlikSil(j) PROVE Hedef
    BY <1>21 DEF KimlikSil, IsYok, IsDurumu, Biten
<1>22. CASE UNCHANGED vars
    BY <1>22 DEF vars
<1> QED
    BY <1>1, <1>2, <1>3, <1>4, <1>5, <1>6, <1>7, <1>8, <1>9, <1>10, <1>11, <1>12, <1>13, <1>14,
       <1>15, <1>16, <1>17, <1>18, <1>19, <1>20, <1>21, <1>22
       DEF Next, IstekAdimi, Dagit, IsAdimi

LEMMA KuyrukKorunur == KuyrukInv /\ [Next]_vars => KuyrukInv'
    BY YapiKorunur, SahipKorunur, SahipsizKorunur DEF KuyrukInv

\* No owner ever has two open jobs, with any number of requests and owners
\* (SahipTekAcik).
THEOREM SahipTekAcikDogru == Spec => []SahipTekAcik
<1>1. KuyrukInv => SahipTekAcik
    BY DEF KuyrukInv
<1> QED
    BY KuyrukBaslar, KuyrukKorunur, <1>1, PTL DEF Spec

\* A running row always has its goroutine while requests are served, after any
\* number of crashes (SahipsizYok).
THEOREM SahipsizYokDogru == Spec => []SahipsizYok
<1>1. KuyrukInv => SahipsizYok
    BY DEF KuyrukInv
<1> QED
    BY KuyrukBaslar, KuyrukKorunur, <1>1, PTL DEF Spec

\* The credentials of a source server never outlive their job (KimlikKalmaz).
THEOREM KimlikKalmazDogru == Spec => []KimlikKalmaz
<1>1. KuyrukInv => KimlikKalmaz
    BY DEF KuyrukInv
<1> QED
    BY KuyrukBaslar, KuyrukKorunur, <1>1, PTL DEF Spec

-----------------------------------------------------------------------------
LEMMA BitenAdimi ==
    YapiInv /\ [Next]_vars =>
        \A j \in Is : durum[j] \in Biten =>
            durum'[j] \notin Acik /\ (is[j].adim = "yok" => is'[j].adim = "yok")
<1> DEFINE Hedef == \A k \in Is : durum[k] \in Biten =>
                       durum'[k] \notin Acik /\ (is[k].adim = "yok" => is'[k].adim = "yok")
<1> SUFFICES ASSUME YapiInv, [Next]_vars PROVE Hedef
    OBVIOUS
<1>0. Yok \notin Is /\ Kok \in Sahip /\ KalemSayisi \in Nat \ {0} /\ DagitDeneme \in Nat \ {0}
      /\ IsSiniri \in Nat /\ CokmeSiniri \in Nat
    BY SahipVarsayim, KalemVarsayim, DenemeVarsayim, SinirVarsayim DEF Yok, Is
<1> USE <1>0 DEF YapiInv, TypeOK, Acik, Biten, satirVars, surecVars
<1>1. CASE AcilisKes
    BY <1>1 DEF AcilisKes
<1>2. CASE AcilisTemizle
    BY <1>2 DEF AcilisTemizle, Kuyruktaki
<1>3. CASE Cok
    BY <1>3 DEF Cok, Sifirla, IsYok
<1>4. ASSUME NEW o \in Sahip, SahipSil(o) PROVE Hedef
    BY <1>4 DEF SahipSil
<1>5. ASSUME NEW r \in Istek, NEW o \in Sahip, Baslat(r, o) PROVE Hedef
    BY <1>5 DEF Baslat
<1>6. ASSUME NEW r \in Istek, BaslatSay(r) PROVE Hedef
    BY <1>6 DEF BaslatSay, IstekBirak
<1>7. ASSUME NEW r \in Istek, BaslatEkle(r) PROVE Hedef
    BY <1>7 DEF BaslatEkle, SiraDurumu, Is
<1>8. ASSUME NEW r \in Istek, BaslatKalem(r) PROVE Hedef
    BY <1>8 DEF BaslatKalem
<1>9. ASSUME NEW r \in Istek, BaslatBitir(r) PROVE Hedef
    BY <1>9 DEF BaslatBitir, IstekBirak
<1>10. ASSUME NEW js \in SUBSET Is, TopluIptal(js) PROVE Hedef
    BY <1>10 DEF TopluIptal
<1>11. CASE DagitBasla
    BY <1>11 DEF DagitBasla
<1>12. CASE DagitSec
    BY <1>12 DEF DagitSec, EnEski, Vazgec
<1>13. CASE DagitAl
    BY <1>13 DEF DagitAl, Vazgec, DagitDurumu
<1>14. ASSUME NEW j \in Is, Iptal(j) PROVE Hedef
    BY <1>14 DEF Iptal
<1>15. ASSUME NEW j \in Is, IptalYaz(j) PROVE Hedef
    BY <1>15 DEF IptalYaz
<1>16. ASSUME NEW j \in Is, Yukle(j) PROVE Hedef
    BY <1>16 DEF Yukle, IsBitir
<1>17. ASSUME NEW j \in Is, Dongu(j) PROVE Hedef
    BY <1>17 DEF Dongu, IsBitir
<1>18. ASSUME NEW j \in Is, Aktar(j) PROVE Hedef
    BY <1>18 DEF Aktar, IsBitir
<1>19. ASSUME NEW j \in Is, Panik(j) PROVE Hedef
    BY <1>19 DEF Panik
<1>20. ASSUME NEW j \in Is, YuvaBirak(j) PROVE Hedef
    BY <1>20 DEF YuvaBirak, IsYok
<1>21. ASSUME NEW j \in Is, KimlikSil(j) PROVE Hedef
    BY <1>21 DEF KimlikSil, IsYok
<1>22. CASE UNCHANGED vars
    BY <1>22 DEF vars
<1> QED
    BY <1>1, <1>2, <1>3, <1>4, <1>5, <1>6, <1>7, <1>8, <1>9, <1>10, <1>11, <1>12, <1>13, <1>14,
       <1>15, <1>16, <1>17, <1>18, <1>19, <1>20, <1>21, <1>22
       DEF Next, IstekAdimi, Dagit, IsAdimi

\* A job that has ended never waits or starts again (BitenBaslamaz): the
\* dispatcher's UPDATE takes rows of the queue only.
THEOREM BitenBaslamazDogru == Spec => BitenBaslamaz
<1>1. YapiInv /\ [Next]_vars =>
        [\A j \in Is : durum[j] \in Biten =>
            durum'[j] \notin Acik /\ (is[j].adim = "yok" => is'[j].adim = "yok")]_vars
    BY BitenAdimi
<1> QED
    BY YapiBaslar, YapiKorunur, <1>1, PTL DEF Spec, BitenBaslamaz

-----------------------------------------------------------------------------
(***************************************************************************)
(* Wake-ups.  The slot is taken only by a goroutine that will give it      *)
(* back, so whoever finds it taken may leave.                              *)
(***************************************************************************)
YuvaDolu == aktif # Yok => is[aktif].adim \in Yurur
UyanikInv == YapiInv /\ YuvaDolu /\ UyandirmaKaybolmaz

LEMMA UyanikBaslar == Init => UyanikInv
    BY YapiBaslar DEF Init, UyanikInv, YuvaDolu, UyandirmaKaybolmaz

LEMMA YuvaKorunur == YapiInv /\ YuvaDolu /\ [Next]_vars => YuvaDolu'
<1> SUFFICES ASSUME YapiInv, YuvaDolu, [Next]_vars PROVE YuvaDolu'
    OBVIOUS
<1>0. Yok \notin Is
    BY DEF Yok, Is
<1> USE <1>0 DEF YapiInv, TypeOK, YuvaDolu, satirVars, surecVars
<1>1. CASE AcilisKes \/ AcilisTemizle
    BY <1>1 DEF AcilisKes, AcilisTemizle
<1>2. CASE Cok
    BY <1>2 DEF Cok, Sifirla
<1>3. ASSUME NEW o \in Sahip, SahipSil(o) \/ \E r \in Istek : Baslat(r, o) PROVE YuvaDolu'
    BY <1>3 DEF SahipSil, Baslat
<1>4. ASSUME NEW r \in Istek, IstekAdimi(r) PROVE YuvaDolu'
    BY <1>4 DEF IstekAdimi, BaslatSay, BaslatEkle, BaslatKalem, BaslatBitir
<1>5. ASSUME NEW j \in Is, Iptal(j) \/ IptalYaz(j) PROVE YuvaDolu'
    BY <1>5 DEF Iptal, IptalYaz
<1>6. ASSUME NEW js \in SUBSET Is, TopluIptal(js) PROVE YuvaDolu'
    BY <1>6 DEF TopluIptal
<1>7. CASE DagitBasla \/ DagitSec
    BY <1>7 DEF DagitBasla, DagitSec
<1>8. CASE DagitAl
    <2>1. [IsYok EXCEPT !.adim = "yukle"].adim \in Yurur
        BY DEF IsYok, Yurur
    <2>2. CASE UNCHANGED <<aktif, is>>
        BY <2>2
    <2>3. CASE aktif' = dagitan.is /\ is' = [is EXCEPT ![dagitan.is] = [IsYok EXCEPT !.adim = "yukle"]]
        <3>1. dagitan.is \in Is
            BY <1>8 DEF DagitAl, DagitDurumu
        <3>2. PICK d \in Is : d = dagitan.is
            BY <3>1
        <3>3. aktif' = d /\ is'[d] = [IsYok EXCEPT !.adim = "yukle"]
            BY <2>3, <3>2
        <3> QED
            BY <2>1, <3>3
    <2> QED
        BY <1>8, <2>2, <2>3 DEF DagitAl
<1>9. ASSUME NEW j \in Is, Yukle(j) \/ Dongu(j) \/ Aktar(j) \/ Panik(j) PROVE YuvaDolu'
    <2>1. /\ UNCHANGED aktif /\ \A k \in Is \ {j} : is'[k] = is[k]
          /\ is[j].adim \in Yurur
        BY <1>9 DEF Yukle, Dongu, Aktar, Panik, IsBitir, Yurur
    <2>2. is'[j].adim \in Yurur
        BY <1>9 DEF Yukle, Dongu, Aktar, Panik, IsBitir, IsKaydi, Yurur
    <2> QED
        BY <2>1, <2>2
<1>10. ASSUME NEW j \in Is, YuvaBirak(j) PROVE YuvaDolu'
    <2>1. aktif = j
        BY <1>10 DEF YuvaBirak, TekYuva, Yurur
    <2> QED
        BY <1>10, <2>1 DEF YuvaBirak
<1>11. ASSUME NEW j \in Is, KimlikSil(j) PROVE YuvaDolu'
    <2>1. aktif # j
        BY <1>11 DEF KimlikSil, Yurur
    <2> QED
        BY <1>11, <2>1 DEF KimlikSil
<1>12. CASE UNCHANGED vars
    BY <1>12 DEF vars
<1> QED
    BY <1>1, <1>2, <1>3, <1>4, <1>5, <1>6, <1>7, <1>8, <1>9, <1>10, <1>11, <1>12
       DEF Next, Dagit, IsAdimi

LEMMA UyandirmaKorunur == UyanikInv /\ [Next]_vars => UyandirmaKaybolmaz'
<1> DEFINE Hedef == Kuyruktaki' # {} /\ panel' = "acik" => Uyandiran' \/ vazgecti'
<1> SUFFICES ASSUME UyanikInv, [Next]_vars PROVE Hedef
    BY DEF UyandirmaKaybolmaz
<1>0. Yok \notin Is
    BY DEF Yok, Is
<1> USE <1>0 DEF UyanikInv, YapiInv, TypeOK, UyandirmaKaybolmaz, satirVars, surecVars
<1>1. CASE AcilisKes \/ Cok
    BY <1>1 DEF AcilisKes, Cok
<1>2. CASE AcilisTemizle
    BY <1>2 DEF AcilisTemizle, Uyandiran
<1>3. ASSUME NEW o \in Sahip, SahipSil(o) PROVE Hedef
    BY <1>3 DEF SahipSil, Kuyruktaki, Uyandiran, KilitBos
<1>4. ASSUME NEW r \in Istek, NEW o \in Sahip, Baslat(r, o) PROVE Hedef
    <2>1. \A q \in Istek : istek[q].adim = "kalem" => istek'[q].adim = "kalem"
        BY <1>4 DEF Baslat
    <2>2. UNCHANGED <<durum, panel, cagri, dagitan, is, vazgecti>>
        BY <1>4 DEF Baslat
    <2> QED
        BY <2>1, <2>2 DEF Kuyruktaki, Uyandiran, KilitBos
<1>5. ASSUME NEW r \in Istek, BaslatSay(r) PROVE Hedef
    <2>1. \A q \in Istek : istek[q].adim = "kalem" => istek'[q].adim = "kalem"
        BY <1>5 DEF BaslatSay, IstekBirak
    <2>2. UNCHANGED <<durum, panel, cagri, dagitan, is, vazgecti>>
        BY <1>5 DEF BaslatSay
    <2> QED
        BY <2>1, <2>2 DEF Kuyruktaki, Uyandiran, KilitBos
<1>6. ASSUME NEW r \in Istek, BaslatEkle(r) PROVE Hedef
    <2>1. istek'[r].adim = "kalem"
        BY <1>6 DEF BaslatEkle
    <2> QED
        BY <2>1 DEF Uyandiran
<1>7. ASSUME NEW r \in Istek, BaslatKalem(r) PROVE Hedef
    <2>1. istek'[r].adim = "kalem"
        BY <1>7 DEF BaslatKalem, IstekKaydi
    <2> QED
        BY <2>1 DEF Uyandiran
<1>8. ASSUME NEW r \in Istek, BaslatBitir(r) PROVE Hedef
    BY <1>8 DEF BaslatBitir, Uyandiran
<1>9. ASSUME NEW j \in Is, Iptal(j) PROVE Hedef
    BY <1>9 DEF Iptal, Kuyruktaki, Uyandiran, KilitBos
<1>10. ASSUME NEW j \in Is, IptalYaz(j) PROVE Hedef
    <2>1. Kuyruktaki' \subseteq Kuyruktaki
        BY <1>10 DEF IptalYaz, Kuyruktaki
    <2>2. UNCHANGED <<panel, istek, cagri, dagitan, is, vazgecti>>
        BY <1>10 DEF IptalYaz
    <2> QED
        BY <2>1, <2>2 DEF Uyandiran, KilitBos
<1>11. ASSUME NEW js \in SUBSET Is, TopluIptal(js) PROVE Hedef
    <2>1. Kuyruktaki' \subseteq Kuyruktaki
        BY <1>11 DEF TopluIptal, Kuyruktaki
    <2>2. UNCHANGED <<panel, istek, cagri, dagitan, is, vazgecti>>
        BY <1>11 DEF TopluIptal
    <2> QED
        BY <2>1, <2>2 DEF Uyandiran, KilitBos
<1>12. CASE DagitBasla
    <2>1. CASE aktif = Yok
        BY <1>12, <2>1 DEF DagitBasla, Uyandiran, KilitBos
    <2>2. CASE aktif # Yok
        <3>1. aktif \in Is /\ is[aktif].adim # "yok"
            BY <2>2 DEF YuvaDolu, Yurur
        <3>2. \E k \in Is : is'[k].adim # "yok"
            BY <1>12, <3>1 DEF DagitBasla
        <3> QED
            BY <3>2 DEF Uyandiran
    <2> QED
        BY <2>1, <2>2
<1>13. CASE DagitSec
    <2>1. CASE dagitan'.adim = "al"
        BY <2>1 DEF Uyandiran, KilitBos
    <2>2. CASE Kuyruktaki = {}
        BY <1>13, <2>2 DEF DagitSec, Kuyruktaki
    <2>3. CASE vazgecti'
        BY <2>3
    <2>4. \A j \in Is : dagitan' = [dagitan EXCEPT !.adim = "al", !.is = j] => dagitan'.adim = "al"
        BY DEF DagitKaydi
    <2> QED
        BY <1>13, <2>1, <2>2, <2>3, <2>4 DEF DagitSec, Vazgec
<1>14. CASE DagitAl
    <2>1. CASE vazgecti'
        BY <2>1
    <2>2. CASE dagitan'.adim = "sec"
        BY <2>2 DEF Uyandiran, KilitBos
    <2>3. CASE is' = [is EXCEPT ![dagitan.is] = [IsYok EXCEPT !.adim = "yukle"]]
        <3>1. dagitan.is \in Is
            BY <1>14 DEF DagitAl, DagitDurumu
        <3>2. [IsYok EXCEPT !.adim = "yukle"].adim # "yok"
            BY DEF IsYok
        <3>3. \E k \in Is : is'[k].adim # "yok"
            BY <2>3, <3>1, <3>2
        <3> QED
            BY <3>3 DEF Uyandiran
    <2> QED
        BY <1>14, <2>1, <2>2, <2>3 DEF DagitAl, Vazgec
<1>15. ASSUME NEW j \in Is, Yukle(j) \/ Dongu(j) \/ Aktar(j) \/ Panik(j) \/ YuvaBirak(j) PROVE Hedef
    <2>1. is'[j].adim # "yok"
        BY <1>15 DEF Yukle, Dongu, Aktar, Panik, YuvaBirak, IsBitir, IsKaydi, IsYok
    <2> QED
        BY <2>1 DEF Uyandiran
<1>16. ASSUME NEW j \in Is, KimlikSil(j) PROVE Hedef
    BY <1>16 DEF KimlikSil, Uyandiran
<1>17. CASE UNCHANGED vars
    BY <1>17 DEF vars, Kuyruktaki, Uyandiran, KilitBos
<1> QED
    BY <1>1, <1>2, <1>3, <1>4, <1>5, <1>6, <1>7, <1>8, <1>9, <1>10, <1>11, <1>12, <1>13, <1>14,
       <1>15, <1>16, <1>17 DEF Next, IstekAdimi, Dagit, IsAdimi

\* While a job waits, somebody is on the way to the dispatcher or is in it, unless
\* its last call gave up (UyandirmaKaybolmaz): nothing polls the queue, so this is
\* what its progress rests on.
THEOREM UyandirmaKaybolmazDogru == Spec => []UyandirmaKaybolmaz
<1>1. UyanikInv /\ [Next]_vars => UyanikInv'
    BY YapiKorunur, YuvaKorunur, UyandirmaKorunur DEF UyanikInv
<1>2. UyanikInv => UyandirmaKaybolmaz
    BY DEF UyanikInv
<1> QED
    BY UyanikBaslar, <1>1, <1>2, PTL DEF Spec

-----------------------------------------------------------------------------
(***************************************************************************)
(* The queue implements its promise.  The job dagit has chosen stays the   *)
(* oldest until its UPDATE: what enters the queue meanwhile is younger.    *)
(***************************************************************************)
SiraliDagit ==
    dagitan.adim = "al" => dagitan.is <= sonIs /\ \A k \in Kuyruktaki : dagitan.is <= k

Kosan == {j \in Is : durum[j] = "calisiyor"}
Cikan == {j \in Is : durum[j] \in Biten \cup {"silindi"}}

\* A step that neither adds a row nor chooses one keeps the order.
LEMMA SiraAyniKalir ==
    ASSUME SiraliDagit, Kuyruktaki' \subseteq Kuyruktaki, UNCHANGED sonIs,
           dagitan'.adim = "al" => UNCHANGED dagitan
    PROVE  SiraliDagit'
    BY DEF SiraliDagit

LEMMA SiraKorunur == YapiInv /\ SiraliDagit /\ [Next]_vars => SiraliDagit'
<1> SUFFICES ASSUME YapiInv, SiraliDagit, [Next]_vars PROVE SiraliDagit'
    OBVIOUS
<1>0. Yok \notin Is
    BY DEF Yok, Is
<1> USE <1>0 DEF YapiInv, TypeOK, satirVars, surecVars
<1>1. CASE AcilisKes
    <2>1. Kuyruktaki' \subseteq Kuyruktaki
        BY <1>1 DEF AcilisKes, Kuyruktaki
    <2> QED
        BY <1>1, <2>1, SiraAyniKalir DEF AcilisKes
<1>2. CASE AcilisTemizle
    <2>1. Kuyruktaki' \subseteq Kuyruktaki
        BY <1>2 DEF AcilisTemizle, Kuyruktaki
    <2> QED
        BY <1>2, <2>1, SiraAyniKalir DEF AcilisTemizle
<1>3. CASE Cok
    BY <1>3 DEF Cok, Sifirla, DagitYok, SiraliDagit
<1>4. ASSUME NEW o \in Sahip, SahipSil(o) \/ \E r \in Istek : Baslat(r, o) PROVE SiraliDagit'
    BY <1>4, SiraAyniKalir DEF SahipSil, Baslat, Kuyruktaki
<1>5. ASSUME NEW r \in Istek, BaslatSay(r) \/ BaslatKalem(r) \/ BaslatBitir(r) PROVE SiraliDagit'
    BY <1>5, SiraAyniKalir DEF BaslatSay, BaslatKalem, BaslatBitir, Kuyruktaki
<1>6. ASSUME NEW r \in Istek, BaslatEkle(r) PROVE SiraliDagit'
    <2>1. sonIs' = sonIs + 1 /\ sonIs \in Nat /\ UNCHANGED dagitan
        BY <1>6, SinirVarsayim DEF BaslatEkle
    <2>2. \A k \in Kuyruktaki' : k \in Kuyruktaki \/ k = sonIs + 1
        BY <1>6 DEF BaslatEkle, Kuyruktaki
    <2>3. dagitan.is \in Nat
        BY DEF DagitKaydi, Is, Yok
    <2> QED
        BY <2>1, <2>2, <2>3 DEF SiraliDagit
<1>7. ASSUME NEW j \in Is, Iptal(j) \/ IptalYaz(j) PROVE SiraliDagit'
    <2>1. Kuyruktaki' \subseteq Kuyruktaki
        BY <1>7 DEF Iptal, IptalYaz, Kuyruktaki
    <2> QED
        BY <1>7, <2>1, SiraAyniKalir DEF Iptal, IptalYaz
<1>8. ASSUME NEW js \in SUBSET Is, TopluIptal(js) PROVE SiraliDagit'
    <2>1. Kuyruktaki' \subseteq Kuyruktaki
        BY <1>8 DEF TopluIptal, Kuyruktaki
    <2> QED
        BY <1>8, <2>1, SiraAyniKalir DEF TopluIptal
<1>9. CASE DagitBasla
    BY <1>9 DEF DagitBasla, DagitYok, SiraliDagit
<1>10. CASE DagitSec
    <2>1. CASE \E j \in Is : EnEski(j) /\ dagitan' = [dagitan EXCEPT !.adim = "al", !.is = j]
        <3>1. PICK j \in Is : EnEski(j) /\ dagitan' = [dagitan EXCEPT !.adim = "al", !.is = j]
            BY <2>1
        <3>2. dagitan'.is = j
            BY <3>1 DEF DagitKaydi
        <3>3. j <= sonIs
            BY <3>1, SinirVarsayim DEF EnEski, Kuyruktaki, SiraDurumu, Is
        <3>4. UNCHANGED <<durum, sonIs>>
            BY <1>10 DEF DagitSec
        <3> QED
            BY <3>1, <3>2, <3>3, <3>4 DEF SiraliDagit, EnEski, Kuyruktaki
    <2>2. CASE dagitan' = DagitYok
        BY <2>2 DEF DagitYok, SiraliDagit
    <2> QED
        BY <1>10, <2>1, <2>2 DEF DagitSec, Vazgec
<1>11. CASE DagitAl
    BY <1>11 DEF DagitAl, Vazgec, DagitYok, SiraliDagit
<1>12. ASSUME NEW j \in Is, Yukle(j) \/ Dongu(j) \/ Aktar(j) \/ Panik(j) \/ YuvaBirak(j) \/ KimlikSil(j)
       PROVE SiraliDagit'
    <2>1. Kuyruktaki' \subseteq Kuyruktaki
        BY <1>12 DEF Yukle, Dongu, Aktar, Panik, YuvaBirak, KimlikSil, IsBitir, Kuyruktaki, Biten
    <2> QED
        BY <1>12, <2>1, SiraAyniKalir DEF Yukle, Dongu, Aktar, Panik, YuvaBirak, KimlikSil
<1>13. CASE UNCHANGED vars
    BY <1>13, SiraAyniKalir DEF vars, Kuyruktaki
<1> QED
    BY <1>1, <1>2, <1>3, <1>4, <1>5, <1>6, <1>7, <1>8, <1>9, <1>10, <1>11, <1>12, <1>13
       DEF Next, IstekAdimi, Dagit, IsAdimi

SozAdimi == [Sozlesme!SozlesmeNext]_(Sozlesme!sozlesmeVars)

\* Steps of the queue in terms of the three sets of jobs.
LEMMA SozlesmeDurur == ASSUME UNCHANGED <<durum, sahip>> PROVE SozAdimi
    BY DEF SozAdimi, Sozlesme!sozlesmeVars, Kuyruktaki

LEMMA SozlesmeBiter ==
    ASSUME Kosan' = {}, Cikan' = Cikan \cup Kosan, Kuyruktaki' = Kuyruktaki, UNCHANGED sahip
    PROVE  SozAdimi
<1>1. Sozlesme!Bit
    BY DEF Sozlesme!Bit, Kosan, Cikan
<1> QED
    BY <1>1 DEF SozAdimi, Sozlesme!SozlesmeNext

LEMMA SozlesmeCekilir ==
    ASSUME NEW js \in SUBSET Is, js \subseteq Kuyruktaki,
           Kuyruktaki' = Kuyruktaki \ js, Cikan' = Cikan \cup js, Kosan' = Kosan, UNCHANGED sahip
    PROVE  SozAdimi
<1>1. Sozlesme!Cekil(js)
    BY DEF Sozlesme!Cekil, Kosan, Cikan
<1> QED
    BY <1>1 DEF SozAdimi, Sozlesme!SozlesmeNext

LEMMA SozlesmeBaslar ==
    ASSUME NEW j \in Kuyruktaki, \A k \in Kuyruktaki : j <= k,
           Kosan = {}, Kosan' = {j}, Kuyruktaki' = Kuyruktaki \ {j}, Cikan' = Cikan, UNCHANGED sahip
    PROVE  SozAdimi
<1>1. Sozlesme!Basla(j)
    BY DEF Sozlesme!Basla, Kosan, Cikan
<1>2. j \in Is
    BY DEF Kuyruktaki
<1> QED
    BY <1>1, <1>2 DEF SozAdimi, Sozlesme!SozlesmeNext

LEMMA SozlesmeGirer ==
    ASSUME NEW j \in Is, NEW o \in Sahip,
           \A k \in Kuyruktaki \cup Kosan \cup Cikan : k < j,
           \A k \in Kuyruktaki \cup Kosan : sahip[k] # o,
           Kuyruktaki' = Kuyruktaki \cup {j}, sahip' = [sahip EXCEPT ![j] = o],
           Kosan' = Kosan, Cikan' = Cikan
    PROVE  SozAdimi
<1>1. Sozlesme!Gir(j, o)
    BY DEF Sozlesme!Gir, Sozlesme!Giren, Kosan, Cikan
<1> QED
    BY <1>1 DEF SozAdimi, Sozlesme!SozlesmeNext

\* Rows of one job or of several that leave the queue without having run.
LEMMA SatirlarCekilir ==
    ASSUME TypeOK, NEW js \in SUBSET Is, js \subseteq Kuyruktaki,
           durum' = [j \in Is |-> IF j \in js THEN "iptal" ELSE durum[j]], UNCHANGED sahip
    PROVE  SozAdimi
<1>1. Kuyruktaki' = Kuyruktaki \ js
    BY DEF Kuyruktaki
<1>2. Cikan' = Cikan \cup js /\ Kosan' = Kosan
    BY DEF Kuyruktaki, Cikan, Kosan, Biten
<1> QED
    BY <1>1, <1>2, SozlesmeCekilir

\* A job that runs is the only one, and it ends.
LEMMA IsBiter ==
    ASSUME KuyrukInv, NEW j \in Is, is[j].adim \in {"yukle", "dongu", "aktar"},
           NEW d \in Biten, durum' = [durum EXCEPT ![j] = d], UNCHANGED sahip
    PROVE  SozAdimi
<1> USE DEF KuyrukInv, YapiInv, TypeOK
<1>1. panel = "acik" /\ durum[j] = "calisiyor" /\ aktif = j
    BY DEF KapaliDurumu, IsDurumu, TekYuva, Yurur
<1>2. Kosan = {j}
    BY <1>1 DEF Kosan, SahipsizYok, TekYuva
<1>3. Kosan' = {}
    <2>1. \A k \in Is : durum'[k] # "calisiyor"
        BY <1>2 DEF Kosan, Biten
    <2> QED
        BY <2>1 DEF Kosan
<1>4. Kuyruktaki' = Kuyruktaki /\ Cikan' = Cikan \cup {j}
    BY <1>1 DEF Kuyruktaki, Cikan, Biten
<1> QED
    BY <1>2, <1>3, <1>4, SozlesmeBiter

LEMMA SozlesmeBaslangic == Init => Sozlesme!SozlesmeInit
    BY SahipVarsayim DEF Init, Sozlesme!SozlesmeInit, Kuyruktaki, Biten

LEMMA SozlesmeAdimi == KuyrukInv /\ SiraliDagit /\ [Next]_vars => SozAdimi
<1> SUFFICES ASSUME KuyrukInv, SiraliDagit, [Next]_vars PROVE SozAdimi
    OBVIOUS
<1>0. Yok \notin Is
    BY DEF Yok, Is
<1> USE <1>0 DEF KuyrukInv, YapiInv, TypeOK, satirVars, surecVars
<1>1. CASE AcilisKes
    <2>1. UNCHANGED sahip /\ Kuyruktaki' = Kuyruktaki
        BY <1>1 DEF AcilisKes, Kuyruktaki
    <2>2. Kosan' = {}
        BY <1>1 DEF AcilisKes, Kosan
    <2>3. Cikan' = Cikan \cup Kosan
        BY <1>1 DEF AcilisKes, Kosan, Cikan, Biten
    <2> QED
        BY <2>1, <2>2, <2>3, SozlesmeBiter
<1>2. CASE AcilisTemizle
    <2>1. UNCHANGED sahip /\ Kuyruktaki' \subseteq Kuyruktaki
        BY <1>2 DEF AcilisTemizle, Kuyruktaki
    <2>2. Kosan = {} /\ Kosan' = {}
        BY <1>2 DEF AcilisTemizle, KapaliDurumu, Kosan
    <2>3. \A j \in Is : durum'[j] = durum[j] \/ (durum[j] # "yok" /\ durum'[j] \in {"silindi", "iptal"})
        BY <1>2 DEF AcilisTemizle, Kuyruktaki
    <2>4. \A j \in Is : durum[j] \in {"yok", "kuyrukta"} \cup Biten \cup {"silindi"}
        BY <2>2 DEF Kosan, Durum, Acik
    <2> DEFINE js == Kuyruktaki \ Kuyruktaki'
    <2>5. Cikan' = Cikan \cup js
        BY <2>3, <2>4 DEF Cikan, Kuyruktaki, Biten
    <2>6. js \in SUBSET Is /\ js \subseteq Kuyruktaki /\ Kuyruktaki' = Kuyruktaki \ js
        BY <2>1 DEF Kuyruktaki
    <2> QED
        BY <2>1, <2>2, <2>5, <2>6, SozlesmeCekilir
<1>3. CASE Cok
    BY <1>3, SozlesmeDurur DEF Cok
<1>4. ASSUME NEW o \in Sahip, SahipSil(o) \/ \E r \in Istek : Baslat(r, o) PROVE SozAdimi
    BY <1>4, SozlesmeDurur DEF SahipSil, Baslat
<1>5. ASSUME NEW r \in Istek, BaslatSay(r) \/ BaslatKalem(r) \/ BaslatBitir(r) PROVE SozAdimi
    BY <1>5, SozlesmeDurur DEF BaslatSay, BaslatKalem, BaslatBitir
<1>6. ASSUME NEW r \in Istek, BaslatEkle(r) PROVE SozAdimi
    <2> DEFINE j == sonIs + 1
    <2>1. j \in Is /\ sonIs \in Nat
        BY <1>6, SinirVarsayim DEF BaslatEkle, Is
    <2>2. durum' = [durum EXCEPT ![j] = "kuyrukta"] /\ sahip' = [sahip EXCEPT ![j] = istek[r].sahip]
        BY <1>6 DEF BaslatEkle
    <2>3. istek[r].sahip \in Sahip /\ istek[r].adim = "ekle"
        BY <1>6 DEF BaslatEkle, IstekKaydi
    <2>4. durum[j] = "yok" /\ \A k \in Is : durum[k] # "yok" => k < j
        BY <2>1, SinirVarsayim DEF SiraDurumu, Is
    <2>5. \A k \in Kuyruktaki \cup Kosan \cup Cikan : k < j
        BY <2>4 DEF Kuyruktaki, Kosan, Cikan, Biten
    <2>6. \A k \in Kuyruktaki \cup Kosan : sahip[k] # istek[r].sahip
        BY <2>3 DEF EkleDurumu, Kuyruktaki, Kosan, Acik
    <2>7. Kuyruktaki' = Kuyruktaki \cup {j} /\ Kosan' = Kosan /\ Cikan' = Cikan
        <3> HIDE DEF j
        <3> QED
            BY <2>1, <2>2, <2>4 DEF Kuyruktaki, Kosan, Cikan, Biten
    <2> HIDE DEF j
    <2> QED
        BY <2>1, <2>2, <2>3, <2>5, <2>6, <2>7, SozlesmeGirer
<1>7. ASSUME NEW js \in SUBSET Is, TopluIptal(js) PROVE SozAdimi
    BY <1>7, SatirlarCekilir DEF TopluIptal
<1>8. ASSUME NEW j \in Is, Iptal(j) PROVE SozAdimi
    BY <1>8, SozlesmeDurur DEF Iptal
<1>9. ASSUME NEW j \in Is, IptalYaz(j) PROVE SozAdimi
    <2>1. CASE durum[j] = "kuyrukta"
        <3>1. durum' = [k \in Is |-> IF k \in {j} THEN "iptal" ELSE durum[k]] /\ UNCHANGED sahip
            BY <1>9, <2>1 DEF IptalYaz
        <3>2. {j} \in SUBSET Is /\ {j} \subseteq Kuyruktaki
            BY <2>1 DEF Kuyruktaki
        <3> QED
            BY <3>1, <3>2, SatirlarCekilir
    <2>2. CASE durum[j] # "kuyrukta"
        BY <1>9, <2>2, SozlesmeDurur DEF IptalYaz
    <2> QED
        BY <2>1, <2>2
<1>10. CASE DagitBasla \/ DagitSec
    BY <1>10, SozlesmeDurur DEF DagitBasla, DagitSec
<1>11. CASE DagitAl
    <2>1. CASE UNCHANGED durum
        BY <1>11, <2>1, SozlesmeDurur DEF DagitAl
    <2>2. CASE durum[dagitan.is] = "kuyrukta" /\ durum' = [durum EXCEPT ![dagitan.is] = "calisiyor"]
        <3>1. dagitan.is \in Is /\ aktif = Yok /\ UNCHANGED sahip /\ panel = "acik"
            BY <1>11 DEF DagitAl, DagitDurumu, KapaliDurumu
        <3>2. PICK d \in Is : d = dagitan.is
            BY <3>1
        <3>3. d \in Kuyruktaki /\ \A k \in Kuyruktaki : d <= k
            BY <1>11, <2>2, <3>2 DEF DagitAl, SiraliDagit, Kuyruktaki
        <3>4. Kosan = {}
            BY <3>1 DEF Kosan, SahipsizYok, TekYuva
        <3>5. durum' = [durum EXCEPT ![d] = "calisiyor"]
            BY <2>2, <3>2
        <3>6. Kosan' = {d}
            <4>1. \A k \in Is : durum'[k] = "calisiyor" <=> k = d
                BY <3>4, <3>5 DEF Kosan
            <4> QED
                BY <4>1 DEF Kosan
        <3>7. Kuyruktaki' = Kuyruktaki \ {d} /\ Cikan' = Cikan
            BY <3>3, <3>5 DEF Kuyruktaki, Cikan, Biten
        <3> QED
            BY <3>1, <3>3, <3>4, <3>6, <3>7, SozlesmeBaslar
    <2> QED
        BY <1>11, <2>1, <2>2 DEF DagitAl
<1>12. ASSUME NEW j \in Is, Yukle(j) \/ Dongu(j) \/ Aktar(j) \/ Panik(j) PROVE SozAdimi
    <2>1. is[j].adim \in {"yukle", "dongu", "aktar"} /\ UNCHANGED sahip
        BY <1>12 DEF Yukle, Dongu, Aktar, Panik
    <2>2. CASE UNCHANGED durum
        BY <2>1, <2>2, SozlesmeDurur
    <2>3. CASE \E d \in Biten : durum' = [durum EXCEPT ![j] = d]
        BY <2>1, <2>3, IsBiter
    <2> QED
        BY <1>12, <2>2, <2>3 DEF Yukle, Dongu, Aktar, Panik, IsBitir, Biten
<1>13. ASSUME NEW j \in Is, YuvaBirak(j) \/ KimlikSil(j) PROVE SozAdimi
    BY <1>13, SozlesmeDurur DEF YuvaBirak, KimlikSil
<1>14. CASE UNCHANGED vars
    BY <1>14, SozlesmeDurur DEF vars
<1> QED
    BY <1>1, <1>2, <1>3, <1>4, <1>5, <1>6, <1>7, <1>8, <1>9, <1>10, <1>11, <1>12, <1>13, <1>14
       DEF Next, IstekAdimi, Dagit, IsAdimi

\* The queue implements its promise (SozlesmeyeUyar): one job at a time, the oldest
\* first, one open job per owner, and none that has left the queue comes back,
\* across cancellations, crashes and requests in any order.
THEOREM SozlesmeyeUyarDogru == Spec => SozlesmeyeUyar
<1>1. KuyrukInv /\ SiraliDagit /\ [Next]_vars => KuyrukInv' /\ SiraliDagit'
    BY KuyrukKorunur, SiraKorunur DEF KuyrukInv
<1>2. Init => KuyrukInv /\ SiraliDagit
    BY KuyrukBaslar DEF Init, SiraliDagit, DagitYok
<1>3. KuyrukInv /\ SiraliDagit /\ [Next]_vars => [Sozlesme!SozlesmeNext]_(Sozlesme!sozlesmeVars)
    BY SozlesmeAdimi DEF SozAdimi
<1> QED
    BY SozlesmeBaslangic, <1>1, <1>2, <1>3, PTL DEF Spec, SozlesmeyeUyar, Sozlesme!SozlesmeSpec

=============================================================================
