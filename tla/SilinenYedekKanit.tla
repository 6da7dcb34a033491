------------------------- MODULE SilinenYedekKanit -------------------------
(***************************************************************************)
(* Proofs about the backups of deleted accounts, for every number of       *)
(* backups, ids, marks, faults and requests, every set of customers and    *)
(* every set of faults.                                                    *)
(***************************************************************************)
EXTENDS SilinenYedek, NaturalsInduction, WellFoundedInduction, TLAPS

-----------------------------------------------------------------------------
(***************************************************************************)
(* The inductive invariant.                                                *)
(***************************************************************************)
KimlikYa == 0 .. KimlikSayisi
IzYa == 0 .. IzSayisi
SahipYa == Musteri \cup {"yok"}

SilKaydi == [adim : {"bos", "domain", "anlik", "yaz"}, kimlik : KimlikYa, iz : IzYa,
             sahip : SahipYa, hedef : BOOLEAN]
UretimKaydi == [kimlik : KimlikYa, sahip : SahipYa]
KalKaydi == [adim : {"bos", "listele", "iz", "yaz", "devral"}, kimlik : KimlikYa,
             liste : SUBSET Yedek, iz : IzYa]
IsaretKaydi == [kim : {"yok", "acilis", "supur"}, liste : SUBSET (Yedek \X Kimlik),
                izler : [Kimlik -> IzYa]]
SiliciKaydi == [adim : {"bos", "isaret", "sec"} \cup Silmede, liste : SUBSET Yedek,
                iz : [Yedek -> IzYa], b : 0 .. YedekSayisi, hedef : SahipYa,
                yoksay : BOOLEAN, bozuk : SUBSET IzYa]
BagKaydi == [adim : {"bos", "kilitle", "defter", "yaz", "bitir"}, kimlik : KimlikYa,
             sahip : SahipYa, hepsi : BOOLEAN, kilitli : SUBSET Yedek, izler : SUBSET Iz,
             defter : SUBSET (0 .. YedekSayisi)]

\* A row's columns say together what the row is.
SatirDurumu ==
    \A b \in Yedek :
        /\ durum[b] = "canli" => kimlik[b] \in Kimlik /\ iz[b] = 0 /\ sure[b] = "yok"
        /\ durum[b] = "yetim" => kimlik[b] = 0 /\ iz[b] \in Iz
        /\ durum[b] = "silindi" => kimlik[b] = 0
        /\ durum[b] = "yok" => kimlik[b] = 0 /\ iz[b] = 0 /\ sure[b] = "yok" /\ sahip[b] = "bos"

AnlikDurumu ==
    /\ anlik = [i \in Iz |-> anlik[i]]
    /\ \A i \in Iz : anlik[i].sahip \in SahipYa

SilDurumu ==
    /\ sil \in SilKaydi
    /\ sil.adim # "bos" => sil.kimlik \in Kimlik
    /\ sil.iz # 0 => sil.adim # "bos" /\ sil.sahip \in Musteri
    /\ sil.adim \in {"anlik", "yaz"} => sil.iz # 0

UretimDurumu ==
    /\ uretim \in UretimKaydi
    /\ uretim # UretimBos => uretim.kimlik \in Kimlik

KalDurumu ==
    /\ kal \in KalKaydi
    /\ kal.adim # "bos" => kal.kimlik \in Kimlik
    /\ kal.adim = "yaz" => kal.iz \in Iz
    /\ kal.adim \in {"iz", "yaz"} => kal.liste # {}

IsaretDurumu ==
    /\ isaret \in IsaretKaydi
    /\ isaret # IsaretBos => isaret.liste # {}

\* The record of one deletion.
SiliciTek(s) ==
    /\ s.b \notin s.liste
    /\ s.adim = "sec" => s.liste # {}
    /\ s.adim \in Silmede => s.b \in Yedek
    /\ s.adim \in {"bos", "isaret"} => s.liste = {}
    /\ s.adim \in {"bos", "isaret", "sec"} => s.b = 0
    /\ \A c \in Yedek : c \in s.liste \cup {s.b} => s.iz[c] \in Iz

SiliciDurumu ==
    silici \in [Silici -> SiliciKaydi] /\ \A p \in Silici : SiliciTek(silici[p])

BagDurumu ==
    /\ bag \in BagKaydi
    /\ bag.adim \in {"kilitle", "defter", "yaz"} => bag.kimlik \in Kimlik /\ bag.sahip \in Musteri
    /\ bag.adim = "bitir" => bag.izler # {}

GecmisDurumu ==
    /\ asil \in [Yedek -> SahipYa]
    /\ goruntulu \subseteq Yedek

DomainDurumu ==
    domain \in [Kimlik -> Musteri \cup {"yok"}] /\ sonKimlik \in 0 .. KimlikSayisi

\* The columns of the rows.
SutunDurumu ==
    /\ durum \in [Yedek -> {"yok", "canli", "yetim", "silindi"}]
    /\ kimlik \in [Yedek -> 0 .. KimlikSayisi] /\ iz \in [Yedek -> 0 .. IzSayisi]
    /\ sahip \in [Yedek -> Musteri \cup {"bos", "sk"}]
    /\ sure \in [Yedek -> {"yok", "ileri", "doldu"}]
    /\ SatirDurumu

KopyaDurumu == dosya \subseteq Yedek /\ uzak \subseteq Yedek /\ yukleme \subseteq Yedek

YapiInv ==
    /\ DomainDurumu /\ SutunDurumu /\ KopyaDurumu /\ AnlikDurumu /\ SilDurumu /\ UretimDurumu /\ KalDurumu
    /\ IsaretDurumu /\ SiliciDurumu /\ BagDurumu /\ GecmisDurumu

\* What a deletion has on its list is as it was read, gone, or was bound since.
ListeDurumu ==
    \A p \in Silici : \A c \in Yedek :
        c \in silici[p].liste \cup {silici[p].b} =>
            \/ c \in listedeyken \/ durum[c] = "silindi"
            \/ Yetim(c) /\ iz[c] = silici[p].iz[c] /\ (p = "supur" => sure[c] = "doldu")

\* What is at its remote delete is no live row, unless it was bound unlocked:
\* either the binding saw it in the register, or waits behind its row's lock.
UzakDurumu ==
    \A p \in Silici : silici[p].adim = "uzak" =>
        /\ durum[silici[p].b] \in {"yetim", "silindi"} \/ silici[p].b \in gec
        /\ bag.adim = "yaz" => silici[p].b \in bag.defter \/ silici[p].b \notin bag.kilitli

\* A mark that is being made has no snapshot yet, or its own.
HazirlikDurumu ==
    sil.iz # 0 =>
        /\ sil.adim \in {"domain", "anlik"} => anlik[sil.iz] = AnlikYok
        /\ anlik[sil.iz] = AnlikYok \/ anlik[sil.iz].sahip = sil.sahip

\* The snapshot stays for as long as its rows do.
GoruntuDurumu ==
    \A b \in goruntulu :
        \/ durum[b] = "silindi"
        \/ Yetim(b) /\ asil[b] \in Musteri /\ anlik[iz[b]].sahip = asil[b]

\* No row is deleted by two at a time.
DefterDurumu ==
    \A p, q \in Silici :
        p # q /\ silici[p].adim \in Silmede /\ silici[q].adim \in Silmede => silici[p].b # silici[q].b

\* An upload has its row, and is over before the row's term.
YuklemeDurumu == \A b \in yukleme : durum[b] # "yok" /\ sure[b] # "doldu"

\* A deletion has the right target, and has used it; what an upload may still
\* bring there is in the history.
HedefDurumu ==
    \A p \in Silici :
        LET b == silici[p].b
        IN  /\ silici[p].adim = "uzak" =>
                  b \in listedeyken \/ b \notin goruntulu \/ silici[p].hedef = asil[b]
            /\ /\ silici[p].adim = "satir" /\ ~silici[p].yoksay
               /\ asil[b] \in Hedefli => b \in goruntulu
               => \/ b \notin uzak /\ b \notin yukleme
                  \/ b \in listedeyken \/ durum[b] = "silindi"
                  \/ p = "uc" /\ b \in yuklenirken

SilmeInv ==
    /\ ListeDurumu /\ UzakDurumu /\ HazirlikDurumu /\ GoruntuDurumu
    /\ DefterDurumu /\ YuklemeDurumu /\ HedefDurumu

\* A row that may be shown under its id to m.
Gosterilir(b, m) == asil[b] = m \/ <<b, m>> \in onayli \/ b \in kalan

\* No id is given out again before the panel restarts, so that what a goroutine
\* has read of an account is still true, or the account is gone.
KimlikDurumu ==
    /\ \A k \in Kimlik : domain[k] # "yok" => k <= sonKimlik
    /\ kal.kimlik <= sonKimlik
    /\ sil.adim # "bos" =>
          /\ sil.kimlik <= sonKimlik
          /\ sil.iz # 0 => domain[sil.kimlik] \in {"yok", sil.sahip}
          /\ sil.kimlik = kal.kimlik => kal.adim \in {"bos", "devral"}
    /\ uretim # UretimBos =>
          /\ uretim.kimlik <= sonKimlik
          /\ domain[uretim.kimlik] \in {"yok", uretim.sahip}
          /\ sil.iz # 0 /\ sil.kimlik = uretim.kimlik => sil.sahip = uretim.sahip
    /\ bag.adim \in {"kilitle", "defter", "yaz"} =>
          /\ bag.kimlik <= sonKimlik
          /\ domain[bag.kimlik] \in {"yok", bag.sahip}
          /\ bag.adim # "kilitle" => domain[bag.kimlik] # "yok"
          /\ bag.kimlik = kal.kimlik => kal.adim \in {"bos", "devral"}

\* The separation of remnants of k is still under way, and b may be one of them.
Ayriliyor(b) ==
    kimlik[b] = kal.kimlik /\ (kal.adim = "listele" \/ (kal.adim \in {"iz", "yaz"} /\ b \in kal.liste))

\* A live row is its account's customer's, and so is what its deletion will say;
\* a customer's name on a row is true.
AitDurumu ==
    \A b \in Yedek :
        /\ durum[b] = "canli" /\ ~Ayriliyor(b) =>
              /\ domain[kimlik[b]] # "yok" => Gosterilir(b, domain[kimlik[b]])
              /\ sil.iz # 0 /\ sil.kimlik = kimlik[b] => Gosterilir(b, sil.sahip)
              /\ uretim # UretimBos /\ uretim.kimlik = kimlik[b] => Gosterilir(b, uretim.sahip)
        /\ sahip[b] \in Musteri => Gosterilir(b, sahip[b])

AitInv == KimlikDurumu /\ AitDurumu

-----------------------------------------------------------------------------
(***************************************************************************)
(* Lemmas about the helpers.                                               *)
(***************************************************************************)
\* A nonempty set of numbers has a smallest one.
LEMMA EnKucukVar ==
    ASSUME NEW S \in SUBSET Nat, S # {}
    PROVE  EnKucuk(S) \in S /\ \A y \in S : EnKucuk(S) <= y
<1> DEFINE R == OpToRel(<, Nat)
<1>0. S \subseteq Nat /\ S # {}
    OBVIOUS
<1>1. PICK x \in S : \A y \in S : ~(<<y, x>> \in R)
    BY <1>0, NatLessThanWellFounded, WFMin
<1>2. ASSUME NEW y \in S PROVE x <= y
    <2>1. x \in Nat /\ y \in Nat
        BY <1>0
    <2>2. ~(y < x)
        BY <1>1, <2>1 DEF OpToRel
    <2> QED
        BY <2>1, <2>2
<1> QED
    BY <1>2 DEF EnKucuk

\* The marking turn has a candidate as long as its list is not empty.
LEMMA AdayVar ==
    ASSUME IsaretDurumu, isaret # IsaretBos
    PROVE  Aday \in isaret.liste /\ Aday[1] \in Yedek /\ Aday[2] \in Kimlik
<1> DEFINE S == {a[1] : a \in isaret.liste}
<1>1. isaret.liste \subseteq Yedek \X Kimlik /\ isaret.liste # {}
    BY DEF IsaretDurumu, IsaretKaydi
<1>2. S \subseteq Nat /\ S # {}
    BY <1>1, SayiVarsayim DEF Yedek
<1>3. EnKucuk(S) \in S /\ \A y \in S : EnKucuk(S) <= y
    BY <1>2, EnKucukVar
<1>4. PICK a \in isaret.liste : a[1] = EnKucuk(S)
    BY <1>3
<1>5. \A c \in isaret.liste : a[1] <= c[1]
    BY <1>3, <1>4
<1>6. Aday \in isaret.liste
    BY <1>5 DEF Aday
<1> QED
    BY <1>1, <1>6

\* A new mark is one of Iz, is on no row and has no snapshot.
LEMMA YeniIzBos ==
    ASSUME BosIz # {}
    PROVE  YeniIz \in Iz /\ anlik[YeniIz] = AnlikYok
<1>1. BosIz \subseteq Nat
    BY SayiVarsayim DEF BosIz, Iz
<1>2. YeniIz \in BosIz
    BY <1>1, EnKucukVar DEF YeniIz
<1> QED
    BY <1>2 DEF BosIz, Kullanilan

LEMMA SahipsizIzTip == \A k : SahipsizIz(k) \subseteq Iz
    BY YeniIzBos DEF SahipsizIz, Devralinabilir

\* Rows that become orphans keep what the columns say together.
LEMMA YetimlestirSutun ==
    ASSUME SutunDurumu, NEW S, NEW i \in Iz, NEW ad \in Musteri \cup {"sk"},
           \A b \in S \cap Yedek : durum[b] = "canli",
           Yetimlestir(S, i, ad)
    PROVE  SutunDurumu'
<1>1. durum' \in [Yedek -> {"yok", "canli", "yetim", "silindi"}]
    BY DEF Yetimlestir, SutunDurumu
<1>2. kimlik' \in [Yedek -> 0 .. KimlikSayisi]
    BY SayiVarsayim DEF Yetimlestir, SutunDurumu
<1>3. iz' \in [Yedek -> 0 .. IzSayisi]
    BY SayiVarsayim DEF Yetimlestir, SutunDurumu, Iz
<1>4. sahip' \in [Yedek -> Musteri \cup {"bos", "sk"}]
    BY DEF Yetimlestir, SutunDurumu
<1>5. sure' \in [Yedek -> {"yok", "ileri", "doldu"}]
    BY DEF Yetimlestir, SutunDurumu
<1>6. SatirDurumu'
    BY DEF Yetimlestir, SutunDurumu, SatirDurumu
<1> QED
    BY <1>1, <1>2, <1>3, <1>4, <1>5, <1>6 DEF SutunDurumu

LEMMA SiliciBosTip == SiliciBos \in SiliciKaydi /\ SiliciTek(SiliciBos)
<1>1. [b \in Yedek |-> 0] \in [Yedek -> IzYa] /\ 0 \in 0 .. YedekSayisi /\ 0 \notin Yedek
    BY SayiVarsayim DEF IzYa, Yedek
<1> QED
    BY <1>1 DEF SiliciBos, SiliciKaydi, SahipYa, SiliciTek, Silmede

\* A step of one deletion leaves the other's record alone.
LEMMA SiliciBirDegisir ==
    ASSUME SiliciDurumu, NEW p \in Silici, NEW s \in SiliciKaydi, SiliciTek(s),
           silici' = [silici EXCEPT ![p] = s]
    PROVE  SiliciDurumu'
    BY DEF SiliciDurumu

\* The row that a deletion is done with leaves its record in its type.
LEMMA SonrakiTip ==
    ASSUME SiliciDurumu, NEW p \in Silici, silici[p].adim \in Silmede,
           NEW bozuk \in SUBSET IzYa, Sonraki(p, bozuk)
    PROVE  SiliciDurumu'
<1> DEFINE r == silici[p]
           f == [r.iz EXCEPT ![r.b] = 0]
           z == r.bozuk \cup bozuk
           s == [r EXCEPT !.adim = "sec", !.b = 0, !.hedef = "yok", !.iz = f, !.bozuk = z]
<1>1. r \in SiliciKaydi /\ r.b \in Yedek /\ SiliciTek(r)
    BY DEF SiliciDurumu, SiliciTek
<1>2. silici' = [silici EXCEPT ![p] = IF r.liste = {} THEN SiliciBos ELSE s]
    BY DEF Sonraki
<1>3. f \in [Yedek -> IzYa] /\ \A c \in Yedek : f[c] = IF c = r.b THEN 0 ELSE r.iz[c]
    BY <1>1, SayiVarsayim DEF SiliciKaydi, IzYa
<1>4. z \in SUBSET IzYa
    BY <1>1 DEF SiliciKaydi
<1>5. s = [r EXCEPT !.adim = "sec", !.b = 0, !.hedef = "yok", !.iz = f, !.bozuk = z]
    OBVIOUS
<1> HIDE DEF r, f, z, s
<1>6. s \in SiliciKaydi /\ s.liste = r.liste /\ s.adim = "sec" /\ s.b = 0 /\ s.iz = f
    <2>1. 0 \in 0 .. YedekSayisi /\ "yok" \in SahipYa
        BY SayiVarsayim DEF SahipYa
    <2> QED
        BY <1>1, <1>3, <1>4, <1>5, <2>1 DEF SiliciKaydi
<1>7. r.liste # {} => SiliciTek(s)
    <2>1. 0 \notin Yedek /\ r.liste \subseteq Yedek
        BY <1>1, SayiVarsayim DEF Yedek, SiliciKaydi
    <2>2. \A c \in Yedek : c \in r.liste => c = r.b \/ f[c] \in Iz
        BY <1>1, <1>3 DEF SiliciTek
    <2> QED
        BY <1>1, <1>6, <2>1, <2>2 DEF SiliciTek, Silmede
<1> QED
    BY <1>2, <1>6, <1>7, SiliciBosTip, SiliciBirDegisir
-----------------------------------------------------------------------------
(***************************************************************************)
(* The frame: which actions change what.                                   *)
(***************************************************************************)
LEMMA DomainCerceve ==
    ASSUME [Next]_vars
    PROVE  \/ UNCHANGED <<domain, sonKimlik>>
           \/ \E m \in Musteri : YeniDomain(m)
           \/ SilDomain
           \/ Coku
    BY DEF YedekKaydet, KalListele, KalIz, KalYaz, KalDevral, SilAnlik, SilYaz, IsaretAcilis,
           IsaretIz, IsaretYaz, SupurIsaretle, SupurListele, UcBasla, BagKilitle, BagDefter,
           BagYaz, BagBitir, YedekBasla, SilHazirla, BagBasla, Sec, Dogrula, UzakSil, SatirSil,
           Bitir, SureDolar, YuklemeBiter, Siliciler, Next,
           vars, satirVars, kopyaVars, gecmisVars, sinirVars

LEMMA SatirCerceve ==
    ASSUME [Next]_vars
    PROVE  \/ UNCHANGED satirVars
           \/ YedekKaydet
           \/ KalYaz
           \/ SilYaz
           \/ IsaretYaz
           \/ \E p \in Silici : SatirSil(p)
           \/ BagYaz
           \/ \E b \in Yedek : SureDolar(b)
    BY DEF KalListele, KalIz, KalDevral, SilDomain, SilAnlik, IsaretAcilis, IsaretIz,
           SupurIsaretle, SupurListele, UcBasla, BagKilitle, BagDefter, BagBitir, Coku,
           YedekBasla, SilHazirla, BagBasla, YeniDomain, Sec, Dogrula, UzakSil, Bitir, YuklemeBiter,
           Siliciler, Next, vars, satirVars, kopyaVars, gecmisVars, sinirVars

LEMMA KopyaCerceve ==
    ASSUME [Next]_vars
    PROVE  \/ UNCHANGED kopyaVars
           \/ YedekKaydet
           \/ \E p \in Silici : UzakSil(p) \/ SatirSil(p)
           \/ \E b \in Yedek : YuklemeBiter(b)
           \/ Coku
    BY DEF KalListele, KalIz, KalYaz, KalDevral, SilDomain, SilAnlik, SilYaz, IsaretAcilis,
           IsaretIz, IsaretYaz, SupurIsaretle, SupurListele, UcBasla, BagKilitle, BagDefter,
           BagYaz, BagBitir, YedekBasla, SilHazirla, BagBasla, YeniDomain, Sec, Dogrula,
           Bitir, SureDolar, Siliciler, Next,
           vars, satirVars, kopyaVars, gecmisVars, sinirVars

LEMMA AnlikCerceve ==
    ASSUME [Next]_vars
    PROVE  \/ UNCHANGED anlik
           \/ SilAnlik
           \/ SupurListele
           \/ \E p \in Silici : Bitir(p)
           \/ BagBitir
    BY DEF YedekKaydet, KalListele, KalIz, KalYaz, KalDevral, SilDomain, SilYaz, IsaretAcilis,
           IsaretIz, IsaretYaz, SupurIsaretle, UcBasla, BagKilitle, BagDefter, BagYaz, Coku,
           YedekBasla, SilHazirla, BagBasla, YeniDomain, Sec, Dogrula, UzakSil, SatirSil,
           SureDolar, YuklemeBiter, Siliciler, Next,
           vars, satirVars, kopyaVars, gecmisVars, sinirVars

LEMMA SilCerceve ==
    ASSUME [Next]_vars
    PROVE  \/ UNCHANGED sil
           \/ \E k \in Kimlik : SilHazirla(k)
           \/ SilDomain
           \/ SilAnlik
           \/ SilYaz
           \/ Coku
    BY DEF YedekKaydet, KalListele, KalIz, KalYaz, KalDevral, IsaretAcilis, IsaretIz,
           IsaretYaz, SupurIsaretle, SupurListele, UcBasla, BagKilitle, BagDefter, BagYaz,
           BagBitir, YedekBasla, BagBasla, YeniDomain, Sec, Dogrula, UzakSil, SatirSil, Bitir,
           SureDolar, YuklemeBiter, Siliciler, Next,
           vars, satirVars, kopyaVars, gecmisVars, sinirVars

LEMMA UretimCerceve ==
    ASSUME [Next]_vars
    PROVE  \/ UNCHANGED uretim
           \/ \E k \in Kimlik : YedekBasla(k)
           \/ YedekKaydet
           \/ Coku
    BY DEF KalListele, KalIz, KalYaz, KalDevral, SilDomain, SilAnlik, SilYaz, IsaretAcilis,
           IsaretIz, IsaretYaz, SupurIsaretle, SupurListele, UcBasla, BagKilitle, BagDefter,
           BagYaz, BagBitir, SilHazirla, BagBasla, YeniDomain, Sec, Dogrula, UzakSil, SatirSil,
           Bitir, SureDolar, YuklemeBiter, Siliciler, Next,
           vars, satirVars, kopyaVars, gecmisVars, sinirVars

LEMMA KalCerceve ==
    ASSUME [Next]_vars
    PROVE  \/ UNCHANGED kal
           \/ \E m \in Musteri : YeniDomain(m)
           \/ KalListele
           \/ KalIz
           \/ KalYaz
           \/ KalDevral
           \/ Coku
    BY DEF YedekKaydet, SilDomain, SilAnlik, SilYaz, IsaretAcilis, IsaretIz, IsaretYaz,
           SupurIsaretle, SupurListele, UcBasla, BagKilitle, BagDefter, BagYaz, BagBitir,
           YedekBasla, SilHazirla, BagBasla, Sec, Dogrula, UzakSil, SatirSil, Bitir, SureDolar,
           YuklemeBiter, Siliciler, Next, vars, satirVars, kopyaVars, gecmisVars, sinirVars

LEMMA IsaretCerceve ==
    ASSUME [Next]_vars
    PROVE  \/ UNCHANGED isaret
           \/ IsaretAcilis
           \/ IsaretIz
           \/ IsaretYaz
           \/ SupurIsaretle
           \/ Coku
    BY DEF YedekKaydet, KalListele, KalIz, KalYaz, KalDevral, SilDomain, SilAnlik, SilYaz,
           SupurListele, UcBasla, BagKilitle, BagDefter, BagYaz, BagBitir, YedekBasla,
           SilHazirla, BagBasla, YeniDomain, Sec, Dogrula, UzakSil, SatirSil, Bitir, SureDolar,
           YuklemeBiter, Siliciler, Next, vars, satirVars, kopyaVars, gecmisVars, sinirVars

LEMMA SiliciCerceve ==
    ASSUME [Next]_vars
    PROVE  \/ UNCHANGED silici
           \/ SupurIsaretle
           \/ SupurListele
           \/ UcBasla
           \/ \E p \in Silici : Siliciler(p)
           \/ Coku
    BY DEF YedekKaydet, KalListele, KalIz, KalYaz, KalDevral, SilDomain, SilAnlik, SilYaz,
           IsaretAcilis, IsaretIz, IsaretYaz, BagKilitle, BagDefter, BagYaz, BagBitir,
           YedekBasla, SilHazirla, BagBasla, YeniDomain, Sec, Dogrula, UzakSil, SatirSil,
           Bitir, SureDolar, YuklemeBiter, Siliciler, Next,
           vars, satirVars, kopyaVars, gecmisVars, sinirVars

LEMMA BagCerceve ==
    ASSUME [Next]_vars
    PROVE  \/ UNCHANGED bag
           \/ \E k \in Kimlik : BagBasla(k)
           \/ KalDevral
           \/ BagKilitle
           \/ BagDefter
           \/ BagYaz
           \/ BagBitir
           \/ Coku
    BY DEF YedekKaydet, KalListele, KalIz, KalYaz, SilDomain, SilAnlik, SilYaz, IsaretAcilis,
           IsaretIz, IsaretYaz, SupurIsaretle, SupurListele, UcBasla, YedekBasla, SilHazirla,
           YeniDomain, Sec, Dogrula, UzakSil, SatirSil, Bitir, SureDolar, YuklemeBiter, Siliciler, Next,
           vars, satirVars, kopyaVars, gecmisVars, sinirVars

LEMMA GecmisCerceve ==
    ASSUME [Next]_vars
    PROVE  \/ UNCHANGED <<asil, goruntulu, onayli, gec, listedeyken>>
           \/ YedekKaydet
           \/ SilYaz
           \/ BagYaz
    BY DEF KalListele, KalIz, KalYaz, KalDevral, SilDomain, SilAnlik, IsaretAcilis, IsaretIz,
           IsaretYaz, SupurIsaretle, SupurListele, UcBasla, BagKilitle, BagDefter, BagBitir,
           Coku, YedekBasla, SilHazirla, BagBasla, YeniDomain, Sec, Dogrula, UzakSil, SatirSil,
           Bitir, SureDolar, YuklemeBiter, Siliciler, Next,
           vars, satirVars, kopyaVars, gecmisVars, sinirVars

LEMMA YuklenirkenCerceve ==
    ASSUME [Next]_vars
    PROVE  \/ UNCHANGED yuklenirken
           \/ \E p \in Silici : UzakSil(p)
    BY DEF YedekKaydet, KalListele, KalIz, KalYaz, KalDevral, SilDomain, SilAnlik, SilYaz,
           IsaretAcilis, IsaretIz, IsaretYaz, SupurIsaretle, SupurListele, UcBasla, BagKilitle,
           BagDefter, BagYaz, BagBitir, Coku, YedekBasla, SilHazirla, BagBasla, YeniDomain, Sec,
           Dogrula, SatirSil, Bitir, SureDolar, YuklemeBiter, Siliciler, Next, vars, gecmisVars

-----------------------------------------------------------------------------
(***************************************************************************)
(* Every step keeps the types.                                             *)
(***************************************************************************)
LEMMA DomainAdim ==
    ASSUME YapiInv, [Next]_vars
    PROVE  DomainDurumu'
<1> USE DEF YapiInv, DomainDurumu
<1>1. CASE UNCHANGED <<domain, sonKimlik>>
    BY <1>1
<1>2. CASE \E m \in Musteri : YeniDomain(m)
    <2>1. PICK m \in Musteri : YeniDomain(m)
        BY <1>2
    <2>2. sonKimlik' = sonKimlik + 1 /\ sonKimlik < KimlikSayisi
        BY <2>1 DEF YeniDomain
    <2>3. sonKimlik' \in 0 .. KimlikSayisi
        BY <2>2, SayiVarsayim
    <2>4. domain' = [domain EXCEPT ![sonKimlik'] = m]
        BY <2>1 DEF YeniDomain
    <2> QED
        BY <2>3, <2>4
<1>3. CASE SilDomain
    BY <1>3 DEF SilDomain
<1>4. CASE Coku
    <2>1. domain' = domain /\ \E n \in 0 .. sonKimlik : sonKimlik' = n
        BY <1>4 DEF Coku
    <2> QED
        BY <2>1, SayiVarsayim
<1> QED
    BY <1>1, <1>2, <1>3, <1>4, DomainCerceve

LEMMA SatirAdim ==
    ASSUME YapiInv, [Next]_vars
    PROVE  SutunDurumu'
<1> USE DEF YapiInv
<1>1. CASE UNCHANGED satirVars
    BY <1>1 DEF SutunDurumu, SatirDurumu, satirVars
<1>2. CASE YedekKaydet
    <2>1. uretim.kimlik \in Kimlik /\ uretim.kimlik \in 0 .. KimlikSayisi
        BY <1>2, SayiVarsayim DEF YedekKaydet, UretimDurumu, Kimlik
    <2> QED
        BY <1>2, <2>1 DEF YedekKaydet, SutunDurumu, SatirDurumu
<1>3. CASE KalYaz
    <2>1. CASE Vur("yaz") /\ UNCHANGED satirVars
        BY <2>1 DEF SutunDurumu, SatirDurumu, satirVars
    <2>2. CASE Yetimlestir({EnKucuk(kal.liste)} \cap Kalinti, kal.iz, "sk")
        BY <1>3, <2>2, YetimlestirSutun DEF KalYaz, KalDurumu, Kalinti
    <2> QED
        BY <1>3, <2>1, <2>2 DEF KalYaz
<1>4. CASE SilYaz
    <2> DEFINE S == {b \in Yedek : kimlik[b] = sil.kimlik}
    <2>1. CASE UNCHANGED satirVars
        BY <2>1 DEF SutunDurumu, SatirDurumu, satirVars
    <2>2. CASE Yetimlestir(S, sil.iz, sil.sahip)
        <3>1. sil.kimlik \in Kimlik /\ sil.iz \in Iz /\ sil.sahip \in Musteri /\ 0 \notin Kimlik
            BY <1>4, SayiVarsayim DEF SilYaz, SilDurumu, SilKaydi, Iz, IzYa, Kimlik
        <3>2. \A b \in S \cap Yedek : durum[b] = "canli"
            BY <3>1 DEF SutunDurumu, SatirDurumu
        <3> QED
            BY <2>2, <3>1, <3>2, YetimlestirSutun
    <2> QED
        BY <1>4, <2>1, <2>2 DEF SilYaz
<1>5. CASE IsaretYaz
    <2>1. CASE UNCHANGED satirVars
        BY <2>1 DEF SutunDurumu, SatirDurumu, satirVars
    <2>2. CASE Yetimlestir({Aday[1]} \cap Adaylar, isaret.izler[Aday[2]], "sk")
        <3>1. isaret.izler[Aday[2]] \in Iz
            BY <1>5, AdayVar, SayiVarsayim DEF IsaretYaz, IsaretDurumu, IsaretKaydi, IzYa, Iz
        <3>2. \A b \in ({Aday[1]} \cap Adaylar) \cap Yedek : durum[b] = "canli"
            BY DEF Adaylar, Sahipsiz
        <3> QED
            BY <2>2, <3>1, <3>2, YetimlestirSutun
    <2> QED
        BY <1>5, <2>1, <2>2 DEF IsaretYaz
<1>6. CASE \E p \in Silici : SatirSil(p)
    <2>1. PICK p \in Silici : SatirSil(p)
        BY <1>6
    <2>2. CASE UNCHANGED satirVars
        BY <2>2 DEF SutunDurumu, SatirDurumu, satirVars
    <2>3. CASE /\ Yetim(silici[p].b)
               /\ durum' = [durum EXCEPT ![silici[p].b] = "silindi"]
               /\ iz' = [iz EXCEPT ![silici[p].b] = 0]
               /\ sahip' = [sahip EXCEPT ![silici[p].b] = "bos"]
               /\ sure' = [sure EXCEPT ![silici[p].b] = "yok"]
               /\ kimlik' = kimlik
        <3> DEFINE b == silici[p].b
        <3>1. durum' \in [Yedek -> {"yok", "canli", "yetim", "silindi"}]
            BY <2>3 DEF SutunDurumu
        <3>2. kimlik' \in [Yedek -> 0 .. KimlikSayisi] /\ iz' \in [Yedek -> 0 .. IzSayisi]
            <4>1. 0 \in 0 .. IzSayisi
                BY SayiVarsayim
            <4> QED
                BY <2>3, <4>1 DEF SutunDurumu
        <3>3. sahip' \in [Yedek -> Musteri \cup {"bos", "sk"}]
            BY <2>3 DEF SutunDurumu
        <3>4. sure' \in [Yedek -> {"yok", "ileri", "doldu"}]
            BY <2>3 DEF SutunDurumu
        <3>5. \A c \in Yedek :
                  IF c = b THEN durum'[c] = "silindi" /\ kimlik'[c] = 0
                  ELSE /\ durum'[c] = durum[c] /\ kimlik'[c] = kimlik[c] /\ iz'[c] = iz[c]
                       /\ sahip'[c] = sahip[c] /\ sure'[c] = sure[c]
            BY <2>3 DEF SutunDurumu, SatirDurumu, Yetim
        <3>6. SatirDurumu'
            BY <3>5 DEF SutunDurumu, SatirDurumu
        <3> QED
            BY <3>1, <3>2, <3>3, <3>4, <3>6 DEF SutunDurumu
    <2> QED
        BY <2>1, <2>2, <2>3 DEF SatirSil, satirVars
<1>7. CASE BagYaz
    <2>1. CASE UNCHANGED satirVars
        BY <2>1 DEF SutunDurumu, SatirDurumu, satirVars
    <2> DEFINE S == Uyan \ bag.defter
    <2>2. CASE /\ durum' = [b \in Yedek |-> IF b \in S THEN "canli" ELSE durum[b]]
               /\ kimlik' = [b \in Yedek |-> IF b \in S THEN bag.kimlik ELSE kimlik[b]]
               /\ iz' = [b \in Yedek |-> IF b \in S THEN 0 ELSE iz[b]]
               /\ sure' = [b \in Yedek |-> IF b \in S THEN "yok" ELSE sure[b]]
               /\ sahip' = sahip
        <3>1. bag.kimlik \in Kimlik /\ bag.kimlik \in 0 .. KimlikSayisi
            BY <1>7, SayiVarsayim DEF BagYaz, BagDurumu, Kimlik
        <3>2. \A b \in S : durum[b] = "yetim"
            BY DEF Uyan, Yetim
        <3> HIDE DEF S
        <3> QED
            BY <2>2, <3>1, <3>2, SayiVarsayim DEF SutunDurumu, SatirDurumu
    <2> QED
        BY <1>7, <2>1, <2>2 DEF BagYaz, satirVars
<1>8. CASE \E b \in Yedek : SureDolar(b)
    BY <1>8 DEF SureDolar, SutunDurumu, SatirDurumu
<1> QED
    BY <1>1, <1>2, <1>3, <1>4, <1>5, <1>6, <1>7, <1>8, SatirCerceve

LEMMA KopyaAdim ==
    ASSUME YapiInv, [Next]_vars
    PROVE  KopyaDurumu'
<1> USE DEF YapiInv, KopyaDurumu
<1>1. CASE UNCHANGED kopyaVars
    BY <1>1 DEF kopyaVars
<1>2. CASE YedekKaydet
    BY <1>2 DEF YedekKaydet
<1>3. ASSUME NEW p \in Silici, UzakSil(p) PROVE KopyaDurumu'
    BY <1>3 DEF UzakSil
<1>4. ASSUME NEW p \in Silici, SatirSil(p) PROVE KopyaDurumu'
    BY <1>4 DEF SatirSil
<1>5. ASSUME NEW b \in Yedek, YuklemeBiter(b) PROVE KopyaDurumu'
    BY <1>5 DEF YuklemeBiter
<1>6. CASE Coku
    BY <1>6 DEF Coku
<1> QED
    BY <1>1, <1>2, <1>3, <1>4, <1>5, <1>6, KopyaCerceve

\* A snapshot is written by an account's deletion, and otherwise only goes.
LEMMA AnlikAdim ==
    ASSUME YapiInv, [Next]_vars
    PROVE  /\ AnlikDurumu'
           /\ \/ \A i \in Iz : anlik'[i] = anlik[i] \/ anlik'[i] = AnlikYok
              \/ SilAnlik
<1> USE DEF YapiInv
<1>0. AnlikYok.sahip \in SahipYa
    BY DEF AnlikYok, SahipYa
<1>1. CASE UNCHANGED anlik
    BY <1>1 DEF AnlikDurumu
<1>2. CASE SilAnlik
    <2>1. CASE UNCHANGED anlik
        BY <1>2, <2>1 DEF AnlikDurumu
    <2>2. CASE anlik' = [anlik EXCEPT ![sil.iz] = [no |-> 1 + EnBuyukNo, kimlik |-> sil.kimlik,
                                                   sahip |-> sil.sahip]]
        <3> DEFINE y == [no |-> 1 + EnBuyukNo, kimlik |-> sil.kimlik, sahip |-> sil.sahip]
        <3>1. y.sahip \in SahipYa
            BY DEF SilDurumu, SilKaydi
        <3> HIDE DEF y
        <3>2. anlik' = [anlik EXCEPT ![sil.iz] = y]
            BY <2>2 DEF y
        <3> QED
            BY <1>2, <3>1, <3>2 DEF AnlikDurumu
    <2> QED
        BY <1>2, <2>1, <2>2 DEF SilAnlik
<1>3. CASE SupurListele
    <2>1. anlik' = anlik \/ anlik' = [i \in Iz |-> IF Artik(i) THEN AnlikYok ELSE anlik[i]]
        BY <1>3 DEF SupurListele, TemizleListele
    <2> QED
        BY <1>0, <2>1 DEF AnlikDurumu
<1>4. ASSUME NEW i, anlik' = anlik \/ anlik' = [anlik EXCEPT ![i] = AnlikYok]
      PROVE  AnlikDurumu' /\ \A j \in Iz : anlik'[j] = anlik[j] \/ anlik'[j] = AnlikYok
    BY <1>0, <1>4 DEF AnlikDurumu
<1>5. CASE \E p \in Silici : Bitir(p)
    BY <1>4, <1>5 DEF Bitir, HedefBittiyse
<1>6. CASE BagBitir
    BY <1>4, <1>6 DEF BagBitir, HedefBittiyse
<1> QED
    BY <1>1, <1>2, <1>3, <1>5, <1>6, AnlikCerceve

LEMMA SilAdim ==
    ASSUME YapiInv, [Next]_vars
    PROVE  SilDurumu'
<1> USE DEF YapiInv
<1>0. SilBos \in SilKaydi /\ SilBos.adim = "bos" /\ SilBos.iz = 0
    BY SayiVarsayim DEF SilBos, SilKaydi, KimlikYa, IzYa, SahipYa
<1>1. CASE UNCHANGED sil
    BY <1>1 DEF SilDurumu
<1>2. CASE \E k \in Kimlik : SilHazirla(k)
    <2>1. PICK k \in Kimlik : SilHazirla(k)
        BY <1>2
    <2>2. domain[k] \in Musteri /\ domain[k] \in SahipYa /\ k \in KimlikYa
        BY <2>1, SayiVarsayim DEF SilHazirla, DomainDurumu, SahipYa, KimlikYa, Kimlik
    <2>3. CASE /\ BosIz # {}
               /\ sil' = [adim |-> "domain", kimlik |-> k, iz |-> YeniIz, sahip |-> domain[k],
                          hedef |-> domain[k] \in Hedefli]
        <3>1. YeniIz \in Iz /\ YeniIz \in IzYa
            BY <2>3, YeniIzBos, SayiVarsayim DEF Iz, IzYa
        <3>2. (domain[k] \in Hedefli) \in BOOLEAN
            OBVIOUS
        <3>3. sil' \in SilKaydi
            BY <2>2, <2>3, <3>1, <3>2 DEF SilKaydi
        <3> QED
            BY <2>2, <2>3, <3>3 DEF SilDurumu
    <2>4. CASE sil' = [SilBos EXCEPT !.adim = "domain", !.kimlik = k]
        <3>1. sil' \in SilKaydi /\ sil'.iz = 0 /\ sil'.kimlik = k /\ sil'.adim = "domain"
            BY <1>0, <2>2, <2>4 DEF SilKaydi
        <3> QED
            BY <3>1 DEF SilDurumu
    <2> QED
        BY <2>1, <2>3, <2>4 DEF SilHazirla
<1>3. CASE sil' = SilBos
    BY <1>0, <1>3 DEF SilDurumu
<1>4. CASE SilDomain
    <2>1. CASE sil.iz # 0 /\ sil' = [sil EXCEPT !.adim = "anlik"]
        BY <1>4, <2>1 DEF SilDomain, SilDurumu, SilKaydi
    <2> QED
        BY <1>3, <1>4, <2>1 DEF SilDomain
<1>5. CASE SilAnlik
    BY <1>5 DEF SilAnlik, SilDurumu, SilKaydi
<1>6. CASE SilYaz
    BY <1>3, <1>6 DEF SilYaz
<1>7. CASE Coku
    BY <1>3, <1>7 DEF Coku
<1> QED
    BY <1>1, <1>2, <1>4, <1>5, <1>6, <1>7, SilCerceve

LEMMA UretimAdim ==
    ASSUME YapiInv, [Next]_vars
    PROVE  UretimDurumu'
<1> USE DEF YapiInv
<1>0. UretimBos \in UretimKaydi
    BY SayiVarsayim DEF UretimBos, UretimKaydi, KimlikYa, SahipYa
<1>1. CASE UNCHANGED uretim
    BY <1>1 DEF UretimDurumu
<1>2. CASE \E k \in Kimlik : YedekBasla(k)
    <2>1. PICK k \in Kimlik : YedekBasla(k)
        BY <1>2
    <2>2. domain[k] \in SahipYa /\ k \in KimlikYa
        BY SayiVarsayim DEF DomainDurumu, SahipYa, KimlikYa, Kimlik
    <2>3. uretim' = [kimlik |-> k, sahip |-> domain[k]]
        BY <2>1 DEF YedekBasla
    <2> QED
        BY <2>2, <2>3 DEF UretimDurumu, UretimKaydi
<1>3. CASE uretim' = UretimBos
    BY <1>0, <1>3 DEF UretimDurumu
<1> QED
    BY <1>1, <1>2, <1>3, UretimCerceve DEF YedekKaydet, Coku

LEMMA KalAdim ==
    ASSUME YapiInv, [Next]_vars
    PROVE  KalDurumu'
<1> USE DEF YapiInv
<1>0. KalBos \in KalKaydi /\ KalBos.adim = "bos"
    BY SayiVarsayim DEF KalBos, KalKaydi, KimlikYa, IzYa
<1>12. ASSUME NEW k \in Kimlik, NEW a \in {"listele", "devral"},
             kal' = [KalBos EXCEPT !.adim = a, !.kimlik = k]
      PROVE  KalDurumu'
    <2>1. k \in KimlikYa
        BY SayiVarsayim DEF Kimlik, KimlikYa
    <2> QED
        BY <1>0, <1>12, <2>1 DEF KalDurumu, KalKaydi
<1>1. CASE UNCHANGED kal
    BY <1>1 DEF KalDurumu
<1>2. ASSUME KalBitti, kal.adim # "bos" PROVE KalDurumu'
    BY <1>12, <1>2 DEF KalBitti, KalDurumu
<1>3. CASE \E m \in Musteri : YeniDomain(m)
    <2>1. /\ sonKimlik' = sonKimlik + 1 /\ sonKimlik < KimlikSayisi
          /\ kal' = [KalBos EXCEPT !.adim = "listele", !.kimlik = sonKimlik']
        BY <1>3 DEF YeniDomain
    <2>2. sonKimlik' \in Kimlik
        BY <2>1, SayiVarsayim DEF DomainDurumu, Kimlik
    <2> QED
        BY <1>12, <2>1, <2>2
<1>4. CASE KalListele
    <2>1. CASE Kalinti # {} /\ kal' = [kal EXCEPT !.adim = "iz", !.liste = Kalinti]
        <3>1. Kalinti \in SUBSET Yedek
            BY DEF Kalinti
        <3> QED
            BY <1>4, <2>1, <3>1 DEF KalListele, KalDurumu, KalKaydi
    <2> QED
        BY <1>2, <1>4, <2>1 DEF KalListele
<1>5. CASE KalIz
    <2>1. PICK i \in Iz : kal' = [kal EXCEPT !.adim = "yaz", !.iz = i]
        BY <1>5, SahipsizIzTip DEF KalIz
    <2>2. i \in IzYa
        BY SayiVarsayim DEF Iz, IzYa
    <2> QED
        BY <1>5, <2>1, <2>2 DEF KalIz, KalDurumu, KalKaydi
<1>6. CASE KalYaz
    <2> DEFINE b == EnKucuk(kal.liste)
    <2>1. CASE kal.liste # {b} /\ kal' = [kal EXCEPT !.liste = @ \ {b}]
        BY <1>6, <2>1 DEF KalYaz, KalDurumu, KalKaydi
    <2> QED
        BY <1>2, <1>6, <2>1 DEF KalYaz
<1>7. CASE kal' = KalBos
    BY <1>0, <1>7 DEF KalDurumu
<1> QED
    BY <1>1, <1>3, <1>4, <1>5, <1>6, <1>7, KalCerceve DEF KalDevral, Coku

LEMMA IsaretAdim ==
    ASSUME YapiInv, [Next]_vars
    PROVE  IsaretDurumu'
<1> USE DEF YapiInv
<1>0. IsaretBos \in IsaretKaydi
    BY SayiVarsayim DEF IsaretBos, IsaretKaydi, IzYa
<1>1. CASE UNCHANGED isaret
    BY <1>1 DEF IsaretDurumu
<1>2. CASE isaret' = IsaretBos
    BY <1>0, <1>2 DEF IsaretDurumu
<1>3. ASSUME NEW kim \in {"acilis", "supur"}, IsaretBasla(kim)
      PROVE  IsaretDurumu'
    <2> DEFINE L == {<<b, kimlik[b]>> : b \in Adaylar}
    <2>1. L \subseteq Yedek \X Kimlik
        BY DEF Adaylar, Sahipsiz, SutunDurumu, SatirDurumu
    <2>2. CASE Adaylar # {} /\ isaret' = [IsaretBos EXCEPT !.kim = kim, !.liste = L]
        <3>1. L # {}
            BY <2>2
        <3> HIDE DEF L
        <3> QED
            BY <1>0, <2>1, <2>2, <3>1 DEF IsaretDurumu, IsaretKaydi
    <2> QED
        BY <1>2, <1>3, <2>2 DEF IsaretBasla
<1>4. CASE IsaretAcilis
    BY <1>3, <1>4 DEF IsaretAcilis
<1>5. CASE SupurIsaretle
    BY <1>3, <1>5 DEF SupurIsaretle
<1>6. CASE IsaretIz
    <2>1. PICK i \in Iz : isaret' = [isaret EXCEPT !.izler = [isaret.izler EXCEPT ![Aday[2]] = i]]
        BY <1>6, SahipsizIzTip DEF IsaretIz
    <2> DEFINE f == [isaret.izler EXCEPT ![Aday[2]] = i]
    <2>2. f \in [Kimlik -> IzYa]
        <3>1. i \in IzYa /\ isaret.izler \in [Kimlik -> IzYa]
            BY SayiVarsayim DEF IsaretDurumu, IsaretKaydi, Iz, IzYa
        <3> QED
            BY <3>1
    <2> HIDE DEF f
    <2>3. isaret' = [isaret EXCEPT !.izler = f]
        BY <2>1 DEF f
    <2> QED
        BY <1>6, <2>2, <2>3 DEF IsaretIz, IsaretDurumu, IsaretKaydi
<1>7. CASE IsaretYaz
    <2>1. CASE isaret.liste # {Aday} /\ isaret' = [isaret EXCEPT !.liste = @ \ {Aday}]
        BY <1>7, <2>1 DEF IsaretYaz, IsaretDurumu, IsaretKaydi
    <2> QED
        BY <1>2, <1>7, <2>1 DEF IsaretYaz
<1> QED
    BY <1>1, <1>2, <1>4, <1>5, <1>6, <1>7, IsaretCerceve DEF Coku

LEMMA BagBosTip == BagBos \in BagKaydi /\ BagBos.adim = "bos"
    BY SayiVarsayim DEF BagBos, BagKaydi, KimlikYa, SahipYa

LEMMA BagAdim ==
    ASSUME YapiInv, [Next]_vars
    PROVE  BagDurumu'
<1> USE DEF YapiInv
<1>0. BagBos \in BagKaydi /\ BagBos.adim = "bos"
    BY BagBosTip
<1>1. CASE UNCHANGED bag
    BY <1>1 DEF BagDurumu
<1>2. CASE bag' = BagBos
    BY <1>0, <1>2 DEF BagDurumu
<1>3. ASSUME NEW k \in Kimlik, NEW m \in Musteri, NEW h \in BOOLEAN,
             bag' = [BagBos EXCEPT !.adim = "kilitle", !.kimlik = k, !.sahip = m, !.hepsi = h]
      PROVE  BagDurumu'
    <2>1. k \in KimlikYa /\ m \in SahipYa
        BY SayiVarsayim DEF Kimlik, KimlikYa, SahipYa
    <2> QED
        BY <1>0, <1>3, <2>1 DEF BagDurumu, BagKaydi
<1>4. ASSUME NEW k \in Kimlik, domain[k] # "yok", NEW h \in BOOLEAN, BagYeni(k, h)
      PROVE  BagDurumu'
    <2>1. domain[k] \in Musteri
        BY <1>4 DEF DomainDurumu
    <2> QED
        BY <1>3, <1>4, <2>1 DEF BagYeni
<1>5. CASE \E k \in Kimlik : BagBasla(k)
    BY <1>4, <1>5 DEF BagBasla
<1>6. CASE KalDevral
    <2>1. CASE domain[kal.kimlik] # "yok" /\ BagYeni(kal.kimlik, FALSE)
        <3>1. kal.kimlik \in Kimlik
            BY <1>6 DEF KalDevral, KalDurumu
        <3> QED
            BY <1>4, <2>1, <3>1
    <2> QED
        BY <1>1, <1>6, <2>1 DEF KalDevral
<1>7. CASE BagKilitle
    <2> DEFINE z == {iz[b] : b \in Uyan} \ {0}
    <2>1. CASE bag' = [bag EXCEPT !.adim = "defter", !.kilitli = Uyan, !.izler = z]
        <3>1. Uyan \in SUBSET Yedek /\ z \in SUBSET Iz
            BY DEF Uyan, Yetim, SutunDurumu, SatirDurumu
        <3> HIDE DEF z
        <3> QED
            BY <1>7, <2>1, <3>1 DEF BagKilitle, BagDurumu, BagKaydi
    <2> QED
        BY <1>2, <1>7, <2>1 DEF BagKilitle
<1>8. CASE BagDefter
    <2>1. Defter \in SUBSET (0 .. YedekSayisi)
        BY DEF Defter, SiliciDurumu, SiliciKaydi
    <2> QED
        BY <1>8, <2>1 DEF BagDefter, BagDurumu, BagKaydi
<1>9. CASE BagYaz
    <2>1. CASE bag.izler # {} /\ bag' = [BagBos EXCEPT !.adim = "bitir", !.izler = bag.izler]
        BY <1>0, <2>1 DEF BagDurumu, BagKaydi
    <2>2. CASE bag' = [BagBos EXCEPT !.adim = "kilitle", !.kimlik = bag.kimlik,
                                     !.sahip = bag.sahip, !.hepsi = bag.hepsi]
        <3>1. bag.kimlik \in Kimlik /\ bag.sahip \in Musteri /\ bag.hepsi \in BOOLEAN
            BY <1>9 DEF BagYaz, BagDurumu, BagKaydi
        <3> QED
            BY <1>3, <2>2, <3>1
    <2> QED
        BY <1>2, <1>9, <2>1, <2>2 DEF BagYaz
<1>10. CASE BagBitir
    <2> DEFINE i == EnKucuk(bag.izler)
    <2>1. CASE bag.izler # {i} /\ bag' = [bag EXCEPT !.izler = @ \ {i}]
        BY <1>10, <2>1 DEF BagBitir, BagDurumu, BagKaydi
    <2> QED
        BY <1>2, <1>10, <2>1 DEF BagBitir
<1>11. CASE Coku
    BY <1>2, <1>11 DEF Coku
<1> QED
    BY <1>1, <1>5, <1>6, <1>7, <1>8, <1>9, <1>10, <1>11, BagCerceve

LEMMA GecmisAdim ==
    ASSUME YapiInv, [Next]_vars
    PROVE  GecmisDurumu'
<1> USE DEF YapiInv
<1>1. CASE UNCHANGED <<asil, goruntulu, onayli, gec, listedeyken>>
    BY <1>1 DEF GecmisDurumu
<1>2. CASE YedekKaydet
    <2>1. uretim.sahip \in SahipYa
        BY DEF UretimDurumu, UretimKaydi
    <2> QED
        BY <1>2, <2>1 DEF YedekKaydet, GecmisDurumu
<1>3. CASE SilYaz
    BY <1>3 DEF SilYaz, GecmisDurumu
<1>4. CASE BagYaz
    BY <1>4 DEF BagYaz, GecmisDurumu
<1> QED
    BY <1>1, <1>2, <1>3, <1>4, GecmisCerceve

\* The rows a deletion reads are orphans, with marks.
LEMMA ListeleTip ==
    ASSUME YapiInv, NEW p \in Silici, NEW S, \A b \in S : b \in Yedek /\ Yetim(b),
           NEW yoksay \in BOOLEAN, Listele(p, S, yoksay)
    PROVE  SiliciDurumu'
<1> USE DEF YapiInv
<1> DEFINE f == [b \in Yedek |-> IF b \in S THEN iz[b] ELSE 0]
           s == [SiliciBos EXCEPT !.adim = "sec", !.liste = S, !.yoksay = yoksay, !.iz = f]
<1>1. silici' = [silici EXCEPT ![p] = IF S = {} THEN SiliciBos ELSE s]
    BY DEF Listele
<1>2. f \in [Yedek -> IzYa] /\ \A b \in S : f[b] \in Iz
    BY SayiVarsayim DEF IzYa, Yetim, SutunDurumu, SatirDurumu
<1>3. s = [SiliciBos EXCEPT !.adim = "sec", !.liste = S, !.yoksay = yoksay, !.iz = f]
    OBVIOUS
<1>4. S \in SUBSET Yedek /\ 0 \notin Yedek
    BY SayiVarsayim DEF Yedek
<1> HIDE DEF f, s
<1>5. SiliciBos \in SiliciKaydi /\ SiliciBos.b = 0
    BY SiliciBosTip DEF SiliciBos
<1>6. /\ s \in SiliciKaydi /\ s.adim = "sec" /\ s.liste = S /\ s.iz = f /\ s.b = 0
    BY <1>2, <1>3, <1>4, <1>5 DEF SiliciKaydi
<1>7. S # {} => SiliciTek(s)
    BY <1>2, <1>4, <1>6 DEF SiliciTek, Silmede
<1> QED
    BY <1>1, <1>6, <1>7, SiliciBosTip, SiliciBirDegisir

LEMMA SiliciAdim ==
    ASSUME YapiInv, [Next]_vars
    PROVE  SiliciDurumu'
<1> USE DEF YapiInv
<1>0. Silici = {"supur", "uc"}
    BY DEF Silici
<1>1. CASE UNCHANGED silici
    BY <1>1 DEF SiliciDurumu
<1>2. ASSUME NEW p \in Silici, silici' = [silici EXCEPT ![p] = SiliciBos]
      PROVE  SiliciDurumu'
    BY <1>2, SiliciBosTip, SiliciBirDegisir
<1>3. CASE SupurIsaretle
    <2> DEFINE s == [silici["supur"] EXCEPT !.adim = "isaret"]
    <2>1. silici["supur"] = SiliciBos /\ silici' = [silici EXCEPT !["supur"] = s]
        BY <1>3 DEF SupurIsaretle
    <2>2. /\ s = [SiliciBos EXCEPT !.adim = "isaret"]
          /\ SiliciBos \in SiliciKaydi /\ SiliciBos.liste = {} /\ SiliciBos.b = 0
        BY <2>1, SiliciBosTip DEF SiliciBos
    <2>3. 0 \notin Yedek
        BY SayiVarsayim DEF Yedek
    <2> HIDE DEF s
    <2>5. s \in SiliciKaydi /\ s.adim = "isaret" /\ s.liste = {} /\ s.b = 0
        BY <2>2 DEF SiliciKaydi
    <2>4. SiliciTek(s)
        BY <2>3, <2>5 DEF SiliciTek, Silmede
    <2> QED
        BY <1>0, <2>1, <2>4, <2>5, SiliciBirDegisir
<1>4. CASE SupurListele
    <2> DEFINE S == {b \in Yedek : Yetim(b) /\ sure[b] = "doldu"}
    <2>1. Listele("supur", S, FALSE) \/ Listele("supur", {}, FALSE)
        BY <1>4 DEF SupurListele, TemizleListele
    <2>2. \A b \in S : b \in Yedek /\ Yetim(b)
        OBVIOUS
    <2> HIDE DEF S
    <2> QED
        BY <1>0, <2>1, <2>2, ListeleTip
<1>5. CASE UcBasla
    <2> DEFINE S == {b \in Yedek : Yetim(b)}
    <2>1. PICK h \in BOOLEAN : Listele("uc", S, h)
        BY <1>5 DEF UcBasla
    <2>2. \A b \in S : b \in Yedek /\ Yetim(b)
        OBVIOUS
    <2> HIDE DEF S
    <2> QED
        BY <1>0, <2>1, <2>2, ListeleTip
<1>6. ASSUME NEW p \in Silici, Sec(p) PROVE SiliciDurumu'
    <2> DEFINE s == silici[p]
               b == EnKucuk(s.liste)
               S == s.liste \ {b}
               f == [s.iz EXCEPT ![b] = 0]
               t == [s EXCEPT !.liste = S, !.iz = f]
               u == [s EXCEPT !.adim = "dogrula", !.liste = S, !.b = b]
    <2>1. /\ s.adim = "sec"
          /\ \/ silici' = [silici EXCEPT ![p] = SiliciBos]
             \/ S # {} /\ silici' = [silici EXCEPT ![p] = t]
             \/ silici' = [silici EXCEPT ![p] = u]
        BY <1>6 DEF Sec
    <2>2. s \in SiliciKaydi /\ SiliciTek(s)
        BY DEF SiliciDurumu
    <2>3. s.liste \in SUBSET Nat /\ s.liste # {} /\ s.liste \in SUBSET Yedek /\ s.iz \in [Yedek -> IzYa]
        BY <2>1, <2>2, SayiVarsayim DEF SiliciKaydi, SiliciTek, Yedek
    <2>4. b \in s.liste /\ b \in Yedek /\ b \in 0 .. YedekSayisi
        <3>1. b \in s.liste
            BY <2>3, EnKucukVar
        <3> QED
            BY <2>3, <3>1, SayiVarsayim DEF Yedek
    <2>5. f \in [Yedek -> IzYa] /\ \A c \in Yedek : c # b => f[c] = s.iz[c]
        <3>1. 0 \in IzYa
            BY SayiVarsayim DEF IzYa
        <3> QED
            BY <2>3, <3>1
    <2>6. /\ t = [s EXCEPT !.liste = S, !.iz = f]
          /\ u = [s EXCEPT !.adim = "dogrula", !.liste = S, !.b = b]
          /\ S \in SUBSET Yedek /\ b \notin S /\ S \subseteq s.liste
        BY <2>3
    <2> HIDE DEF s, b, S, f, t, u
    <2>7. t \in SiliciKaydi /\ t.adim = "sec" /\ t.liste = S /\ t.iz = f /\ t.b = s.b
        BY <2>1, <2>2, <2>5, <2>6 DEF SiliciKaydi
    <2>8. u \in SiliciKaydi /\ u.adim = "dogrula" /\ u.liste = S /\ u.iz = s.iz /\ u.b = b
        BY <2>2, <2>4, <2>6 DEF SiliciKaydi, Silmede
    <2>9. 0 \notin Yedek /\ s.b = 0
        BY <2>1, <2>2, SayiVarsayim DEF SiliciTek, Yedek
    <2>10. S # {} => SiliciTek(t)
        BY <2>1, <2>2, <2>5, <2>6, <2>7, <2>9 DEF SiliciTek, Silmede
    <2>11. SiliciTek(u)
        BY <2>1, <2>2, <2>4, <2>6, <2>8, <2>9 DEF SiliciTek, Silmede
    <2> QED
        BY <1>2, <2>1, <2>7, <2>8, <2>10, <2>11, SiliciBirDegisir
<1>7. ASSUME NEW p \in Silici, silici[p].adim \in Silmede,
             NEW a \in Silmede, NEW h \in SahipYa,
             silici' = [silici EXCEPT ![p] = [silici[p] EXCEPT !.adim = a, !.hedef = h]]
      PROVE  SiliciDurumu'
    <2> DEFINE s == silici[p]
               u == [s EXCEPT !.adim = a, !.hedef = h]
    <2>1. s \in SiliciKaydi /\ SiliciTek(s) /\ s.adim \in Silmede
        BY <1>7 DEF SiliciDurumu
    <2>2. u = [s EXCEPT !.adim = a, !.hedef = h] /\ silici' = [silici EXCEPT ![p] = u]
        BY <1>7
    <2> HIDE DEF s, u
    <2>3. u \in SiliciKaydi /\ u.adim = a /\ u.liste = s.liste /\ u.b = s.b /\ u.iz = s.iz
        BY <2>1, <2>2 DEF SiliciKaydi
    <2>4. SiliciTek(u)
        BY <2>1, <2>3 DEF SiliciTek, Silmede
    <2> QED
        BY <2>2, <2>3, <2>4, SiliciBirDegisir
<1>8. ASSUME NEW p \in Silici, silici[p].adim \in Silmede, NEW a \in Silmede,
             silici' = [silici EXCEPT ![p] = [silici[p] EXCEPT !.adim = a]]
      PROVE  SiliciDurumu'
    <2> DEFINE s == silici[p]
               u == [s EXCEPT !.adim = a]
    <2>1. s \in SiliciKaydi /\ SiliciTek(s) /\ s.adim \in Silmede
        BY <1>8 DEF SiliciDurumu
    <2>2. u = [s EXCEPT !.adim = a] /\ silici' = [silici EXCEPT ![p] = u]
        BY <1>8
    <2> HIDE DEF s, u
    <2>3. u \in SiliciKaydi /\ u.adim = a /\ u.liste = s.liste /\ u.b = s.b /\ u.iz = s.iz
        BY <2>1, <2>2 DEF SiliciKaydi
    <2>4. SiliciTek(u)
        BY <2>1, <2>3 DEF SiliciTek, Silmede
    <2> QED
        BY <2>2, <2>3, <2>4, SiliciBirDegisir
<1>9. {} \in SUBSET IzYa /\ "satir" \in Silmede /\ "uzak" \in Silmede /\ "bitti" \in Silmede
    BY DEF Silmede
<1>10. ASSUME NEW p \in Silici, Dogrula(p) PROVE SiliciDurumu'
    <2>1. silici[p].adim \in Silmede
        BY <1>10 DEF Dogrula, Silmede
    <2>2. anlik[silici[p].iz[silici[p].b]].sahip \in SahipYa
        BY <2>1 DEF SiliciDurumu, SiliciTek, SiliciKaydi, AnlikDurumu
    <2> QED
        BY <1>7, <1>8, <1>9, <1>10, <2>1, <2>2, SonrakiTip DEF Dogrula
<1>11. ASSUME NEW p \in Silici, UzakSil(p) PROVE SiliciDurumu'
    <2>1. silici[p].adim \in Silmede
        BY <1>11 DEF UzakSil, Silmede
    <2>2. {silici[p].iz[silici[p].b]} \in SUBSET IzYa
        BY <2>1 DEF SiliciDurumu, SiliciTek, SiliciKaydi
    <2> QED
        BY <1>8, <1>9, <1>11, <2>1, <2>2, SonrakiTip DEF UzakSil
<1>12. ASSUME NEW p \in Silici, SatirSil(p) PROVE SiliciDurumu'
    <2>1. silici[p].adim \in Silmede
        BY <1>12 DEF SatirSil, Silmede
    <2> QED
        BY <1>8, <1>9, <1>12, <2>1, SonrakiTip DEF SatirSil
<1>13. ASSUME NEW p \in Silici, Bitir(p) PROVE SiliciDurumu'
    <2>1. silici[p].adim \in Silmede
        BY <1>13 DEF Bitir, Silmede
    <2> QED
        BY <1>9, <1>13, <2>1, SonrakiTip DEF Bitir
<1>14. CASE Coku
    <2>1. silici' = [p \in Silici |-> SiliciBos]
        BY <1>14 DEF Coku
    <2> QED
        BY <2>1, SiliciBosTip DEF SiliciDurumu
<1> QED
    BY <1>1, <1>3, <1>4, <1>5, <1>6, <1>10, <1>11, <1>12, <1>13, <1>14, SiliciCerceve
       DEF Siliciler

LEMMA YapiBaslar == Init => YapiInv
<1> SUFFICES ASSUME Init PROVE YapiInv
    OBVIOUS
<1> USE DEF Init
<1>1. DomainDurumu
    BY SayiVarsayim, MusteriVarsayim DEF DomainDurumu
<1>2. SutunDurumu
    <2>1. 0 \in 0 .. KimlikSayisi /\ 1 \in 0 .. KimlikSayisi /\ 1 \in Kimlik /\ 0 \in 0 .. IzSayisi
        BY SayiVarsayim DEF Kimlik
    <2> QED
        BY <2>1 DEF SutunDurumu, SatirDurumu
<1>3. KopyaDurumu
    BY SayiVarsayim DEF KopyaDurumu, Yedek
<1>4. AnlikDurumu
    BY DEF AnlikDurumu, AnlikYok, SahipYa
<1>5. SilDurumu
    BY SayiVarsayim DEF SilDurumu, SilBos, SilKaydi, KimlikYa, IzYa, SahipYa
<1>6. UretimDurumu
    BY SayiVarsayim DEF UretimDurumu, UretimBos, UretimKaydi, KimlikYa, SahipYa
<1>7. KalDurumu
    BY SayiVarsayim DEF KalDurumu, KalBos, KalKaydi, KimlikYa, IzYa
<1>8. IsaretDurumu
    BY SayiVarsayim DEF IsaretDurumu, IsaretBos, IsaretKaydi, IzYa
<1>9. SiliciDurumu
    BY SiliciBosTip DEF SiliciDurumu
<1>10. BagDurumu
    BY SayiVarsayim DEF BagDurumu, BagBos, BagKaydi, KimlikYa, SahipYa
<1>11. GecmisDurumu
    BY MusteriVarsayim DEF GecmisDurumu, SahipYa
<1> QED
    BY <1>1, <1>2, <1>3, <1>4, <1>5, <1>6, <1>7, <1>8, <1>9, <1>10, <1>11 DEF YapiInv

LEMMA YapiAdim == YapiInv /\ [Next]_vars => YapiInv'
    BY DomainAdim, SatirAdim, KopyaAdim, AnlikAdim, SilAdim, UretimAdim, KalAdim, IsaretAdim,
       SiliciAdim, BagAdim, GecmisAdim DEF YapiInv

LEMMA YapiTip == YapiInv => TypeOK
    BY SayiVarsayim DEF YapiInv, TypeOK, DomainDurumu, SutunDurumu, SatirDurumu, KopyaDurumu,
       Kimlik, Iz

\* The rows, copies and accounts are of their types, and domain_id, the mark and
\* the term of a row say together what it is.
THEOREM SilinenTip == Spec => []TypeOK
<1>1. Spec => []YapiInv
    BY YapiBaslar, YapiAdim, PTL DEF Spec
<1> QED
    BY <1>1, YapiTip, PTL

-----------------------------------------------------------------------------
(***************************************************************************)
(* What a step does to one row and to one deletion.                        *)
(***************************************************************************)
SatirAyni(b) ==
    durum'[b] = durum[b] /\ kimlik'[b] = kimlik[b] /\ iz'[b] = iz[b] /\ sahip'[b] = sahip[b]

Yazilir(b) ==
    /\ YedekKaydet /\ durum[b] = "yok" /\ durum'[b] = "canli"
    /\ kimlik'[b] = uretim.kimlik /\ asil'[b] = uretim.sahip /\ sahip'[b] = sahip[b]

\* i is the new mark; the name is the customer's only in an account's deletion.
YetimOlur(b) ==
    /\ durum[b] = "canli" /\ durum'[b] = "yetim" /\ sure'[b] = "ileri"
    /\ \/ /\ SilYaz /\ kimlik[b] = sil.kimlik /\ iz'[b] = sil.iz /\ sahip'[b] = sil.sahip
       \/ (KalYaz \/ IsaretYaz) /\ sahip'[b] \in {sahip[b], "sk"}

Baglanir(b) ==
    /\ BagYaz /\ Yetim(b) /\ b \in Uyan \ bag.defter
    /\ durum'[b] = "canli" /\ kimlik'[b] = bag.kimlik /\ sahip'[b] = sahip[b]
    /\ b \in Listede => b \in listedeyken'
    /\ b \notin bag.kilitli => b \in gec'
    /\ b \notin goruntulu'
    /\ bag.hepsi => <<b, bag.sahip>> \in onayli'

Silinir(b) == Yetim(b) /\ durum'[b] = "silindi" /\ sahip'[b] = "bos"

SatirAdimi(b) ==
    \/ SatirAyni(b) /\ (sure'[b] = sure[b] \/ (sure[b] = "ileri" /\ sure'[b] = "doldu"))
    \/ Yazilir(b) \/ YetimOlur(b) \/ Baglanir(b) \/ Silinir(b)

LEMMA YetimlestirAdim ==
    ASSUME SutunDurumu, NEW S, NEW i, NEW ad, Yetimlestir(S, i, ad),
           NEW b \in Yedek
    PROVE  /\ b \notin S => SatirAyni(b) /\ sure'[b] = sure[b]
           /\ b \in S => /\ durum'[b] = "yetim" /\ sure'[b] = "ileri" /\ iz'[b] = i
                         /\ sahip'[b] \in {sahip[b], ad} /\ (ad # "sk" => sahip'[b] = ad)
    BY DEF Yetimlestir, SatirAyni

LEMMA SatirGecis ==
    ASSUME YapiInv, [Next]_vars, NEW b \in Yedek
    PROVE  SatirAdimi(b)
<1> USE DEF YapiInv
<1>1. CASE UNCHANGED satirVars
    BY <1>1 DEF satirVars, SatirAdimi, SatirAyni
<1>2. CASE YedekKaydet
    <2>1. PICK c \in Yedek : /\ durum[c] = "yok"
                             /\ durum' = [durum EXCEPT ![c] = "canli"]
                             /\ kimlik' = [kimlik EXCEPT ![c] = uretim.kimlik]
                             /\ asil' = [asil EXCEPT ![c] = uretim.sahip]
        BY <1>2 DEF YedekKaydet
    <2>2. iz' = iz /\ sahip' = sahip /\ sure' = sure
        BY <1>2 DEF YedekKaydet
    <2>3. CASE b = c
        BY <1>2, <2>1, <2>2, <2>3 DEF SatirAdimi, Yazilir, SutunDurumu, GecmisDurumu
    <2>4. CASE b # c
        BY <2>1, <2>2, <2>4 DEF SatirAdimi, SatirAyni, SutunDurumu
    <2> QED
        BY <2>3, <2>4
<1>3. CASE KalYaz
    <2> DEFINE S == {EnKucuk(kal.liste)} \cap Kalinti
    <2>1. CASE UNCHANGED satirVars
        BY <1>1, <2>1
    <2>2. CASE Yetimlestir(S, kal.iz, "sk")
        <3>1. b \in S => durum[b] = "canli"
            BY DEF Kalinti
        <3> HIDE DEF S
        <3> QED
            BY <1>3, <2>2, <3>1, YetimlestirAdim DEF SatirAdimi, YetimOlur
    <2> QED
        BY <1>3, <2>1, <2>2 DEF KalYaz
<1>4. CASE SilYaz
    <2> DEFINE S == {c \in Yedek : kimlik[c] = sil.kimlik}
    <2>1. CASE UNCHANGED satirVars
        BY <1>1, <2>1
    <2>2. CASE Yetimlestir(S, sil.iz, sil.sahip)
        <3>1. sil.kimlik \in Kimlik /\ sil.sahip \in Musteri /\ 0 \notin Kimlik
            BY <1>4, SayiVarsayim DEF SilYaz, SilDurumu, Kimlik
        <3>2. b \in S => durum[b] = "canli" /\ kimlik[b] = sil.kimlik
            BY <3>1 DEF SutunDurumu, SatirDurumu
        <3>3. sil.sahip # "sk"
            BY <3>1, MusteriVarsayim
        <3> HIDE DEF S
        <3> QED
            BY <1>4, <2>2, <3>2, <3>3, YetimlestirAdim DEF SatirAdimi, YetimOlur
    <2> QED
        BY <1>4, <2>1, <2>2 DEF SilYaz
<1>5. CASE IsaretYaz
    <2> DEFINE S == {Aday[1]} \cap Adaylar
    <2>1. CASE UNCHANGED satirVars
        BY <1>1, <2>1
    <2>2. CASE Yetimlestir(S, isaret.izler[Aday[2]], "sk")
        <3>1. b \in S => durum[b] = "canli"
            BY DEF Adaylar, Sahipsiz
        <3> HIDE DEF S
        <3> QED
            BY <1>5, <2>2, <3>1, YetimlestirAdim DEF SatirAdimi, YetimOlur
    <2> QED
        BY <1>5, <2>1, <2>2 DEF IsaretYaz
<1>6. ASSUME NEW p \in Silici, SatirSil(p) PROVE SatirAdimi(b)
    <2> DEFINE c == silici[p].b
    <2>1. CASE UNCHANGED satirVars
        BY <1>1, <2>1
    <2>2. CASE /\ Yetim(c) /\ durum' = [durum EXCEPT ![c] = "silindi"]
               /\ iz' = [iz EXCEPT ![c] = 0] /\ sahip' = [sahip EXCEPT ![c] = "bos"]
               /\ sure' = [sure EXCEPT ![c] = "yok"] /\ kimlik' = kimlik
        <3>1. CASE b = c
            BY <2>2, <3>1 DEF SatirAdimi, Silinir, SutunDurumu
        <3>2. CASE b # c
            BY <2>2, <3>2 DEF SatirAdimi, SatirAyni, SutunDurumu
        <3> QED
            BY <3>1, <3>2
    <2> QED
        BY <1>6, <2>1, <2>2 DEF SatirSil, satirVars
<1>7. CASE BagYaz
    <2> DEFINE S == Uyan \ bag.defter
    <2>1. CASE UNCHANGED satirVars
        BY <1>1, <2>1
    <2>2. CASE /\ durum' = [c \in Yedek |-> IF c \in S THEN "canli" ELSE durum[c]]
               /\ kimlik' = [c \in Yedek |-> IF c \in S THEN bag.kimlik ELSE kimlik[c]]
               /\ iz' = [c \in Yedek |-> IF c \in S THEN 0 ELSE iz[c]]
               /\ sure' = [c \in Yedek |-> IF c \in S THEN "yok" ELSE sure[c]]
               /\ sahip' = sahip
               /\ onayli' = IF bag.hepsi THEN onayli \cup {<<c, bag.sahip>> : c \in S} ELSE onayli
               /\ goruntulu' = goruntulu \ S
               /\ listedeyken' = listedeyken \cup (S \cap Listede)
               /\ gec' = gec \cup (S \ bag.kilitli)
        <3>1. CASE b \in S
            BY <1>7, <2>2, <3>1 DEF SatirAdimi, Baglanir, Uyan
        <3>2. CASE b \notin S
            BY <2>2, <3>2 DEF SatirAdimi, SatirAyni
        <3> QED
            BY <3>1, <3>2
    <2> QED
        BY <1>7, <2>1, <2>2 DEF BagYaz, satirVars
<1>8. ASSUME NEW c \in Yedek, SureDolar(c) PROVE SatirAdimi(b)
    BY <1>8 DEF SureDolar, SatirAdimi, SatirAyni, SutunDurumu
<1> QED
    BY <1>1, <1>2, <1>3, <1>4, <1>5, <1>6, <1>7, <1>8, SatirCerceve

\* A row's term has ended only by its coming.
LEMMA SureGecis ==
    ASSUME YapiInv, [Next]_vars, NEW b \in Yedek, sure'[b] = "doldu"
    PROVE  sure[b] = "doldu" \/ SureDolar(b)
<1> USE DEF YapiInv
<1>1. CASE UNCHANGED satirVars \/ YedekKaydet
    BY <1>1 DEF satirVars, YedekKaydet
<1>2. ASSUME NEW S, NEW i, NEW ad, Yetimlestir(S, i, ad) PROVE sure[b] = "doldu"
    BY <1>2 DEF Yetimlestir
<1>3. CASE KalYaz \/ SilYaz \/ IsaretYaz
    BY <1>1, <1>2, <1>3 DEF KalYaz, SilYaz, IsaretYaz
<1>4. ASSUME NEW p \in Silici, SatirSil(p) PROVE sure[b] = "doldu"
    BY <1>4 DEF SatirSil, SutunDurumu
<1>5. CASE BagYaz
    BY <1>5 DEF BagYaz
<1>6. ASSUME NEW c \in Yedek, SureDolar(c) PROVE sure[b] = "doldu" \/ SureDolar(b)
    BY <1>6 DEF SureDolar, SutunDurumu
<1> QED
    BY <1>1, <1>3, <1>4, <1>5, <1>6, SatirCerceve

\* What became of a row stays in the history.
LEMMA GecmisBuyur ==
    ASSUME YapiInv, [Next]_vars
    PROVE  gec \subseteq gec' /\ listedeyken \subseteq listedeyken' /\ onayli \subseteq onayli'
    BY GecmisCerceve DEF YedekKaydet, SilYaz, BagYaz

KayitAyni(p) ==
    /\ silici'[p].liste = silici[p].liste /\ silici'[p].b = silici[p].b
    /\ silici'[p].iz = silici[p].iz /\ silici'[p].yoksay = silici[p].yoksay

UzagaGecer(p) ==
    LET b == silici[p].b
    IN  /\ Dogrula(p) /\ silici[p].adim = "dogrula" /\ silici'[p].adim = "uzak" /\ KayitAyni(p)
        /\ b \notin BagKilit /\ Yetim(b)
        /\ silici'[p].hedef = anlik[silici[p].iz[b]].sahip

SatiraGecer(p) ==
    /\ silici'[p].adim = "satir" /\ KayitAyni(p)
    /\ \/ silici[p].yoksay /\ silici[p].adim = "dogrula"
       \/ LET b == silici[p].b
          IN  /\ UzakSil(p) /\ silici[p].adim = "uzak"
              /\ uzak' = IF asil[b] \in Hedefli /\ silici[p].hedef # asil[b] THEN uzak ELSE uzak \ {b}

Biter(p) ==
    /\ SatirSil(p) /\ silici[p].adim = "satir" /\ silici'[p].adim = "bitti" /\ KayitAyni(p)
    /\ Yetim(silici[p].b)

\* Back to the list, with what is left of it.
Ilerler(p) ==
    /\ silici'[p].adim \in {"bos", "sec", "dogrula"}
    /\ \A c \in Yedek : c \in silici'[p].liste \cup {silici'[p].b} =>
          c \in silici[p].liste \cup {silici[p].b} /\ silici'[p].iz[c] = silici[p].iz[c]
    /\ silici'[p].adim = "dogrula" =>
          silici'[p].b \notin Defter /\ \A q \in Silici \ {p} : silici'[q] = silici[q]

Listeler(p) ==
    /\ silici'[p].adim \in {"bos", "isaret", "sec"}
    /\ \A c \in Yedek : c \in silici'[p].liste \cup {silici'[p].b} =>
          /\ Yetim(c) /\ silici'[p].iz[c] = iz[c] /\ (p = "supur" => sure[c] = "doldu")
          /\ SatirAyni(c) /\ sure'[c] = sure[c]

SiliciAdimi(p) ==
    \/ silici'[p] = silici[p]
    \/ UzagaGecer(p) \/ SatiraGecer(p) \/ Biter(p) \/ Ilerler(p) \/ Listeler(p)

LEMMA SonrakiIlerler ==
    ASSUME SiliciDurumu, SiliciDurumu', NEW p \in Silici, silici[p].adim \in Silmede,
           NEW bozuk, Sonraki(p, bozuk)
    PROVE  Ilerler(p)
<1> DEFINE r == silici[p]
           f == [r.iz EXCEPT ![r.b] = 0]
           z == r.bozuk \cup bozuk
           s == [r EXCEPT !.adim = "sec", !.b = 0, !.hedef = "yok", !.iz = f, !.bozuk = z]
<1>1. r \in SiliciKaydi /\ SiliciTek(r) /\ r.b \in Yedek
    BY DEF SiliciDurumu, SiliciTek
<1>2. silici'[p] = IF r.liste = {} THEN SiliciBos ELSE s
    BY DEF Sonraki, SiliciDurumu
<1>3. \A c \in Yedek : c # r.b => f[c] = r.iz[c]
    BY <1>1 DEF SiliciKaydi
<1>4. s = [r EXCEPT !.adim = "sec", !.b = 0, !.hedef = "yok", !.iz = f, !.bozuk = z]
    OBVIOUS
<1>5. r.b \notin r.liste /\ 0 \notin Yedek
    BY <1>1, SayiVarsayim DEF SiliciTek, Yedek
<1>6. r = silici[p]
    OBVIOUS
<1> HIDE DEF r, f, z, s
<1>7. s.adim = "sec" /\ s.b = 0 /\ s.liste = r.liste /\ s.iz = f
    BY <1>1, <1>4 DEF SiliciKaydi
<1>8. CASE r.liste = {}
    BY <1>2, <1>5, <1>8 DEF Ilerler, SiliciBos
<1>9. CASE r.liste # {}
    BY <1>2, <1>3, <1>5, <1>6, <1>7, <1>9 DEF Ilerler
<1> QED
    BY <1>8, <1>9

LEMMA ListeleListeler ==
    ASSUME YapiInv, NEW p \in Silici, NEW S \in SUBSET Yedek,
           \A b \in S : Yetim(b) /\ (p = "supur" => sure[b] = "doldu"),
           NEW yoksay \in BOOLEAN, Listele(p, S, yoksay), UNCHANGED satirVars
    PROVE  Listeler(p)
<1> DEFINE f == [b \in Yedek |-> IF b \in S THEN iz[b] ELSE 0]
           s == [SiliciBos EXCEPT !.adim = "sec", !.liste = S, !.yoksay = yoksay, !.iz = f]
<1>1. silici'[p] = IF S = {} THEN SiliciBos ELSE s
    BY DEF Listele, YapiInv, SiliciDurumu
<1>2. \A b \in S : f[b] = iz[b]
    OBVIOUS
<1>3. s = [SiliciBos EXCEPT !.adim = "sec", !.liste = S, !.yoksay = yoksay, !.iz = f]
    OBVIOUS
<1>4. 0 \notin Yedek
    BY SayiVarsayim DEF Yedek
<1>5. SiliciBos \in SiliciKaydi /\ SiliciBos.b = 0 /\ SiliciBos.adim = "bos" /\ SiliciBos.liste = {}
    BY SiliciBosTip DEF SiliciBos
<1>6. \A b \in Yedek : SatirAyni(b) /\ sure'[b] = sure[b]
    BY DEF satirVars, SatirAyni
<1> HIDE DEF f, s
<1>7. s.adim = "sec" /\ s.liste = S /\ s.iz = f /\ s.b = 0
    BY <1>3, <1>5 DEF SiliciKaydi
<1> QED
    BY <1>1, <1>2, <1>4, <1>5, <1>6, <1>7 DEF Listeler

LEMMA SiliciGecis ==
    ASSUME YapiInv, [Next]_vars, NEW p \in Silici
    PROVE  SiliciAdimi(p)
<1> USE DEF YapiInv
<1>0. SiliciDurumu' /\ 0 \notin Yedek
    BY SiliciAdim, SayiVarsayim DEF Yedek
<1>1. CASE UNCHANGED silici
    BY <1>1 DEF SiliciAdimi
<1>2. ASSUME silici'[p] = SiliciBos PROVE SiliciAdimi(p)
    BY <1>0, <1>2 DEF SiliciAdimi, Ilerler, SiliciBos
<1>3. ASSUME NEW q \in Silici, NEW y, silici' = [silici EXCEPT ![q] = y], q # p
      PROVE  SiliciAdimi(p)
    BY <1>3 DEF SiliciAdimi, SiliciDurumu
<1>4. CASE SupurIsaretle
    <2> DEFINE s == [silici["supur"] EXCEPT !.adim = "isaret"]
    <2>1. silici["supur"] = SiliciBos /\ silici' = [silici EXCEPT !["supur"] = s]
        BY <1>4 DEF SupurIsaretle
    <2>2. s = [SiliciBos EXCEPT !.adim = "isaret"] /\ SiliciBos \in SiliciKaydi
          /\ SiliciBos.liste = {} /\ SiliciBos.b = 0
        BY <2>1, SiliciBosTip DEF SiliciBos
    <2> HIDE DEF s
    <2>3. s.adim = "isaret" /\ s.liste = {} /\ s.b = 0
        BY <2>2 DEF SiliciKaydi
    <2>4. CASE p = "supur"
        <3>1. silici'[p] = s
            BY <2>1, <2>4 DEF SiliciDurumu
        <3> QED
            BY <1>0, <2>3, <3>1 DEF SiliciAdimi, Listeler
    <2> QED
        BY <1>3, <2>1, <2>4 DEF Silici
<1>5. CASE SupurListele
    <2> DEFINE S == {b \in Yedek : Yetim(b) /\ sure[b] = "doldu"}
    <2>1. PICK T \in {S, {}} : Listele("supur", T, FALSE)
        BY <1>5 DEF SupurListele, TemizleListele
    <2>2. T \in SUBSET Yedek /\ \A b \in T : Yetim(b) /\ sure[b] = "doldu"
        OBVIOUS
    <2>3. UNCHANGED satirVars
        BY <1>5 DEF SupurListele
    <2> HIDE DEF S
    <2>4. CASE p = "supur"
        BY <2>1, <2>2, <2>3, <2>4, ListeleListeler DEF SiliciAdimi
    <2> QED
        BY <1>3, <2>1, <2>4 DEF Listele, Silici
<1>6. CASE UcBasla
    <2> DEFINE S == {b \in Yedek : Yetim(b)}
    <2>1. PICK h \in BOOLEAN : Listele("uc", S, h)
        BY <1>6 DEF UcBasla
    <2>2. S \in SUBSET Yedek /\ \A b \in S : Yetim(b)
        OBVIOUS
    <2>3. UNCHANGED satirVars
        BY <1>6 DEF UcBasla
    <2> HIDE DEF S
    <2>4. CASE p = "uc"
        BY <2>1, <2>2, <2>3, <2>4, ListeleListeler DEF SiliciAdimi
    <2> QED
        BY <1>3, <2>1, <2>4 DEF Listele, Silici
<1>7. ASSUME NEW q \in Silici, Siliciler(q), q # p PROVE SiliciAdimi(p)
    <2>1. \E y : silici' = [silici EXCEPT ![q] = y]
        BY <1>7 DEF Siliciler, Sec, Dogrula, UzakSil, SatirSil, Bitir, Sonraki
    <2> QED
        BY <1>3, <1>7, <2>1
<1>8. CASE Sec(p)
    <2> DEFINE s == silici[p]
               b == EnKucuk(s.liste)
               S == s.liste \ {b}
               f == [s.iz EXCEPT ![b] = 0]
               t == [s EXCEPT !.liste = S, !.iz = f]
               u == [s EXCEPT !.adim = "dogrula", !.liste = S, !.b = b]
    <2>1. /\ s.adim = "sec"
          /\ \/ silici' = [silici EXCEPT ![p] = SiliciBos]
             \/ S # {} /\ silici' = [silici EXCEPT ![p] = t]
             \/ b \notin Defter /\ silici' = [silici EXCEPT ![p] = u]
        BY <1>8 DEF Sec
    <2>2. s \in SiliciKaydi /\ SiliciTek(s) /\ s = silici[p]
        BY DEF SiliciDurumu
    <2>3. s.liste \in SUBSET Nat /\ s.liste # {}
        BY <2>1, <2>2, SayiVarsayim DEF SiliciKaydi, SiliciTek, Yedek
    <2>4. b \in s.liste
        BY <2>3, EnKucukVar
    <2>5. \A c \in Yedek : c # b => f[c] = s.iz[c]
        BY <2>2 DEF SiliciKaydi
    <2>6. /\ t = [s EXCEPT !.liste = S, !.iz = f]
          /\ u = [s EXCEPT !.adim = "dogrula", !.liste = S, !.b = b]
          /\ b \notin S /\ S \subseteq s.liste
        BY <2>3
    <2>7. \/ silici'[p] \in {SiliciBos, t}
          \/ silici'[p] = u /\ b \notin Defter /\ \A q \in Silici \ {p} : silici'[q] = silici[q]
        BY <2>1 DEF SiliciDurumu
    <2> HIDE DEF s, b, S, f, t, u
    <2>8. t.adim = "sec" /\ t.liste = S /\ t.iz = f /\ t.b = s.b
        BY <2>1, <2>2, <2>6 DEF SiliciKaydi
    <2>9. u.adim = "dogrula" /\ u.liste = S /\ u.iz = s.iz /\ u.b = b
        BY <2>2, <2>6 DEF SiliciKaydi
    <2>10. s.b = 0
        BY <2>1, <2>2 DEF SiliciTek
    <2>11. CASE silici'[p] = t
        BY <1>0, <2>2, <2>5, <2>6, <2>8, <2>10, <2>11 DEF SiliciAdimi, Ilerler
    <2>12. CASE silici'[p] = u /\ b \notin Defter /\ \A q \in Silici \ {p} : silici'[q] = silici[q]
        BY <2>2, <2>4, <2>6, <2>9, <2>12 DEF SiliciAdimi, Ilerler
    <2> QED
        BY <1>2, <2>7, <2>11, <2>12
<1>9. silici[p] \in SiliciKaydi
    BY DEF SiliciDurumu
<1>10. CASE Dogrula(p)
    <2> DEFINE i == silici[p].iz[silici[p].b]
    <2>1. silici[p].adim = "dogrula" /\ silici[p].b \notin BagKilit
        BY <1>10 DEF Dogrula
    <2>2. CASE Sonraki(p, {})
        BY <1>0, <2>1, <2>2, SonrakiIlerler DEF SiliciAdimi, Silmede
    <2>3. CASE silici[p].yoksay /\ silici' = [silici EXCEPT ![p] = [silici[p] EXCEPT !.adim = "satir"]]
        BY <1>9, <2>1, <2>3 DEF SiliciAdimi, SatiraGecer, KayitAyni, SiliciKaydi, SiliciDurumu
    <2>4. CASE /\ Yetim(silici[p].b)
               /\ silici' = [silici EXCEPT ![p] =
                                [silici[p] EXCEPT !.adim = "uzak", !.hedef = anlik[i].sahip]]
        <3> DEFINE h == anlik[i].sahip
                   u == [silici[p] EXCEPT !.adim = "uzak", !.hedef = h]
        <3>1. u = [silici[p] EXCEPT !.adim = "uzak", !.hedef = h]
            OBVIOUS
        <3>2. silici'[p] = u
            BY <2>4 DEF SiliciDurumu
        <3>3. h = anlik[silici[p].iz[silici[p].b]].sahip
            OBVIOUS
        <3> HIDE DEF h, u
        <3>4. /\ u.adim = "uzak" /\ u.hedef = h /\ u.liste = silici[p].liste /\ u.b = silici[p].b
              /\ u.iz = silici[p].iz /\ u.yoksay = silici[p].yoksay
            BY <1>9, <3>1 DEF SiliciKaydi
        <3> QED
            BY <1>10, <2>1, <2>4, <3>2, <3>3, <3>4 DEF SiliciAdimi, UzagaGecer, KayitAyni
    <2> QED
        BY <1>10, <2>2, <2>3, <2>4 DEF Dogrula
<1>11. ASSUME NEW a \in Silmede, silici' = [silici EXCEPT ![p] = [silici[p] EXCEPT !.adim = a]]
       PROVE  silici'[p].adim = a /\ KayitAyni(p)
    BY <1>9, <1>11 DEF SiliciKaydi, SiliciDurumu, KayitAyni
<1>12. CASE UzakSil(p)
    <2>1. silici[p].adim = "uzak"
        BY <1>12 DEF UzakSil
    <2>2. ASSUME NEW bozuk, Sonraki(p, bozuk) PROVE SiliciAdimi(p)
        BY <1>0, <2>1, <2>2, SonrakiIlerler DEF SiliciAdimi, Silmede
    <2>3. CASE /\ uzak' = IF asil[silici[p].b] \in Hedefli /\ silici[p].hedef # asil[silici[p].b]
                          THEN uzak ELSE uzak \ {silici[p].b}
               /\ silici' = [silici EXCEPT ![p] = [silici[p] EXCEPT !.adim = "satir"]]
        <3>1. silici'[p].adim = "satir" /\ KayitAyni(p)
            BY <1>11, <2>3 DEF Silmede
        <3> QED
            BY <1>12, <2>1, <2>3, <3>1 DEF SiliciAdimi, SatiraGecer
    <2> QED
        BY <1>12, <2>2, <2>3 DEF UzakSil
<1>13. CASE SatirSil(p)
    <2>1. silici[p].adim = "satir"
        BY <1>13 DEF SatirSil
    <2>2. CASE Sonraki(p, {})
        BY <1>0, <2>1, <2>2, SonrakiIlerler DEF SiliciAdimi, Silmede
    <2>3. CASE /\ Yetim(silici[p].b)
               /\ silici' = [silici EXCEPT ![p] = [silici[p] EXCEPT !.adim = "bitti"]]
        <3>1. silici'[p].adim = "bitti" /\ KayitAyni(p)
            BY <1>11, <2>3 DEF Silmede
        <3> QED
            BY <1>13, <2>1, <2>3, <3>1 DEF SiliciAdimi, Biter
    <2> QED
        BY <1>13, <2>2, <2>3 DEF SatirSil
<1>14. CASE Bitir(p)
    BY <1>0, <1>14, SonrakiIlerler DEF Bitir, SiliciAdimi, Silmede
<1>15. CASE Coku
    BY <1>2, <1>15 DEF Coku
<1> QED
    BY <1>1, <1>4, <1>5, <1>6, <1>7, <1>8, <1>10, <1>12, <1>13, <1>14, <1>15, SiliciCerceve
       DEF Siliciler

\* The list, whichever step is taken.
LEMMA ListeAdim ==
    ASSUME YapiInv, ListeDurumu, [Next]_vars
    PROVE  ListeDurumu'
<1> SUFFICES ASSUME NEW p \in Silici, NEW c \in Yedek,
                    c \in silici'[p].liste \cup {silici'[p].b}
             PROVE  \/ c \in listedeyken' \/ durum'[c] = "silindi"
                    \/ Yetim(c)' /\ iz'[c] = silici'[p].iz[c] /\ (p = "supur" => sure'[c] = "doldu")
    BY DEF ListeDurumu
<1>1. SatirAdimi(c) /\ SiliciAdimi(p) /\ listedeyken \subseteq listedeyken'
    BY SatirGecis, SiliciGecis, GecmisBuyur
<1>2. CASE Listeler(p)
    BY <1>2 DEF Listeler, SatirAyni, Yetim
<1>3. CASE ~Listeler(p)
    <2>1. c \in silici[p].liste \cup {silici[p].b} /\ silici'[p].iz[c] = silici[p].iz[c]
        BY <1>1, <1>3 DEF SiliciAdimi, UzagaGecer, SatiraGecer, Biter, Ilerler, KayitAyni
    <2>2. \/ c \in listedeyken \/ durum[c] = "silindi"
          \/ Yetim(c) /\ iz[c] = silici[p].iz[c] /\ (p = "supur" => sure[c] = "doldu")
        BY <2>1 DEF ListeDurumu
    <2>3. c \in Listede
        BY <2>1 DEF Listede
    <2> QED
        BY <1>1, <2>1, <2>2, <2>3
           DEF SatirAdimi, SatirAyni, Yazilir, YetimOlur, Baglanir, Silinir, Yetim
<1> QED
    BY <1>2, <1>3

-----------------------------------------------------------------------------
(***************************************************************************)
(* Deletions against bindings, and against the targets.                    *)
(***************************************************************************)
LEMMA UzakAdim ==
    ASSUME YapiInv, UzakDurumu, [Next]_vars
    PROVE  UzakDurumu'
<1> SUFFICES ASSUME NEW p \in Silici, silici'[p].adim = "uzak"
             PROVE  /\ durum'[silici'[p].b] \in {"yetim", "silindi"} \/ silici'[p].b \in gec'
                    /\ bag'.adim = "yaz" =>
                           silici'[p].b \in bag'.defter \/ silici'[p].b \notin bag'.kilitli
    BY DEF UzakDurumu
<1> DEFINE b == silici[p].b
<1>1. SiliciAdimi(p)
    BY SiliciGecis
<1>2. CASE silici'[p] = silici[p]
    <2>1. silici[p].adim = "uzak" /\ b \in Yedek /\ silici'[p].b = b
        BY <1>2 DEF YapiInv, SiliciDurumu, SiliciTek, Silmede
    <2>2. durum[b] \in {"yetim", "silindi"} \/ b \in gec
        BY <2>1 DEF UzakDurumu
    <2>3. bag.adim = "yaz" => b \in bag.defter \/ b \notin bag.kilitli
        BY <2>1 DEF UzakDurumu
    <2>4. durum'[b] \in {"yetim", "silindi"} \/ b \in gec'
        <3>1. SatirAdimi(b) /\ gec \subseteq gec'
            BY <2>1, SatirGecis, GecmisBuyur
        <3>2. BagYaz => bag.adim = "yaz"
            BY DEF BagYaz
        <3> HIDE DEF b
        <3> QED
            BY <2>2, <2>3, <3>1, <3>2
               DEF SatirAdimi, SatirAyni, Yazilir, YetimOlur, Baglanir, Silinir, Yetim
    <2>5. ASSUME bag'.adim = "yaz" PROVE b \in bag'.defter \/ b \notin bag'.kilitli
        <3>1. CASE bag' = bag
            BY <2>3, <2>5, <3>1
        <3>2. CASE BagDefter
            <4>1. b \in Defter
                BY <2>1 DEF Defter, Silmede
            <4>2. bag' = [bag EXCEPT !.adim = "yaz", !.defter = Defter]
                BY <3>2 DEF BagDefter
            <4> QED
                BY <4>1, <4>2 DEF YapiInv, BagDurumu, BagKaydi
        <3>3. \/ BagYaz \/ BagBitir \/ BagKilitle \/ KalDevral \/ Coku
              \/ \E k \in Kimlik : BagBasla(k)
              => bag' = bag \/ bag'.adim # "yaz"
            <4>1. CASE BagYaz
                <5>1. \/ bag' = BagBos
                      \/ bag' = [BagBos EXCEPT !.adim = "bitir", !.izler = bag.izler]
                      \/ bag' = [BagBos EXCEPT !.adim = "kilitle", !.kimlik = bag.kimlik,
                                               !.sahip = bag.sahip, !.hepsi = bag.hepsi]
                    BY <4>1 DEF BagYaz
                <5> QED
                    BY <5>1, BagBosTip DEF BagKaydi
            <4>2. CASE BagBitir
                <5>1. bag' = BagBos \/ \E z : bag' = [bag EXCEPT !.izler = z]
                    BY <4>2 DEF BagBitir
                <5>2. bag.adim = "bitir"
                    BY <4>2 DEF BagBitir
                <5> QED
                    BY <5>1, <5>2 DEF BagBos, YapiInv, BagDurumu, BagKaydi
            <4>3. CASE BagKilitle
                BY <4>3 DEF BagKilitle, BagBos, YapiInv, BagDurumu, BagKaydi
            <4>4. CASE KalDevral
                BY <4>4 DEF KalDevral, BagYeni, BagBos
            <4>5. CASE Coku
                BY <4>5 DEF Coku, BagBos
            <4>6. CASE \E k \in Kimlik : BagBasla(k)
                BY <4>6 DEF BagBasla, BagYeni, BagBos
            <4> QED
                BY <4>1, <4>2, <4>3, <4>4, <4>5, <4>6
        <3> QED
            BY <2>5, <3>1, <3>2, <3>3, BagCerceve
    <2> QED
        BY <2>1, <2>4, <2>5
<1>3. CASE UzagaGecer(p)
    <2>1. silici'[p].b = b /\ b \notin BagKilit /\ Yetim(b)
        BY <1>3 DEF UzagaGecer, KayitAyni
    <2>2. bag' = bag /\ durum' = durum
        BY <1>3 DEF UzagaGecer, Dogrula, satirVars
    <2> QED
        BY <2>1, <2>2 DEF BagKilit, Yetim
<1> QED
    BY <1>1, <1>2, <1>3 DEF SiliciAdimi, SatiraGecer, Biter, Ilerler, Listeler

LEMMA HazirlikAdim ==
    ASSUME YapiInv, HazirlikDurumu, [Next]_vars
    PROVE  HazirlikDurumu'
<1> USE DEF YapiInv
<1>0. /\ sil.iz # 0 => sil.iz \in Iz
      /\ sil \in SilKaydi
    BY SayiVarsayim DEF SilDurumu, SilKaydi, IzYa, Iz
<1>1. CASE SilAnlik
    <2> DEFINE y == [no |-> 1 + EnBuyukNo, kimlik |-> sil.kimlik, sahip |-> sil.sahip]
    <2>1. y.sahip = sil.sahip
        OBVIOUS
    <2>2. sil' = [sil EXCEPT !.adim = "yaz"] /\ (anlik' = anlik \/ anlik' = [anlik EXCEPT ![sil.iz] = y])
        BY <1>1 DEF SilAnlik
    <2> HIDE DEF y
    <2>3. sil'.adim = "yaz" /\ sil'.iz = sil.iz /\ sil'.sahip = sil.sahip
        BY <1>0, <2>2 DEF SilKaydi
    <2> QED
        BY <1>0, <2>1, <2>2, <2>3 DEF HazirlikDurumu, AnlikDurumu
<1>2. ASSUME ~SilAnlik, NEW i \in Iz, anlik[i] = AnlikYok PROVE anlik'[i] = AnlikYok
    BY <1>2, AnlikAdim
<1>3. ASSUME ~SilAnlik, NEW i \in Iz PROVE anlik'[i] = anlik[i] \/ anlik'[i] = AnlikYok
    BY <1>3, AnlikAdim
<1>4. CASE ~SilAnlik /\ UNCHANGED sil
    BY <1>0, <1>3, <1>4 DEF HazirlikDurumu
<1>5. CASE ~SilAnlik /\ sil'.iz = 0
    BY <1>5 DEF HazirlikDurumu
<1>6. CASE ~SilAnlik /\ \E k \in Kimlik : SilHazirla(k)
    <2>1. PICK k \in Kimlik : SilHazirla(k)
        BY <1>6
    <2>2. CASE /\ BosIz # {}
               /\ sil' = [adim |-> "domain", kimlik |-> k, iz |-> YeniIz, sahip |-> domain[k],
                          hedef |-> domain[k] \in Hedefli]
        <3>1. YeniIz \in Iz /\ anlik'[YeniIz] = AnlikYok
            BY <1>2, <1>6, <2>2, YeniIzBos
        <3>2. sil'.iz = YeniIz
            BY <2>2
        <3> QED
            BY <3>1, <3>2 DEF HazirlikDurumu
    <2>3. CASE sil' = [SilBos EXCEPT !.adim = "domain", !.kimlik = k]
        BY <1>5, <1>6, <2>3 DEF SilBos
    <2> QED
        BY <2>1, <2>2, <2>3 DEF SilHazirla
<1>7. CASE ~SilAnlik /\ SilDomain
    <2>1. CASE sil' = SilBos
        BY <1>5, <1>7, <2>1 DEF SilBos
    <2>2. CASE sil' = [sil EXCEPT !.adim = "anlik"]
        <3>1. sil'.iz = sil.iz /\ sil'.sahip = sil.sahip /\ sil.adim = "domain"
            BY <1>0, <1>7, <2>2 DEF SilKaydi, SilDomain
        <3> QED
            BY <1>0, <1>2, <1>7, <3>1 DEF HazirlikDurumu
    <2> QED
        BY <1>7, <2>1, <2>2 DEF SilDomain
<1>8. CASE ~SilAnlik /\ (SilYaz \/ Coku)
    BY <1>5, <1>8 DEF SilYaz, Coku, SilBos
<1> QED
    BY <1>1, <1>4, <1>6, <1>7, <1>8, SilCerceve

\* Only a mark's last orphan takes its snapshot along.
LEMMA AnlikKalir ==
    ASSUME YapiInv, HazirlikDurumu, [Next]_vars, NEW b \in Yedek, Yetim(b),
           anlik[iz[b]] # AnlikYok
    PROVE  anlik'[iz[b]] = anlik[iz[b]]
<1> USE DEF YapiInv
<1>0. iz[b] \in Iz
    BY DEF SutunDurumu, SatirDurumu, Yetim
<1>1. CASE UNCHANGED anlik
    BY <1>1
<1>2. CASE SilAnlik
    <2>1. sil.iz # 0 /\ anlik[sil.iz] = AnlikYok
        BY <1>2 DEF SilAnlik, SilDurumu, HazirlikDurumu
    <2>2. anlik' = anlik \/ \E y : anlik' = [anlik EXCEPT ![sil.iz] = y]
        BY <1>2 DEF SilAnlik
    <2> QED
        BY <1>0, <2>1, <2>2 DEF AnlikDurumu
<1>3. CASE SupurListele
    <2>1. anlik' = anlik \/ anlik' = [i \in Iz |-> IF Artik(i) THEN AnlikYok ELSE anlik[i]]
        BY <1>3 DEF SupurListele, TemizleListele
    <2>2. ~Artik(iz[b])
        BY DEF Artik
    <2> QED
        BY <1>0, <2>1, <2>2
<1>4. ASSUME NEW i, HedefBittiyse(i) PROVE anlik'[iz[b]] = anlik[iz[b]]
    <2>1. CASE i = iz[b]
        BY <1>4, <2>1 DEF HedefBittiyse
    <2>2. CASE i # iz[b]
        BY <1>0, <1>4, <2>2 DEF HedefBittiyse, AnlikDurumu
    <2> QED
        BY <2>1, <2>2
<1>5. CASE \E p \in Silici : Bitir(p)
    BY <1>1, <1>4, <1>5 DEF Bitir
<1>6. CASE BagBitir
    BY <1>1, <1>4, <1>6 DEF BagBitir
<1> QED
    BY <1>1, <1>2, <1>3, <1>5, <1>6, AnlikCerceve

LEMMA GoruntuAdim ==
    ASSUME YapiInv, HazirlikDurumu, GoruntuDurumu, [Next]_vars
    PROVE  GoruntuDurumu'
<1> USE DEF YapiInv
<1>1. SUFFICES ASSUME NEW b \in goruntulu'
               PROVE  \/ durum'[b] = "silindi"
                      \/ /\ durum'[b] = "yetim" /\ asil'[b] \in Musteri
                         /\ anlik'[iz'[b]].sahip = asil'[b]
    BY DEF GoruntuDurumu, Yetim
<1>2. AnlikYok.sahip \notin Musteri
    BY MusteriVarsayim DEF AnlikYok
<1>3. CASE b \in goruntulu
    <2>1. b \in Yedek
        BY <1>3 DEF GecmisDurumu
    <2>2. \/ durum[b] = "silindi"
          \/ Yetim(b) /\ asil[b] \in Musteri /\ anlik[iz[b]].sahip = asil[b]
        BY <1>3 DEF GoruntuDurumu
    <2>3. durum[b] # "yok" => asil'[b] = asil[b]
        <3>1. CASE YedekKaydet
            BY <2>1, <3>1 DEF YedekKaydet, GecmisDurumu
        <3> QED
            BY <3>1, GecmisCerceve DEF SilYaz, BagYaz
    <2>4. Yetim(b) => anlik'[iz[b]] = anlik[iz[b]]
        BY <1>2, <2>1, <2>2, AnlikKalir DEF Yetim
    <2>5. SatirAdimi(b)
        BY <2>1, SatirGecis
    <2> QED
        BY <2>2, <2>3, <2>4, <2>5
           DEF SatirAdimi, SatirAyni, Yazilir, YetimOlur, Baglanir, Silinir, Yetim
<1>4. CASE b \notin goruntulu
    <2>1. SilYaz
        BY <1>4, GecmisCerceve DEF YedekKaydet, BagYaz
    <2>2. /\ anlik[sil.iz] # AnlikYok /\ b \in Yedek /\ kimlik[b] = sil.kimlik /\ asil[b] = sil.sahip
          /\ Yetimlestir({c \in Yedek : kimlik[c] = sil.kimlik}, sil.iz, sil.sahip)
        BY <1>4, <2>1 DEF SilYaz
    <2>3. durum'[b] = "yetim" /\ iz'[b] = sil.iz
        BY <2>2, YetimlestirAdim
    <2>4. asil' = asil /\ anlik' = anlik /\ sil.iz # 0 /\ sil.sahip \in Musteri
        BY <2>1 DEF SilYaz, SilDurumu
    <2> QED
        BY <2>2, <2>3, <2>4 DEF HazirlikDurumu
<1> QED
    BY <1>3, <1>4

\* A row is deleted by one at a time: who takes it up sees the register.
LEMMA DefterAdim ==
    ASSUME YapiInv, DefterDurumu, [Next]_vars
    PROVE  DefterDurumu'
<1> SUFFICES ASSUME NEW p \in Silici, NEW q \in Silici, p # q,
                    silici'[p].adim \in Silmede, silici'[q].adim \in Silmede,
                    silici'[p].b = silici'[q].b
             PROVE  FALSE
    BY DEF DefterDurumu
<1> DEFINE Eski(x) == silici'[x].b = silici[x].b /\ silici[x].adim \in Silmede
           Yeni(x) == /\ silici'[x].b \notin Defter
                      /\ \A y \in Silici \ {x} : silici'[y] = silici[y]
<1>1. ASSUME NEW x \in Silici, silici'[x].adim \in Silmede PROVE Eski(x) \/ Yeni(x)
    <2>1. SiliciAdimi(x)
        BY SiliciGecis
    <2>2. CASE silici'[x] = silici[x]
        BY <1>1, <2>2
    <2>3. CASE UzagaGecer(x) \/ SatiraGecer(x) \/ Biter(x)
        BY <2>3 DEF UzagaGecer, SatiraGecer, Biter, KayitAyni, Silmede
    <2>4. CASE Ilerler(x)
        BY <1>1, <2>4 DEF Ilerler, Silmede
    <2> QED
        BY <1>1, <2>1, <2>2, <2>3, <2>4 DEF SiliciAdimi, Listeler, Silmede
<1>2. CASE Yeni(p)
    BY <1>2 DEF Defter
<1>3. CASE Yeni(q)
    BY <1>3 DEF Defter
<1>4. CASE Eski(p) /\ Eski(q)
    BY <1>4 DEF DefterDurumu
<1> QED
    BY <1>1, <1>2, <1>3, <1>4

\* A copy comes to a row that is there by its upload alone, which starts with the
\* row.
LEMMA KopyaGecis ==
    ASSUME YapiInv, [Next]_vars, NEW b \in Yedek, durum[b] # "yok"
    PROVE  /\ b \in yukleme' => b \in yukleme
           /\ b \in uzak' => b \in uzak \/ b \in yukleme
<1>1. CASE UNCHANGED kopyaVars
    BY <1>1 DEF kopyaVars
<1>2. CASE YedekKaydet
    BY <1>2 DEF YedekKaydet
<1>3. ASSUME NEW p \in Silici, UzakSil(p) PROVE yukleme' = yukleme /\ uzak' \subseteq uzak
    BY <1>3 DEF UzakSil
<1>4. ASSUME NEW p \in Silici, SatirSil(p) PROVE yukleme' = yukleme /\ uzak' = uzak
    BY <1>4 DEF SatirSil
<1>5. ASSUME NEW c \in Yedek, YuklemeBiter(c)
      PROVE  yukleme' \subseteq yukleme /\ (b \in uzak' => b \in uzak \/ b \in yukleme)
    BY <1>5 DEF YuklemeBiter
<1>6. CASE Coku
    BY <1>6 DEF Coku
<1> QED
    BY <1>1, <1>2, <1>3, <1>4, <1>5, <1>6, KopyaCerceve

LEMMA YuklemeAdim ==
    ASSUME YapiInv, YuklemeDurumu, [Next]_vars
    PROVE  YuklemeDurumu'
<1> SUFFICES ASSUME NEW b \in yukleme' PROVE durum'[b] # "yok" /\ sure'[b] # "doldu"
    BY DEF YuklemeDurumu
<1>1. b \in Yedek
    BY KopyaAdim DEF KopyaDurumu
<1>2. SatirAdimi(b)
    BY <1>1, SatirGecis
<1>3. CASE durum[b] = "yok"
    <2>1. YedekKaydet /\ durum'[b] = "canli"
        <3>1. b \notin yukleme
            BY <1>3 DEF YuklemeDurumu
        <3>2. YedekKaydet
            BY <3>1, KopyaCerceve DEF kopyaVars, UzakSil, SatirSil, YuklemeBiter, Coku
        <3>3. PICK c \in Yedek : durum' = [durum EXCEPT ![c] = "canli"] /\ yukleme' \subseteq yukleme \cup {c}
            BY <3>2 DEF YedekKaydet
        <3> QED
            BY <1>1, <3>1, <3>2, <3>3 DEF YapiInv, SutunDurumu
    <2>2. SatirDurumu'
        BY SatirAdim DEF SutunDurumu
    <2> QED
        BY <1>1, <2>1, <2>2 DEF SatirDurumu
<1>4. CASE durum[b] # "yok"
    <2>1. b \in yukleme /\ sure[b] # "doldu"
        BY <1>1, <1>4, KopyaGecis DEF YuklemeDurumu
    <2>2. SureDolar(b) => b \notin yukleme
        BY DEF SureDolar
    <2>3. CASE SatirAyni(b)
        BY <1>2, <1>4, <2>1, <2>2, <2>3, SureGecis, <1>1 DEF SatirAyni
    <2>4. CASE durum'[b] = "canli"
        BY <1>1, <2>4, SatirAdim DEF SutunDurumu, SatirDurumu
    <2>5. CASE durum'[b] = "yetim" /\ sure'[b] = "ileri"
        BY <2>5
    <2>6. CASE Silinir(b)
        BY <2>6, SureGecis, <1>1, <2>1, <2>2 DEF Silinir
    <2> QED
        BY <1>2, <2>3, <2>4, <2>5, <2>6 DEF SatirAdimi, Yazilir, YetimOlur, Baglanir
<1> QED
    BY <1>3, <1>4

\* What is in the history of one deletion is not taken out by another.
LEMMA YuklenirkenKalir ==
    ASSUME DefterDurumu, [Next]_vars, NEW p \in Silici, silici[p].adim \in Silmede \ {"uzak"},
           silici[p].b \in yuklenirken
    PROVE  silici[p].b \in yuklenirken'
<1>1. ASSUME NEW q \in Silici, UzakSil(q) PROVE silici[p].b \in yuklenirken'
    <2>1. silici[q].adim = "uzak"
        BY <1>1 DEF UzakSil
    <2>2. silici[q].b # silici[p].b
        BY <2>1 DEF DefterDurumu, Silmede
    <2> QED
        BY <1>1, <2>2 DEF UzakSil
<1> QED
    BY <1>1, YuklenirkenCerceve

LEMMA HedefAdim ==
    ASSUME YapiInv, ListeDurumu, GoruntuDurumu, DefterDurumu, YuklemeDurumu, HedefDurumu, [Next]_vars
    PROVE  HedefDurumu'
<1> SUFFICES ASSUME NEW p \in Silici
             PROVE  LET b == silici'[p].b
                    IN  /\ silici'[p].adim = "uzak" =>
                               \/ b \in listedeyken' \/ b \notin goruntulu'
                               \/ silici'[p].hedef = asil'[b]
                        /\ /\ silici'[p].adim = "satir" /\ ~silici'[p].yoksay
                           /\ asil'[b] \in Hedefli => b \in goruntulu'
                           => \/ b \notin uzak' /\ b \notin yukleme'
                              \/ b \in listedeyken' \/ durum'[b] = "silindi"
                              \/ p = "uc" /\ b \in yuklenirken'
    BY DEF HedefDurumu
<1> DEFINE b == silici[p].b
<1>1. SiliciAdimi(p)
    BY SiliciGecis
<1>2. CASE silici'[p].adim \notin {"uzak", "satir"}
    BY <1>2
<1>3. CASE silici'[p].adim \in {"uzak", "satir"}
    <2>1. \/ silici'[p] = silici[p] /\ silici[p].adim \in {"uzak", "satir"}
          \/ UzagaGecer(p) \/ SatiraGecer(p)
        BY <1>1, <1>3 DEF SiliciAdimi, Biter, Ilerler, Listeler
    <2>2. silici'[p].b = b /\ silici'[p].yoksay = silici[p].yoksay /\ b \in Yedek
        <3>1. silici'[p].b = b /\ silici'[p].yoksay = silici[p].yoksay
            BY <2>1 DEF UzagaGecer, SatiraGecer, KayitAyni
        <3>2. SiliciTek(silici'[p])
            BY SiliciAdim DEF SiliciDurumu
        <3> QED
            BY <1>3, <3>1, <3>2 DEF SiliciTek, Silmede
    <2>3. b \in listedeyken => b \in listedeyken'
        BY GecmisBuyur
    <2>4. CASE b \in listedeyken'
        BY <2>2, <2>4
    <2>5. CASE b \notin listedeyken'
        <3>1. durum[b] \in {"yetim", "silindi"}
            BY <2>2, <2>3, <2>5 DEF ListeDurumu, Yetim
        \* An orphan, or a row that is gone, is in goruntulu already or not at all.
        <3>2. asil'[b] = asil[b] /\ (b \in goruntulu' => b \in goruntulu)
            <4>1. CASE YedekKaydet
                BY <2>2, <3>1, <4>1 DEF YedekKaydet, YapiInv, GecmisDurumu
            <4>2. CASE SilYaz
                <5>1. sil.kimlik \in Kimlik /\ 0 \notin Kimlik
                    BY <4>2, SayiVarsayim DEF SilYaz, YapiInv, SilDurumu, Kimlik
                <5>2. kimlik[b] # sil.kimlik
                    BY <2>2, <3>1, <5>1 DEF YapiInv, SutunDurumu, SatirDurumu
                <5> QED
                    BY <4>2, <5>2 DEF SilYaz
            <4>3. CASE BagYaz
                BY <4>3 DEF BagYaz
            <4> QED
                BY <4>1, <4>2, <4>3, GecmisCerceve
        <3>3. durum[b] = "silindi" => durum'[b] = "silindi"
            BY <2>2, SatirGecis
               DEF SatirAdimi, SatirAyni, Yazilir, YetimOlur, Baglanir, Silinir, Yetim
        <3>4. CASE silici'[p] = silici[p]
            <4>1. CASE silici[p].adim = "uzak"
                BY <2>2, <2>3, <3>2, <3>4, <4>1 DEF HedefDurumu
            <4>2. CASE silici[p].adim = "satir"
                <5>1. b \notin uzak /\ b \notin yukleme => b \notin uzak' /\ b \notin yukleme'
                    BY <2>2, <3>1, KopyaGecis
                <5>2. b \in yuklenirken => b \in yuklenirken'
                    BY <4>2, YuklenirkenKalir DEF Silmede
                <5> QED
                    BY <2>2, <2>3, <3>2, <3>3, <3>4, <4>2, <5>1, <5>2 DEF HedefDurumu
            <4> QED
                BY <2>1, <3>4, <4>1, <4>2 DEF UzagaGecer, SatiraGecer
        <3>5. CASE UzagaGecer(p)
            <4>1. /\ silici'[p].adim = "uzak" /\ Yetim(b)
                  /\ silici'[p].hedef = anlik[silici[p].iz[b]].sahip
                BY <3>5 DEF UzagaGecer
            <4>2. silici[p].iz[b] = iz[b]
                BY <2>2, <2>3, <2>5, <4>1 DEF ListeDurumu, Yetim
            <4>3. b \in goruntulu => anlik[iz[b]].sahip = asil[b]
                BY <4>1 DEF GoruntuDurumu, Yetim
            <4> QED
                BY <2>2, <3>2, <4>1, <4>2, <4>3
        <3>6. CASE SatiraGecer(p)
            <4>1. CASE silici[p].yoksay
                BY <2>2, <3>6, <4>1 DEF SatiraGecer
            <4>2. CASE ~silici[p].yoksay
                <5>1. /\ silici[p].adim = "uzak" /\ silici'[p].adim = "satir"
                      /\ uzak' = IF asil[b] \in Hedefli /\ silici[p].hedef # asil[b]
                                 THEN uzak ELSE uzak \ {b}
                      /\ yukleme' = yukleme /\ (b \in yukleme => b \in yuklenirken')
                    BY <3>6, <4>2 DEF SatiraGecer, UzakSil
                <5>2. b \notin goruntulu \/ silici[p].hedef = asil[b]
                    BY <2>3, <2>5, <5>1 DEF HedefDurumu
                <5>3. p = "uc" \/ b \notin yukleme \/ durum[b] = "silindi"
                    BY <2>2, <2>3, <2>5 DEF ListeDurumu, YuklemeDurumu, Silici
                <5> HIDE DEF b
                <5> QED
                    BY <2>2, <3>2, <3>3, <5>1, <5>2, <5>3
            <4> QED
                BY <4>1, <4>2
        <3> QED
            BY <2>1, <3>4, <3>5, <3>6
    <2> QED
        BY <2>4, <2>5
<1> QED
    BY <1>2, <1>3

LEMMA SilmeBaslar == Init => SilmeInv
<1> SUFFICES ASSUME Init PROVE SilmeInv
    OBVIOUS
<1>1. /\ \A p \in Silici : silici[p] = SiliciBos
      /\ goruntulu = {} /\ sil.iz = 0 /\ yukleme = {}
    BY DEF Init, SilBos
<1>2. 0 \notin Yedek
    BY SayiVarsayim DEF Yedek
<1> QED
    BY <1>1, <1>2 DEF SilmeInv, ListeDurumu, UzakDurumu, HazirlikDurumu, GoruntuDurumu, HedefDurumu,
                      DefterDurumu, YuklemeDurumu, Silmede, SiliciBos

LEMMA SilmeAdim == YapiInv /\ SilmeInv /\ [Next]_vars => SilmeInv'
    BY ListeAdim, UzakAdim, HazirlikAdim, GoruntuAdim, DefterAdim, YuklemeAdim, HedefAdim
       DEF SilmeInv

LEMMA SilmeKorunur == Spec => [](YapiInv /\ SilmeInv)
    BY YapiBaslar, YapiAdim, SilmeBaslar, SilmeAdim, PTL DEF Spec

\* What no deletion takes.
LEMMA CanliAdim ==
    ASSUME YapiInv, UzakDurumu, [Next]_vars, NEW b \in Yedek, durum[b] = "canli", b \notin gec
    PROVE  /\ b \in dosya => b \in dosya'
           /\ b \in uzak => b \in uzak'
           /\ durum'[b] # "silindi"
<1>1. durum'[b] # "silindi"
    <2>1. SatirAdimi(b)
        BY SatirGecis
    <2> QED
        BY <2>1 DEF SatirAdimi, SatirAyni, Yazilir, YetimOlur, Baglanir, Silinir, Yetim
<1>2. CASE UNCHANGED kopyaVars
    BY <1>1, <1>2 DEF kopyaVars
<1>3. CASE YedekKaydet
    BY <1>1, <1>3 DEF YedekKaydet
<1>4. ASSUME NEW p \in Silici, UzakSil(p)
      PROVE  (b \in dosya => b \in dosya') /\ (b \in uzak => b \in uzak')
    <2>1. dosya' = dosya /\ uzak \ {silici[p].b} \subseteq uzak' /\ silici[p].adim = "uzak"
        BY <1>4 DEF UzakSil
    <2>2. silici[p].b # b
        BY <2>1 DEF UzakDurumu
    <2> QED
        BY <2>1, <2>2
<1>5. ASSUME NEW p \in Silici, SatirSil(p)
      PROVE  (b \in dosya => b \in dosya') /\ (b \in uzak => b \in uzak')
    BY <1>5 DEF SatirSil, Yetim
<1>6. ASSUME NEW c \in Yedek, YuklemeBiter(c)
      PROVE  (b \in dosya => b \in dosya') /\ (b \in uzak => b \in uzak')
    BY <1>6 DEF YuklemeBiter
<1>7. CASE Coku
    BY <1>1, <1>7 DEF Coku
<1> QED
    BY <1>1, <1>2, <1>3, <1>4, <1>5, <1>6, <1>7, KopyaCerceve

\* No deletion takes the file, the remote copy or the row of a live backup,
\* unless the row was bound without being locked before: the register and the
\* row locks together order every deletion and every binding.
THEOREM SilinenCanliKorunur == Spec => CanliKopyaKorunur
<1>1. YapiInv /\ SilmeInv /\ [Next]_vars =>
         [\A b \in Yedek :
             durum[b] = "canli" /\ b \notin gec =>
                /\ b \in dosya => b \in dosya'
                /\ b \in uzak => b \in uzak'
                /\ durum'[b] # "silindi"]_vars
    BY CanliAdim DEF SilmeInv
<1> QED
    BY <1>1, SilmeKorunur, PTL DEF Spec, CanliKopyaKorunur

\* The sweep deletes only what is past its term, for as long as a sweep lasts.
THEOREM SilinenSupurYalnizDolan == Spec => SupurYalnizDolan
<1>1. ASSUME YapiInv, SilmeInv, [Next]_vars,
             silici["supur"].adim = "satir", silici'["supur"].adim = "bitti"
      PROVE  sure[silici["supur"].b] = "doldu" \/ silici["supur"].b \in listedeyken
    <2> DEFINE b == silici["supur"].b
    <2>1. "supur" \in Silici
        BY DEF Silici
    <2>2. SiliciAdimi("supur") /\ b \in Yedek
        BY <1>1, <2>1, SiliciGecis DEF YapiInv, SiliciDurumu, SiliciTek, Silmede
    <2>3. Yetim(b)
        BY <1>1, <2>2 DEF SiliciAdimi, UzagaGecer, SatiraGecer, Biter, Ilerler, Listeler
    <2> QED
        BY <1>1, <2>1, <2>2, <2>3 DEF SilmeInv, ListeDurumu, Yetim
<1>2. YapiInv /\ SilmeInv /\ [Next]_vars =>
         [LET p == silici["supur"]
          IN  p.adim = "satir" /\ silici'["supur"].adim = "bitti" =>
                  sure[p.b] = "doldu" \/ p.b \in listedeyken]_vars
    BY <1>1
<1> QED
    BY <1>2, SilmeKorunur, PTL DEF Spec, SupurYalnizDolan

\* A deletion leaves no remote copy on a target that was copied when the row
\* was marked, nor an upload that could bring one: the snapshot outlives every
\* deletion that may need it, and the terms of rows outlast their uploads.  Only an
\* administrator's deletion, made while the upload is under way, may be followed by
\* the copy.
THEOREM SilinenUzakKopya == Spec => UzakKopyaSilinir
<1>1. ASSUME YapiInv, SilmeInv, [Next]_vars, NEW p \in Silici,
             silici[p].adim = "satir", silici'[p].adim = "bitti", ~silici[p].yoksay,
             asil[silici[p].b] \in Hedefli => silici[p].b \in goruntulu
      PROVE  \/ silici[p].b \notin uzak /\ silici[p].b \notin yukleme
             \/ silici[p].b \in listedeyken
             \/ p = "uc" /\ silici[p].b \in yuklenirken
    <2>1. Yetim(silici[p].b)
        BY <1>1, SiliciGecis DEF SiliciAdimi, UzagaGecer, SatiraGecer, Biter, Ilerler, Listeler
    <2> QED
        BY <1>1, <2>1 DEF SilmeInv, HedefDurumu, Yetim
<1>2. YapiInv /\ SilmeInv /\ [Next]_vars =>
         [\A p \in Silici :
             LET b == silici[p].b
             IN  /\ silici[p].adim = "satir" /\ silici'[p].adim = "bitti"
                 /\ ~silici[p].yoksay /\ (asil[b] \in Hedefli => b \in goruntulu)
                 => \/ b \notin uzak /\ b \notin yukleme
                    \/ b \in listedeyken
                    \/ p = "uc" /\ b \in yuklenirken]_vars
    BY <1>1
<1> QED
    BY <1>2, SilmeKorunur, PTL DEF Spec, UzakKopyaSilinir

-----------------------------------------------------------------------------
(***************************************************************************)
(* Whose backups an account shows.                                         *)
(***************************************************************************)
YeniAcilir(k) == kal'.adim = "listele" /\ kal'.kimlik = k /\ k = sonKimlik + 1

LEMMA DomainGecis ==
    ASSUME YapiInv, KimlikDurumu, [Next]_vars
    PROVE  /\ \A k \in Kimlik : \/ domain'[k] = domain[k] \/ domain'[k] = "yok"
                                \/ YeniAcilir(k)
           /\ sonKimlik <= sonKimlik' \/ Coku
           /\ \A k \in Kimlik : domain'[k] # "yok" => k <= sonKimlik'
           /\ sonKimlik \in Nat
<1> USE DEF YapiInv
<1>0. sonKimlik \in Nat /\ \A k \in Kimlik : k \in Nat
    BY SayiVarsayim DEF DomainDurumu, Kimlik
<1>1. CASE UNCHANGED <<domain, sonKimlik>>
    BY <1>0, <1>1 DEF KimlikDurumu
<1>2. ASSUME NEW m \in Musteri, YeniDomain(m)
      PROVE  /\ \A k \in Kimlik : domain'[k] = domain[k] \/ YeniAcilir(k)
             /\ sonKimlik <= sonKimlik' /\ \A k \in Kimlik : domain'[k] # "yok" => k <= sonKimlik'
    <2>1. /\ sonKimlik' = sonKimlik + 1 /\ domain' = [domain EXCEPT ![sonKimlik + 1] = m]
          /\ kal' = [KalBos EXCEPT !.adim = "listele", !.kimlik = sonKimlik + 1]
        BY <1>2 DEF YeniDomain
    <2>2. kal'.adim = "listele" /\ kal'.kimlik = sonKimlik + 1
        BY <2>1 DEF KalBos
    <2> QED
        BY <1>0, <2>1, <2>2 DEF YeniAcilir, KimlikDurumu, DomainDurumu
<1>3. CASE SilDomain
    <2>1. sonKimlik' = sonKimlik /\ (domain' = domain \/ domain' = [domain EXCEPT ![sil.kimlik] = "yok"])
        BY <1>3 DEF SilDomain
    <2> QED
        BY <1>0, <2>1 DEF KimlikDurumu, DomainDurumu
<1>4. CASE Coku
    BY <1>0, <1>4 DEF Coku, KimlikDurumu
<1> QED
    BY <1>0, <1>1, <1>2, <1>3, <1>4, DomainCerceve

\* The separation of remnants: it is over, goes on, or starts with a new id.
LEMMA KalGecis ==
    ASSUME YapiInv, [Next]_vars
    PROVE  \/ kal'.adim = "bos" /\ kal'.kimlik = 0
           \/ kal' = kal
           \/ kal'.kimlik = kal.kimlik /\ kal.adim \in {"listele", "iz", "yaz"}
           \/ kal'.kimlik = sonKimlik' /\ sonKimlik' = sonKimlik + 1
<1> USE DEF YapiInv
<1>0. KalBos \in KalKaydi /\ KalBos.adim = "bos" /\ KalBos.kimlik = 0 /\ kal \in KalKaydi
    BY SayiVarsayim DEF KalBos, KalKaydi, KimlikYa, IzYa, KalDurumu
<1>1. KalBitti => kal'.kimlik = kal.kimlik
    BY <1>0 DEF KalBitti, KalKaydi
<1>2. CASE \E m \in Musteri : YeniDomain(m)
    <2>1. /\ sonKimlik' = sonKimlik + 1
          /\ kal' = [KalBos EXCEPT !.adim = "listele", !.kimlik = sonKimlik']
        BY <1>2 DEF YeniDomain
    <2> QED
        BY <1>0, <2>1 DEF KalKaydi
<1>3. CASE KalListele
    BY <1>0, <1>1, <1>3 DEF KalListele, KalKaydi
<1>4. CASE KalIz
    BY <1>0, <1>4 DEF KalIz, KalKaydi
<1>5. CASE KalYaz
    BY <1>0, <1>1, <1>5 DEF KalYaz, KalKaydi
<1>6. CASE KalDevral \/ Coku
    BY <1>0, <1>6 DEF KalDevral, Coku
<1> QED
    BY <1>2, <1>3, <1>4, <1>5, <1>6, KalCerceve

LEMMA SilGecis ==
    ASSUME YapiInv, [Next]_vars
    PROVE  \/ sil'.adim = "bos"
           \/ sil' = sil
           \/ /\ sil.adim # "bos" /\ sil'.kimlik = sil.kimlik
              /\ sil'.iz = sil.iz /\ sil'.sahip = sil.sahip
           \/ /\ sil'.kimlik \in Kimlik /\ domain[sil'.kimlik] # "yok" /\ domain' = domain
              /\ sil'.iz # 0 => sil'.sahip = domain[sil'.kimlik]
              /\ kal' = kal /\ uretim' = uretim /\ (kal.kimlik = sil'.kimlik => kal.adim = "devral")
<1> USE DEF YapiInv
<1>0. SilBos \in SilKaydi /\ SilBos.adim = "bos" /\ SilBos.iz = 0 /\ sil \in SilKaydi
    BY SayiVarsayim DEF SilBos, SilKaydi, KimlikYa, IzYa, SahipYa, SilDurumu
<1>1. ASSUME NEW k \in Kimlik, SilHazirla(k)
      PROVE  /\ sil'.kimlik = k /\ domain[k] # "yok" /\ domain' = domain
             /\ sil'.iz # 0 => sil'.sahip = domain[k]
             /\ kal' = kal /\ uretim' = uretim /\ (kal.kimlik = k => kal.adim = "devral")
    <2>1. CASE sil' = [adim |-> "domain", kimlik |-> k, iz |-> YeniIz, sahip |-> domain[k],
                       hedef |-> domain[k] \in Hedefli]
        BY <1>1, <2>1 DEF SilHazirla
    <2>2. CASE sil' = [SilBos EXCEPT !.adim = "domain", !.kimlik = k]
        <3>1. sil'.kimlik = k /\ sil'.iz = 0
            BY <1>0, <2>2 DEF SilKaydi
        <3> QED
            BY <1>1, <3>1 DEF SilHazirla
    <2> QED
        BY <1>1, <2>1, <2>2 DEF SilHazirla
<1>2. CASE SilDomain
    BY <1>0, <1>2 DEF SilDomain, SilKaydi
<1>3. CASE SilAnlik
    BY <1>0, <1>3 DEF SilAnlik, SilKaydi
<1>4. CASE SilYaz \/ Coku
    BY <1>0, <1>4 DEF SilYaz, Coku
<1> QED
    BY <1>1, <1>2, <1>3, <1>4, SilCerceve

LEMMA UretimGecis ==
    ASSUME YapiInv, [Next]_vars
    PROVE  \/ uretim' = UretimBos
           \/ uretim' = uretim
           \/ /\ uretim'.kimlik \in Kimlik /\ domain[uretim'.kimlik] # "yok"
              /\ uretim'.sahip = domain[uretim'.kimlik]
              /\ domain' = domain /\ sil' = sil /\ sonKimlik' = sonKimlik
<1>1. ASSUME NEW k \in Kimlik, YedekBasla(k)
      PROVE  /\ uretim'.kimlik = k /\ domain[k] # "yok" /\ uretim'.sahip = domain[k]
             /\ domain' = domain /\ sil' = sil /\ sonKimlik' = sonKimlik
    BY <1>1 DEF YedekBasla
<1> QED
    BY <1>1, UretimCerceve DEF YedekKaydet, Coku

Baglayan == {"kilitle", "defter", "yaz"}

LEMMA BagGecis ==
    ASSUME YapiInv, [Next]_vars
    PROVE  \/ bag'.adim \notin Baglayan
           \/ bag' = bag
           \/ /\ bag.adim \in Baglayan /\ bag'.kimlik = bag.kimlik /\ bag'.sahip = bag.sahip
              /\ bag'.adim # "kilitle" => bag.adim # "kilitle" \/ domain[bag.kimlik] # "yok"
              /\ domain' = domain /\ kal' = kal
           \/ /\ bag'.kimlik \in Kimlik /\ domain[bag'.kimlik] # "yok"
              /\ bag'.sahip = domain[bag'.kimlik] /\ bag'.adim = "kilitle" /\ domain' = domain
              /\ kal'.kimlik = bag'.kimlik => kal'.adim \in {"bos", "devral"}
<1> USE DEF YapiInv
<1>0. bag \in BagKaydi
    BY DEF BagDurumu
<1>1. ASSUME NEW k, NEW h, BagYeni(k, h)
      PROVE  bag'.kimlik = k /\ bag'.sahip = domain[k] /\ bag'.adim = "kilitle"
    BY <1>1, BagBosTip DEF BagYeni, BagKaydi
<1>2. ASSUME NEW k \in Kimlik, BagBasla(k)
      PROVE  /\ bag'.kimlik = k /\ bag'.sahip = domain[k] /\ bag'.adim = "kilitle"
             /\ domain' = domain /\ domain[k] # "yok" /\ kal' = kal
             /\ kal.kimlik = k => kal.adim = "devral"
    BY <1>1, <1>2 DEF BagBasla
<1>3. CASE KalDevral
    <2>1. kal' = KalBos /\ domain' = domain /\ kal.kimlik \in Kimlik
        BY <1>3 DEF KalDevral, KalDurumu
    <2>2. CASE domain[kal.kimlik] # "yok" /\ BagYeni(kal.kimlik, FALSE)
        BY <1>1, <2>1, <2>2 DEF KalBos
    <2> QED
        BY <1>3, <2>2 DEF KalDevral
<1>4. CASE BagKilitle
    <2>1. CASE domain[bag.kimlik] # "yok" /\ \E x, y : bag' = [bag EXCEPT !.adim = "defter", !.kilitli = x, !.izler = y]
        <3>1. PICK x, y : bag' = [bag EXCEPT !.adim = "defter", !.kilitli = x, !.izler = y]
            BY <2>1
        <3>2. bag'.kimlik = bag.kimlik /\ bag'.sahip = bag.sahip
            BY <1>0, <3>1 DEF BagKaydi
        <3> QED
            BY <1>4, <2>1, <3>2 DEF BagKilitle, Baglayan
    <2>2. CASE bag' = BagBos
        BY <2>2, BagBosTip DEF Baglayan
    <2> QED
        BY <1>4, <2>1, <2>2 DEF BagKilitle
<1>5. CASE BagDefter
    BY <1>0, <1>5 DEF BagDefter, BagKaydi, Baglayan
<1>6. CASE BagYaz
    <2>1. \/ bag' = BagBos
          \/ bag' = [BagBos EXCEPT !.adim = "bitir", !.izler = bag.izler]
          \/ bag' = [BagBos EXCEPT !.adim = "kilitle", !.kimlik = bag.kimlik,
                                   !.sahip = bag.sahip, !.hepsi = bag.hepsi]
        BY <1>6 DEF BagYaz
    <2>2. bag.adim = "yaz" /\ domain' = domain /\ kal' = kal
        BY <1>6 DEF BagYaz
    <2> QED
        BY <2>1, <2>2, BagBosTip DEF BagKaydi, Baglayan
<1>7. CASE BagBitir
    <2>1. bag' = BagBos \/ \E z : bag' = [bag EXCEPT !.izler = z]
        BY <1>7 DEF BagBitir
    <2>2. bag.adim = "bitir"
        BY <1>7 DEF BagBitir
    <2> QED
        BY <1>0, <2>1, <2>2, BagBosTip DEF BagKaydi, Baglayan
<1>8. CASE Coku
    BY <1>8, BagBosTip DEF Coku, Baglayan
<1> QED
    BY <1>2, <1>3, <1>4, <1>5, <1>6, <1>7, <1>8, BagCerceve

\* After a restart nothing is under way.
LEMMA CokuBos ==
    ASSUME Coku
    PROVE  /\ sil'.adim = "bos" /\ sil'.iz = 0 /\ uretim' = UretimBos /\ kal'.adim = "bos"
           /\ kal'.kimlik = 0 /\ bag'.adim \notin Baglayan
    BY BagBosTip DEF Coku, SilBos, KalBos, Baglayan

LEMMA KimlikAdim ==
    ASSUME YapiInv, KimlikDurumu, [Next]_vars
    PROVE  KimlikDurumu'
<1>0. /\ sonKimlik \in Nat /\ sonKimlik' \in Nat /\ kal.kimlik \in Nat /\ kal'.kimlik \in Nat
      /\ \A k \in Kimlik : k \in Nat
      /\ (sil.adim # "bos" => sil.kimlik \in Kimlik) /\ (sil'.adim # "bos" => sil'.kimlik \in Kimlik)
      /\ (sil.iz # 0 => sil.adim # "bos") /\ (sil'.iz # 0 => sil'.adim # "bos")
      /\ (uretim # UretimBos => uretim.kimlik \in Kimlik)
      /\ (bag.adim \in Baglayan => bag.kimlik \in Kimlik)
    BY YapiAdim, SayiVarsayim
       DEF YapiInv, DomainDurumu, KalDurumu, KalKaydi, KimlikYa, Kimlik, SilDurumu, UretimDurumu,
           BagDurumu, Baglayan
<1>1. \A k \in Kimlik : domain'[k] # "yok" => k <= sonKimlik'
    BY DomainGecis
<1>2. \A k \in Kimlik : k <= sonKimlik => domain'[k] \in {domain[k], "yok"}
    BY <1>0, DomainGecis DEF YeniAcilir
<1>3. sonKimlik <= sonKimlik' \/ Coku
    BY DomainGecis
<1>4. kal'.kimlik <= sonKimlik'
    BY <1>0, <1>3, KalGecis, CokuBos DEF KimlikDurumu
\* What is under way on an id of before has nothing to do with a new id.
<1>5. ASSUME NEW k \in Kimlik, k <= sonKimlik, kal'.kimlik = k,
             kal.kimlik = k => kal.adim \in {"bos", "devral"}
      PROVE  kal'.adim \in {"bos", "devral"}
    BY <1>0, <1>5, KalGecis
<1>6. ASSUME sil'.adim # "bos"
      PROVE  /\ sil'.kimlik <= sonKimlik'
             /\ sil'.iz # 0 => domain'[sil'.kimlik] \in {"yok", sil'.sahip}
             /\ sil'.kimlik = kal'.kimlik => kal'.adim \in {"bos", "devral"}
    <2>1. ~Coku /\ sonKimlik <= sonKimlik'
        BY <1>3, <1>6, CokuBos
    <2>2. CASE sil.adim # "bos" /\ sil'.kimlik = sil.kimlik /\ sil'.iz = sil.iz /\ sil'.sahip = sil.sahip
        <3>1. /\ sil.kimlik <= sonKimlik
              /\ sil.iz # 0 => domain[sil.kimlik] \in {"yok", sil.sahip}
              /\ sil.kimlik = kal.kimlik => kal.adim \in {"bos", "devral"}
            BY <2>2 DEF KimlikDurumu
        <3> QED
            BY <1>0, <1>2, <1>5, <2>1, <2>2, <3>1
    <2>3. CASE /\ sil'.kimlik \in Kimlik /\ domain[sil'.kimlik] # "yok" /\ domain' = domain
               /\ sil'.iz # 0 => sil'.sahip = domain[sil'.kimlik]
               /\ kal' = kal /\ (kal.kimlik = sil'.kimlik => kal.adim = "devral")
        BY <1>0, <2>1, <2>3 DEF KimlikDurumu
    <2> QED
        BY <1>6, <2>2, <2>3, SilGecis
<1>7. ASSUME uretim' # UretimBos
      PROVE  /\ uretim'.kimlik <= sonKimlik'
             /\ domain'[uretim'.kimlik] \in {"yok", uretim'.sahip}
             /\ sil'.iz # 0 /\ sil'.kimlik = uretim'.kimlik => sil'.sahip = uretim'.sahip
    <2>1. ~Coku /\ sonKimlik <= sonKimlik'
        BY <1>3, <1>7, CokuBos
    <2>2. CASE uretim' = uretim
        <3>1. /\ uretim.kimlik <= sonKimlik /\ uretim.kimlik \in Kimlik
              /\ domain[uretim.kimlik] \in {"yok", uretim.sahip}
              /\ sil.iz # 0 /\ sil.kimlik = uretim.kimlik => sil.sahip = uretim.sahip
            BY <1>0, <1>7, <2>2 DEF KimlikDurumu
        <3>2. sil'.iz # 0 /\ sil'.kimlik = uretim'.kimlik => sil'.sahip = uretim'.sahip
            BY <1>0, <2>2, <3>1, SilGecis
        <3> QED
            BY <1>0, <1>2, <2>1, <2>2, <3>1, <3>2
    <2>3. CASE /\ uretim'.kimlik \in Kimlik /\ domain[uretim'.kimlik] # "yok"
               /\ uretim'.sahip = domain[uretim'.kimlik]
               /\ domain' = domain /\ sil' = sil /\ sonKimlik' = sonKimlik
        BY <1>0, <2>3 DEF KimlikDurumu
    <2> QED
        BY <1>7, <2>2, <2>3, UretimGecis
<1>8. ASSUME bag'.adim \in Baglayan
      PROVE  /\ bag'.kimlik <= sonKimlik'
             /\ domain'[bag'.kimlik] \in {"yok", bag'.sahip}
             /\ bag'.adim # "kilitle" => domain'[bag'.kimlik] # "yok"
             /\ bag'.kimlik = kal'.kimlik => kal'.adim \in {"bos", "devral"}
    <2>1. ~Coku /\ sonKimlik <= sonKimlik'
        BY <1>3, <1>8, CokuBos
    <2>2. bag.adim \in Baglayan =>
              /\ bag.kimlik <= sonKimlik /\ bag.kimlik \in Kimlik
              /\ domain[bag.kimlik] \in {"yok", bag.sahip}
              /\ bag.adim # "kilitle" => domain[bag.kimlik] # "yok"
              /\ bag.kimlik = kal.kimlik => kal.adim \in {"bos", "devral"}
        BY <1>0 DEF KimlikDurumu, Baglayan
    <2>3. CASE bag' = bag
        <3>1. bag.adim # "kilitle" => domain'[bag.kimlik] # "yok"
            <4>1. CASE SilDomain
                <5>1. bag.adim # "kilitle" => bag.kimlik # sil.kimlik
                    BY <1>8, <2>3, <4>1 DEF SilDomain, Baglayan
                <5>2. domain' = domain \/ domain' = [domain EXCEPT ![sil.kimlik] = "yok"]
                    BY <4>1 DEF SilDomain
                <5> QED
                    BY <1>8, <2>2, <2>3, <5>1, <5>2 DEF YapiInv, DomainDurumu
            <4>2. CASE \E m \in Musteri : YeniDomain(m)
                <5>1. domain' = [domain EXCEPT ![sonKimlik'] = domain'[sonKimlik']]
                      /\ sonKimlik' = sonKimlik + 1
                    BY <4>2, DomainAdim DEF YeniDomain, YapiInv, DomainDurumu
                <5> QED
                    BY <1>0, <1>8, <2>2, <2>3, <5>1 DEF YapiInv, DomainDurumu
            <4> QED
                BY <1>8, <2>1, <2>2, <2>3, <4>1, <4>2, DomainCerceve
        <3> QED
            BY <1>0, <1>2, <1>5, <1>8, <2>1, <2>2, <2>3, <3>1
    <2>4. CASE /\ bag.adim \in Baglayan /\ bag'.kimlik = bag.kimlik /\ bag'.sahip = bag.sahip
               /\ bag'.adim # "kilitle" => bag.adim # "kilitle" \/ domain[bag.kimlik] # "yok"
               /\ domain' = domain /\ kal' = kal
        BY <1>0, <2>1, <2>2, <2>4
    <2>5. CASE /\ bag'.kimlik \in Kimlik /\ domain[bag'.kimlik] # "yok"
               /\ bag'.sahip = domain[bag'.kimlik] /\ bag'.adim = "kilitle" /\ domain' = domain
               /\ kal'.kimlik = bag'.kimlik => kal'.adim \in {"bos", "devral"}
        BY <1>0, <2>1, <2>5 DEF KimlikDurumu
    <2> QED
        BY <1>8, <2>3, <2>4, <2>5, BagGecis
<1> QED
    BY <1>1, <1>4, <1>6, <1>7, <1>8 DEF KimlikDurumu, Baglayan

\* A separation that is cut short, or fails, leaves its rows in the history.
LEMMA KalanBuyur ==
    ASSUME YapiInv, [Next]_vars
    PROVE  kalan \subseteq kalan'
<1>1. CASE KalListele
    BY <1>1 DEF KalListele
<1>2. CASE KalYaz
    BY <1>2 DEF KalYaz
<1>3. CASE Coku
    BY <1>3 DEF Coku
<1>4. CASE UNCHANGED kal
    BY <1>4, <1>1, <1>2, <1>3
       DEF YedekKaydet, KalIz, KalDevral, SilDomain, SilAnlik, SilYaz, IsaretAcilis, IsaretIz,
           IsaretYaz, SupurIsaretle, SupurListele, UcBasla, BagKilitle, BagDefter, BagYaz,
           BagBitir, YedekBasla, SilHazirla, BagBasla, YeniDomain, Sec, Dogrula, UzakSil,
           SatirSil, Bitir, SureDolar, YuklemeBiter, Siliciler, Next, vars, gecmisVars
<1> QED
    BY <1>1, <1>2, <1>3, <1>4, KalCerceve DEF YeniDomain, KalIz, KalDevral, gecmisVars

\* A live row leaves the separation marked, or in the history.
LEMMA AyrilmaBiter ==
    ASSUME YapiInv, [Next]_vars, NEW b \in Yedek, durum[b] = "canli", SatirAyni(b),
           Ayriliyor(b), ~Ayriliyor(b)'
    PROVE  b \in kalan'
<1> USE DEF YapiInv
<1>0. /\ kal \in KalKaydi /\ kal.adim \in {"listele", "iz", "yaz"}
      /\ b \in Kalinti /\ kimlik'[b] = kimlik[b]
    BY DEF KalDurumu, Ayriliyor, Kalinti, SatirAyni
<1>1. kal' # kal
    BY <1>0 DEF Ayriliyor
<1>2. CASE KalListele
    <2>1. CASE kal' = [kal EXCEPT !.adim = "iz", !.liste = Kalinti]
        <3>1. kal'.adim = "iz" /\ kal'.liste = Kalinti /\ kal'.kimlik = kal.kimlik
            BY <1>0, <2>1 DEF KalKaydi
        <3> QED
            BY <1>0, <3>1 DEF Ayriliyor
    <2> QED
        BY <1>0, <1>2, <2>1 DEF KalListele
<1>3. CASE KalIz
    <2>1. PICK i : kal' = [kal EXCEPT !.adim = "yaz", !.iz = i]
        BY <1>3 DEF KalIz
    <2>2. /\ kal'.adim = "yaz" /\ kal'.liste = kal.liste /\ kal'.kimlik = kal.kimlik
          /\ kal.adim = "iz"
        BY <1>0, <1>3, <2>1 DEF KalKaydi, KalIz
    <2> QED
        BY <1>0, <2>2 DEF Ayriliyor
<1>4. CASE KalYaz
    <2> DEFINE c == EnKucuk(kal.liste)
    <2>1. kal.adim = "yaz" /\ b \in kal.liste
        BY <1>4 DEF KalYaz, Ayriliyor
    <2>2. CASE b = c
        <3>1. ~Yetimlestir({c} \cap Kalinti, kal.iz, "sk")
            BY <1>0, <2>2, YetimlestirAdim DEF SatirAyni, Kalinti
        <3> QED
            BY <1>4, <2>2, <3>1 DEF KalYaz
    <2>3. CASE b # c
        <3>1. kal' = [kal EXCEPT !.liste = @ \ {c}]
            BY <1>4, <2>1, <2>3 DEF KalYaz
        <3>2. kal'.adim = "yaz" /\ kal'.kimlik = kal.kimlik /\ kal'.liste = kal.liste \ {c}
            BY <1>0, <2>1, <3>1 DEF KalKaydi
        <3> QED
            BY <1>0, <2>1, <2>3, <3>2 DEF Ayriliyor
    <2> QED
        BY <2>2, <2>3
<1>5. CASE Coku
    BY <1>0, <1>5 DEF Coku
<1>6. kal # KalBos /\ kal.adim # "devral"
    BY <1>0 DEF KalBos
<1>7. ~KalDevral /\ \A m \in Musteri : ~YeniDomain(m)
    BY <1>6 DEF YeniDomain, KalDevral
<1> QED
    BY <1>1, <1>2, <1>3, <1>4, <1>5, <1>7, KalCerceve

\* The same after the step.
GosterilirSonra(b, m) == asil'[b] = m \/ <<b, m>> \in onayli' \/ b \in kalan'

LEMMA AitAdim ==
    ASSUME YapiInv, AitInv, [Next]_vars
    PROVE  AitDurumu'
<1> SUFFICES ASSUME NEW b \in Yedek
             PROVE  /\ durum'[b] = "canli" /\ ~Ayriliyor(b)' =>
                          /\ domain'[kimlik'[b]] # "yok" => GosterilirSonra(b, domain'[kimlik'[b]])
                          /\ sil'.iz # 0 /\ sil'.kimlik = kimlik'[b] => GosterilirSonra(b, sil'.sahip)
                          /\ uretim' # UretimBos /\ uretim'.kimlik = kimlik'[b] =>
                                 GosterilirSonra(b, uretim'.sahip)
                    /\ sahip'[b] \in Musteri => GosterilirSonra(b, sahip'[b])
    BY DEF AitDurumu, Gosterilir, GosterilirSonra
<1>1. SatirAdimi(b) /\ kalan \subseteq kalan' /\ onayli \subseteq onayli'
    BY SatirGecis, KalanBuyur, GecmisBuyur
<1>2. durum[b] # "yok" => asil'[b] = asil[b]
    <2>1. CASE YedekKaydet
        BY <2>1 DEF YedekKaydet, YapiInv, GecmisDurumu
    <2> QED
        BY <2>1, GecmisCerceve DEF SilYaz, BagYaz
<1>3. \A m : durum[b] # "yok" /\ Gosterilir(b, m) => GosterilirSonra(b, m)
    BY <1>1, <1>2 DEF Gosterilir, GosterilirSonra
<1>4. /\ durum[b] = "yok" => sahip[b] = "bos"
      /\ durum[b] = "canli" => kimlik[b] \in Kimlik
      /\ \A m \in Musteri : m \notin {"bos", "sk"}
      /\ sahip[b] \in Musteri => Gosterilir(b, sahip[b])
    BY MusteriVarsayim DEF YapiInv, SutunDurumu, SatirDurumu, AitInv, AitDurumu
<1>5. KimlikDurumu
    BY DEF AitInv
\* The row is left alone.
<1>6. CASE SatirAyni(b)
    <2>1. sahip'[b] \in Musteri => GosterilirSonra(b, sahip'[b])
        BY <1>3, <1>4, <1>6 DEF SatirAyni
    <2>2. ASSUME durum'[b] = "canli", ~Ayriliyor(b)'
          PROVE  /\ domain'[kimlik'[b]] # "yok" => GosterilirSonra(b, domain'[kimlik'[b]])
                 /\ sil'.iz # 0 /\ sil'.kimlik = kimlik'[b] => GosterilirSonra(b, sil'.sahip)
                 /\ uretim' # UretimBos /\ uretim'.kimlik = kimlik'[b] => GosterilirSonra(b, uretim'.sahip)
        <3> DEFINE k == kimlik[b]
        <3>1. durum[b] = "canli" /\ kimlik'[b] = k /\ k \in Kimlik
            BY <1>4, <1>6, <2>2 DEF SatirAyni
        <3>2. CASE Ayriliyor(b)
            <4>1. b \in kalan'
                BY <1>6, <2>2, <3>1, <3>2, AyrilmaBiter
            <4> QED
                BY <4>1 DEF GosterilirSonra
        <3>3. CASE ~Ayriliyor(b)
            <4>1. /\ domain[k] # "yok" => GosterilirSonra(b, domain[k])
                  /\ sil.iz # 0 /\ sil.kimlik = k => GosterilirSonra(b, sil.sahip)
                  /\ uretim # UretimBos /\ uretim.kimlik = k => GosterilirSonra(b, uretim.sahip)
                BY <1>3, <3>1, <3>3 DEF AitInv, AitDurumu
            <4>2. domain'[k] # "yok" => domain'[k] = domain[k]
                <5>1. ~YeniAcilir(k)
                    BY <2>2, <3>1 DEF YeniAcilir, Ayriliyor
                <5> QED
                    BY <1>5, <3>1, <5>1, DomainGecis
            <4>3. sil'.iz # 0 => sil'.adim # "bos"
                BY SilAdim DEF SilDurumu
            <4>4. sil'.iz # 0 /\ sil'.kimlik = k => GosterilirSonra(b, sil'.sahip)
                BY <4>1, <4>3, SilGecis
            <4>5. uretim' # UretimBos /\ uretim'.kimlik = k => GosterilirSonra(b, uretim'.sahip)
                BY <4>1, UretimGecis
            <4> HIDE DEF k
            <4> QED
                BY <3>1, <4>1, <4>2, <4>4, <4>5
        <3> QED
            BY <3>2, <3>3
    <2> QED
        BY <2>1, <2>2
\* A backup is written, under an id that still is its account's, or nobody's.
<1>7. CASE Yazilir(b)
    <2>1. /\ kimlik'[b] = uretim.kimlik /\ asil'[b] = uretim.sahip /\ sahip'[b] = "bos"
          /\ YedekKaydet /\ uretim # UretimBos
        BY <1>4, <1>7 DEF Yazilir, YedekKaydet
    <2>2. domain' = domain /\ sil' = sil /\ uretim' = UretimBos
        BY <2>1 DEF YedekKaydet
    <2>3. /\ domain[uretim.kimlik] \in {"yok", uretim.sahip}
          /\ sil.iz # 0 /\ sil.kimlik = uretim.kimlik => sil.sahip = uretim.sahip
        BY <1>5, <2>1 DEF KimlikDurumu
    <2> QED
        BY <1>4, <2>1, <2>2, <2>3 DEF GosterilirSonra
\* Its account is deleted: the name it gets is the account's.
<1>8. CASE YetimOlur(b)
    <2>1. durum'[b] = "yetim" /\ durum[b] = "canli"
        BY <1>8 DEF YetimOlur
    <2>2. CASE SilYaz /\ kimlik[b] = sil.kimlik /\ sahip'[b] = sil.sahip
        <3>1. sil.iz # 0 /\ sil.adim # "bos"
            BY <2>2 DEF SilYaz, YapiInv, SilDurumu
        <3>2. ~Ayriliyor(b)
            BY <1>5, <2>2, <3>1 DEF KimlikDurumu, Ayriliyor
        <3>3. Gosterilir(b, sil.sahip)
            BY <2>1, <2>2, <3>1, <3>2 DEF AitInv, AitDurumu
        <3> QED
            BY <1>3, <2>1, <2>2, <3>3
    <2>3. CASE sahip'[b] \in {sahip[b], "sk"}
        BY <1>3, <1>4, <2>1, <2>3
    <2> QED
        BY <1>8, <2>2, <2>3 DEF YetimOlur
\* It is bound, with consent or by its own name, to an account that is locked.
<1>9. CASE Baglanir(b)
    <2>1. /\ BagYaz /\ b \in Uyan /\ durum[b] = "yetim" /\ kimlik'[b] = bag.kimlik
          /\ sahip'[b] = sahip[b] /\ (bag.hepsi => <<b, bag.sahip>> \in onayli')
        BY <1>9 DEF Baglanir, Yetim
    <2>2. bag.adim = "yaz" /\ domain' = domain /\ sil' = sil /\ uretim' = uretim
        BY <2>1 DEF BagYaz
    <2>3. /\ domain[bag.kimlik] = bag.sahip /\ bag.sahip \in Musteri
          /\ sil.iz # 0 => sil.adim # "bos"
        BY <1>5, <2>2 DEF KimlikDurumu, YapiInv, BagDurumu, SilDurumu
    <2>4. GosterilirSonra(b, bag.sahip)
        <3>1. CASE bag.hepsi
            BY <2>1, <3>1 DEF GosterilirSonra
        <3>2. CASE sahip[b] = bag.sahip
            BY <1>3, <1>4, <2>1, <2>3, <3>2
        <3> QED
            BY <2>1, <3>1, <3>2 DEF Uyan
    <2>5. sil.iz # 0 /\ sil.kimlik = bag.kimlik => sil.sahip = bag.sahip
        BY <1>5, <2>3, MusteriVarsayim DEF KimlikDurumu
    <2>6. uretim # UretimBos /\ uretim.kimlik = bag.kimlik => uretim.sahip = bag.sahip
        BY <1>5, <2>3, MusteriVarsayim DEF KimlikDurumu
    <2>7. sahip'[b] \in Musteri => GosterilirSonra(b, sahip'[b])
        BY <1>3, <1>4, <2>1
    <2> QED
        BY <2>1, <2>2, <2>3, <2>4, <2>5, <2>6, <2>7
<1>10. CASE Silinir(b)
    BY <1>4, <1>10 DEF Silinir
<1> QED
    BY <1>1, <1>6, <1>7, <1>8, <1>9, <1>10 DEF SatirAdimi

LEMMA AitBaslar == Init => AitInv
<1> SUFFICES ASSUME Init PROVE AitInv
    OBVIOUS
<1>1. /\ sil.adim = "bos" /\ sil.iz = 0 /\ bag.adim = "bos" /\ kal.adim = "bos" /\ kal.kimlik = 0
      /\ uretim = UretimBos /\ sonKimlik \in {0, 1}
    BY DEF Init, SilBos, BagBos, KalBos
<1>2. KimlikDurumu
    BY <1>1 DEF Init, KimlikDurumu, Kimlik
<1>3. AitDurumu
    <2>1. ASSUME NEW b \in Yedek, durum[b] = "canli", domain[kimlik[b]] # "yok"
          PROVE  Gosterilir(b, domain[kimlik[b]])
        <3>1. b <= IlkYedek /\ kimlik[b] = 1 /\ asil[b] = IlkMusteri /\ 1 \in Kimlik
            BY <2>1, SayiVarsayim DEF Init, Kimlik
        <3>2. domain[1] = IlkMusteri
            BY <2>1, <3>1 DEF Init
        <3> QED
            BY <3>1, <3>2 DEF Gosterilir
    <2>2. \A b \in Yedek : sahip[b] \notin Musteri
        BY MusteriVarsayim DEF Init
    <2> QED
        BY <1>1, <2>1, <2>2 DEF AitDurumu
<1> QED
    BY <1>2, <1>3 DEF AitInv

LEMMA AitInvAdim == YapiInv /\ AitInv /\ [Next]_vars => AitInv'
    BY KimlikAdim, AitAdim DEF AitInv

\* An account shows backups of its own customer only, or with an administrator's
\* consent, or when separating an earlier account's remnants failed: the mark's
\* name, the order of separation and binding, and the locked account row keep
\* every reused id and every late backup in its place.
THEOREM SilinenBaskasinaVerilmez == Spec => []BaskasinaVerilmez
<1>1. Spec => [](YapiInv /\ AitInv)
    BY YapiBaslar, YapiAdim, AitBaslar, AitInvAdim, PTL DEF Spec
<1>2. YapiInv /\ AitInv => BaskasinaVerilmez
    BY DEF YapiInv, KalDurumu, AitInv, AitDurumu, Ayriliyor, Gosterilir, BaskasinaVerilmez
<1> QED
    BY <1>1, <1>2, PTL
=============================================================================
