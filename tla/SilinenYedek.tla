---------------------------- MODULE SilinenYedek ----------------------------
(***************************************************************************)
(* The backups of deleted hosting accounts (src/internal/backups/silinen.go).*)
(*                                                                         *)
(* Deleting an account leaves its backup rows in place and marks them as   *)
(* orphans; their deletion, by the nightly sweep or by the administrator,  *)
(* takes the remote copy, the row and the file; binding makes them live    *)
(* again under another account.  All of it runs in one process, in several *)
(* goroutines, over one database that keeps no lock between two statements *)
(* but a transaction's row locks.                                          *)
(*                                                                         *)
(* One system user (sk) is modelled: every account and backup here has it, *)
(* because only such accounts and backups ever meet.  A customer stands    *)
(* for a domain name with its reseller.  Backups of the customers in       *)
(* Hedefli have their remote copy on a target of the customer's own, the   *)
(* others on the panel's general target.                                   *)
(***************************************************************************)
EXTENDS Integers, FiniteSets

CONSTANTS
    YedekSayisi,     \* backups
    IlkYedek,        \* of which this many exist at the start
    KimlikSayisi,    \* bound: ids of the domains table
    IzSayisi,        \* bound: marks in use at a time
    Musteri,         \* customers
    IlkMusteri,      \* who has the first account
    Hedefli,         \* customers with a remote target of their own
    SahipsizEsik,    \* sahipsizEsikAdet
    Ariza,           \* the faults that may strike
    ArizaSiniri,     \* bound: faults
    EsZamanli,       \* bound: requests and turns under way at a time
    IstekSiniri      \* bound: the administrator's requests

Yedek == 1 .. YedekSayisi
Kimlik == 1 .. KimlikSayisi
Iz == 1 .. IzSayisi
\* Who deletes orphans: the nightly sweep (one at a time, silinenSupurKilit) and
\* the administrator's request (one at a time here).
Silici == {"supur", "uc"}
ArizaTuru == {
    "oku",       \* a query fails
    "yaz",       \* a write fails, its retries too
    "uzak",      \* the remote delete fails or times out
    "dosya",     \* os.Remove fails
    "isle",      \* a commit fails after the file went
    "cokme"}     \* the panel restarts

ASSUME SayiVarsayim ==
    /\ YedekSayisi \in Nat /\ IlkYedek \in 0 .. YedekSayisi
    /\ KimlikSayisi \in Nat \ {0} /\ IzSayisi \in Nat
    /\ SahipsizEsik \in Nat /\ ArizaSiniri \in Nat /\ IstekSiniri \in Nat
    /\ EsZamanli \in Nat
ASSUME MusteriVarsayim ==
    IlkMusteri \in Musteri /\ Hedefli \subseteq Musteri /\ Musteri \cap {"yok", "bos", "sk"} = {}
ASSUME ArizaVarsayim == Ariza \subseteq ArizaTuru

VARIABLES
    domain,      \* the domains table: whose account has the id
    sonKimlik,   \* its AUTO_INCREMENT
    durum,       \* the backup's row: yok, canli (silinme NULL), yetim, silindi
    kimlik,      \* domain_id (0: orphan)
    iz,          \* iz_id (0: empty)
    sahip,       \* alan_adi and reseller_id: bos, sk (not known) or a customer
    sure,        \* son_kullanma: yok, ileri, doldu
    dosya,       \* backups whose archive is on the disk
    uzak,        \* backups whose remote copy is there
    yukleme,     \* backups whose upload is under way
    anlik,       \* backup_yetim_hedefler, by iz_id
    sil,         \* the request that deletes an account (HostingYik)
    uretim,      \* the backup being taken
    kal,         \* the new account's YetimKalintilariniAyir
    isaret,      \* the marking turn (SilinenSahipsizIsaretle)
    silici,      \* the deletions of orphans
    bag,         \* the request that binds orphans to an account
    asil,        \* history: the customer the backup was taken from
    kalan,       \* history: backups that were left with a new account
    onayli,      \* history: backups an administrator gave to a customer
    goruntulu,   \* history: backups that were marked with their own target copied
    listedeyken, \* history: backups bound while a deletion had them on its list
    gec,         \* history: rows bound although they were not locked before
    yuklenirken, \* history: backups whose remote delete last ran during their upload
    ariza,       \* faults so far
    istek        \* the administrator's requests so far

satirVars == <<durum, kimlik, iz, sahip, sure>>
kopyaVars == <<dosya, uzak, yukleme>>
gecmisVars == <<asil, kalan, onayli, goruntulu, listedeyken, gec, yuklenirken>>
sinirVars == <<ariza, istek>>
vars == <<domain, sonKimlik, satirVars, kopyaVars, anlik, sil, uretim, kal, isaret, silici, bag,
          gecmisVars, sinirVars>>

AnlikYok == [no |-> 0, kimlik |-> 0, sahip |-> "yok"]
SilBos == [adim |-> "bos", kimlik |-> 0, iz |-> 0, sahip |-> "yok", hedef |-> FALSE]
UretimBos == [kimlik |-> 0, sahip |-> "yok"]
KalBos == [adim |-> "bos", kimlik |-> 0, liste |-> {}, iz |-> 0]
IsaretBos == [kim |-> "yok", liste |-> {}, izler |-> [k \in Kimlik |-> 0]]
SiliciBos == [adim |-> "bos", liste |-> {}, iz |-> [b \in Yedek |-> 0], b |-> 0,
              hedef |-> "yok", yoksay |-> FALSE, bozuk |-> {}]
BagBos == [adim |-> "bos", kimlik |-> 0, sahip |-> "yok", hepsi |-> FALSE,
           kilitli |-> {}, izler |-> {}, defter |-> {}]

EnKucuk(S) == CHOOSE x \in S : \A y \in S : x <= y

\* A fault strikes.
Vur(tur) == tur \in Ariza /\ ariza < ArizaSiniri /\ ariza' = ariza + 1 /\ UNCHANGED istek

\* n more requests or turns may start.
YerVar(n) ==
    LET bir(kosul) == IF kosul THEN 1 ELSE 0
    IN  n + bir(sil # SilBos) + bir(uretim # UretimBos) + bir(kal # KalBos)
          + bir(isaret # IsaretBos) + bir(bag # BagBos)
          + Cardinality({p \in Silici : silici[p] # SiliciBos}) <= EsZamanli

Yetim(b) == durum[b] = "yetim"

\* Still live in its row, but its account is gone: the mark was not written.
Sahipsiz(b) == durum[b] = "canli" /\ domain[kimlik[b]] = "yok"

\* Rows a running deletion has registered (yetimSilinmekte).
Silmede == {"dogrula", "uzak", "satir", "bitti"}
Defter == {silici[p].b : p \in {q \in Silici : silici[q].adim \in Silmede}}

\* Rows the binding transaction has locked (SELECT ... FOR UPDATE).
BagKilit == IF bag.adim \in {"defter", "yaz"} THEN bag.kilitli ELSE {}

-----------------------------------------------------------------------------
(* The marks.  An id is random and only compared, so that any mark no row,    *)
(* snapshot or goroutine holds stands for a new one.                         *)
Kullanilan ==
    {iz[b] : b \in Yedek} \cup {i \in Iz : anlik[i] # AnlikYok} \cup {sil.iz, kal.iz}
    \cup {isaret.izler[k] : k \in Kimlik} \cup bag.izler
    \cup UNION {{silici[p].iz[b] : b \in Yedek} \cup silici[p].bozuk : p \in Silici}

BosIz == Iz \ Kullanilan
YeniIz == EnKucuk(BosIz)

\* Snapshots of the id that no orphan uses.
Devralinabilir(k) ==
    {i \in Iz : /\ anlik[i] # AnlikYok /\ anlik[i].kimlik = k
                /\ \A b \in Yedek : ~(Yetim(b) /\ iz[b] = i)}

\* sahipsizIzID: the mark of the newest of these, or a new one.
SahipsizIz(k) ==
    IF Devralinabilir(k) # {}
    THEN {i \in Devralinabilir(k) : \A j \in Devralinabilir(k) : anlik[j].no <= anlik[i].no}
    ELSE IF BosIz = {} THEN {} ELSE {YeniIz}

\* The newest snapshot's AUTO_INCREMENT id.
EnBuyukNo == CHOOSE n \in {anlik[i].no : i \in Iz} : \A i \in Iz : anlik[i].no <= n

\* The rows in S become orphans; a name already there is kept.  A row that is
\* never to be deleted is one whose term does not come.
Yetimlestir(S, i, ad) ==
    /\ durum' = [b \in Yedek |-> IF b \in S THEN "yetim" ELSE durum[b]]
    /\ kimlik' = [b \in Yedek |-> IF b \in S THEN 0 ELSE kimlik[b]]
    /\ iz' = [b \in Yedek |-> IF b \in S THEN i ELSE iz[b]]
    /\ sahip' = [b \in Yedek |->
                    IF b \notin S THEN sahip[b]
                    ELSE IF ad = "sk" /\ sahip[b] # "bos" THEN sahip[b] ELSE ad]
    /\ sure' = [b \in Yedek |-> IF b \in S THEN "ileri" ELSE sure[b]]

\* Mutant of HedefBittiyse: the snapshot goes with the first orphan of its mark.
HedefBittiyseIlkte(i) ==
    IF i # 0 THEN anlik' = [anlik EXCEPT ![i] = AnlikYok] ELSE UNCHANGED anlik

\* yetimHedefBittiyse: the snapshot goes with the mark's last orphan.
HedefBittiyse(i) ==
    IF i # 0 /\ \A b \in Yedek : ~(Yetim(b) /\ iz[b] = i)
    THEN anlik' = [anlik EXCEPT ![i] = AnlikYok]
    ELSE UNCHANGED anlik

\* The panel starts with the first account there, or with its row gone before
\* its backups were marked and its id about to be given out again.
Init ==
    /\ sonKimlik \in {0, 1}
    /\ domain = [k \in Kimlik |-> IF k = sonKimlik THEN IlkMusteri ELSE "yok"]
    /\ durum = [b \in Yedek |-> IF b <= IlkYedek THEN "canli" ELSE "yok"]
    /\ kimlik = [b \in Yedek |-> IF b <= IlkYedek THEN 1 ELSE 0]
    /\ iz = [b \in Yedek |-> 0]
    /\ sahip = [b \in Yedek |-> "bos"]
    /\ sure = [b \in Yedek |-> "yok"]
    /\ dosya = 1 .. IlkYedek
    /\ uzak = 1 .. IlkYedek
    /\ yukleme = {}
    /\ anlik = [i \in Iz |-> AnlikYok]
    /\ sil = SilBos /\ uretim = UretimBos /\ kal = KalBos /\ isaret = IsaretBos
    /\ silici = [p \in Silici |-> SiliciBos]
    /\ bag = BagBos
    /\ asil = [b \in Yedek |-> IF b <= IlkYedek THEN IlkMusteri ELSE "yok"]
    /\ kalan = {} /\ onayli = {} /\ goruntulu = {} /\ listedeyken = {} /\ gec = {}
    /\ yuklenirken = {}
    /\ ariza = 0 /\ istek = 0

-----------------------------------------------------------------------------
(* Accounts and their backups.                                              *)

\* A backup starts; its row is written when the archive is ready, whatever
\* became of the account meanwhile.
YedekBasla(k) ==
    /\ uretim = UretimBos /\ YerVar(1)
    /\ domain[k] # "yok"
    /\ \E b \in Yedek : durum[b] = "yok"
    /\ uretim' = [kimlik |-> k, sahip |-> domain[k]]
    /\ UNCHANGED <<domain, sonKimlik, satirVars, kopyaVars, anlik, sil, kal, isaret, silici, bag,
                   gecmisVars, sinirVars>>

\* The row is there, and its upload starts: in a goroutine, or in the place the
\* request has among the running ones; nothing waits for it.  The target of its
\* own is read from the account, which may be gone.
YedekKaydet ==
    /\ uretim # UretimBos
    /\ uretim' = UretimBos
    /\ \E b \in Yedek :
          /\ durum[b] = "yok" /\ \A c \in Yedek : durum[c] = "yok" => b <= c
          /\ durum' = [durum EXCEPT ![b] = "canli"]
          /\ kimlik' = [kimlik EXCEPT ![b] = uretim.kimlik]
          /\ asil' = [asil EXCEPT ![b] = uretim.sahip]
          /\ dosya' = dosya \cup {b}
          /\ yukleme' = IF uretim.sahip \in Hedefli /\ domain[uretim.kimlik] = "yok"
                        THEN yukleme ELSE yukleme \cup {b}
    /\ UNCHANGED <<domain, sonKimlik, iz, sahip, sure, uzak, anlik, sil, kal, isaret, silici,
                   bag, kalan, onayli, goruntulu, listedeyken, gec, yuklenirken, sinirVars>>

\* The upload ends, within its 30 minutes, with the copy there or not; the row is
\* not looked at again.
YuklemeBiter(b) ==
    /\ b \in yukleme
    /\ yukleme' = yukleme \ {b}
    /\ uzak' \in {uzak, uzak \cup {b}}
    /\ UNCHANGED <<domain, sonKimlik, satirVars, dosya, anlik, sil, uretim, kal, isaret, silici,
                   bag, gecmisVars, sinirVars>>

\* domains.Create: the row, then the remnants under its id.
YeniDomain(m) ==
    /\ sonKimlik < KimlikSayisi
    /\ \A k \in Kimlik : domain[k] = "yok"
    /\ kal = KalBos /\ YerVar(1)
    /\ sonKimlik' = sonKimlik + 1
    /\ domain' = [domain EXCEPT ![sonKimlik'] = m]
    /\ kal' = [KalBos EXCEPT !.adim = "listele", !.kimlik = sonKimlik']
    /\ UNCHANGED <<satirVars, kopyaVars, anlik, sil, uretim, isaret, silici, bag,
                   gecmisVars, sinirVars>>

\* Rows that an earlier account left under the new one's id.
Kalinti == {b \in Yedek : durum[b] = "canli" /\ kimlik[b] = kal.kimlik}

\* YetimKalintilariniAyir ends, whatever it has done.
KalBitti == kal' = [KalBos EXCEPT !.adim = "devral", !.kimlik = kal.kimlik]

KalListele ==
    /\ kal.adim = "listele"
    /\ \/ Kalinti = {} /\ KalBitti /\ UNCHANGED <<kalan, sinirVars>>
       \/ /\ Kalinti # {}
          /\ kal' = [kal EXCEPT !.adim = "iz", !.liste = Kalinti]
          /\ UNCHANGED <<kalan, sinirVars>>
       \/ Vur("oku") /\ KalBitti /\ kalan' = kalan \cup Kalinti
    /\ UNCHANGED <<domain, sonKimlik, satirVars, kopyaVars, anlik, sil, uretim, isaret, silici, bag,
                   asil, onayli, goruntulu, listedeyken, gec, yuklenirken>>

KalIz ==
    /\ kal.adim = "iz"
    /\ \E i \in SahipsizIz(kal.kimlik) : kal' = [kal EXCEPT !.adim = "yaz", !.iz = i]
    /\ UNCHANGED <<domain, sonKimlik, satirVars, kopyaVars, anlik, sil, uretim, isaret, silici,
                   bag, gecmisVars, sinirVars>>

\* satiriYetimIsaretle, row by row: only a row still unmarked under the id.
KalYaz ==
    /\ kal.adim = "yaz"
    /\ LET b == EnKucuk(kal.liste)
       IN  /\ IF kal.liste = {b} THEN KalBitti ELSE kal' = [kal EXCEPT !.liste = @ \ {b}]
           /\ \/ Yetimlestir({b} \cap Kalinti, kal.iz, "sk") /\ UNCHANGED <<kalan, sinirVars>>
              \/ Vur("yaz") /\ kalan' = kalan \cup {b} /\ UNCHANGED satirVars
    /\ UNCHANGED <<domain, sonKimlik, kopyaVars, anlik, sil, uretim, isaret, silici, bag,
                   asil, onayli, goruntulu, listedeyken, gec, yuklenirken>>

-----------------------------------------------------------------------------
(* Deleting an account.                                                     *)

\* SilinenIzHazirla, while the account's row is still there; without it (it
\* could not be read) no mark is written at all.  An account is not deleted in
\* the moment in which it is created.
SilHazirla(k) ==
    /\ sil = SilBos /\ YerVar(1)
    /\ domain[k] # "yok"
    /\ kal.kimlik = k => kal.adim = "devral"
    /\ \/ /\ BosIz # {}
          /\ sil' = [adim |-> "domain", kimlik |-> k, iz |-> YeniIz, sahip |-> domain[k],
                     hedef |-> domain[k] \in Hedefli]
          /\ UNCHANGED sinirVars
       \/ Vur("oku") /\ sil' = [SilBos EXCEPT !.adim = "domain", !.kimlik = k]
    /\ UNCHANGED <<domain, sonKimlik, satirVars, kopyaVars, anlik, uretim, kal, isaret, silici,
                   bag, gecmisVars>>

\* DELETE FROM domains waits for a binding that has locked the row.
SilDomain ==
    /\ sil.adim = "domain"
    /\ bag.adim \in {"defter", "yaz"} => bag.kimlik # sil.kimlik
    /\ \/ /\ domain' = [domain EXCEPT ![sil.kimlik] = "yok"]
          /\ sil' = IF sil.iz = 0 THEN SilBos ELSE [sil EXCEPT !.adim = "anlik"]
          /\ UNCHANGED sinirVars
       \/ Vur("yaz") /\ sil' = SilBos /\ UNCHANGED domain
    /\ UNCHANGED <<sonKimlik, satirVars, kopyaVars, anlik, uretim, kal, isaret, silici,
                   bag, gecmisVars>>

\* hedefAnlikGoruntusu: the account's own target is copied, if there is one
\* and a backup with it.  Without the copy the deletion goes on all the same.
SilAnlik ==
    /\ sil.adim = "anlik"
    /\ sil' = [sil EXCEPT !.adim = "yaz"]
    /\ LET gerek == sil.hedef /\ \E b \in Yedek : kimlik[b] = sil.kimlik
       IN  \/ ~gerek /\ UNCHANGED <<anlik, sinirVars>>
           \/ /\ gerek
              /\ anlik' = [anlik EXCEPT ![sil.iz] = [no |-> 1 + EnBuyukNo, kimlik |-> sil.kimlik,
                                                     sahip |-> sil.sahip]]
              /\ UNCHANGED sinirVars
           \/ gerek /\ Vur("yaz") /\ UNCHANGED anlik
    /\ UNCHANGED <<domain, sonKimlik, satirVars, kopyaVars, uretim, kal, isaret, silici, bag,
                   gecmisVars>>

\* The UPDATE that makes the account's rows orphans; after three failures the
\* rows are left to the marking turn.
SilYaz ==
    /\ sil.adim = "yaz"
    /\ sil' = SilBos
    /\ LET S == {b \in Yedek : kimlik[b] = sil.kimlik}
       IN  \/ /\ Yetimlestir(S, sil.iz, sil.sahip)
              /\ goruntulu' = IF anlik[sil.iz] = AnlikYok THEN goruntulu
                              ELSE goruntulu \cup {b \in S : asil[b] = sil.sahip}
              /\ UNCHANGED sinirVars
           \/ Vur("yaz") /\ UNCHANGED <<satirVars, goruntulu>>
    /\ UNCHANGED <<domain, sonKimlik, kopyaVars, anlik, uretim, kal, isaret, silici, bag,
                   asil, kalan, onayli, listedeyken, gec, yuklenirken>>

-----------------------------------------------------------------------------
(* SilinenSahipsizIsaretle: one turn at a time, when the panel starts and at *)
(* the head of every sweep.                                                 *)
\* Mutant of Adaylar: rows that were marked once, and bound, are not looked at again.
AdaylarIlk == {b \in Yedek : Sahipsiz(b) /\ sahip[b] = "bos"}

Adaylar == {b \in Yedek : Sahipsiz(b)}

\* Too many candidates at once look like a damaged domains table.
EsikAsildi ==
    /\ Cardinality(Adaylar) > SahipsizEsik
    /\ \/ \A k \in Kimlik : domain[k] = "yok"
       \/ 2 * Cardinality(Adaylar) > Cardinality({b \in Yedek : durum[b] = "canli"})

\* The counts and the list of candidates, for kim; isaret = IsaretBos is the
\* free lock.
IsaretBasla(kim) ==
    isaret' = IF EsikAsildi \/ Adaylar = {} THEN IsaretBos
              ELSE [IsaretBos EXCEPT !.kim = kim, !.liste = {<<b, kimlik[b]>> : b \in Adaylar}]

\* Every start of the panel has a turn, and starts may come at any time.
IsaretAcilis ==
    /\ isaret = IsaretBos /\ YerVar(1)
    /\ IsaretBasla("acilis")
    /\ UNCHANGED <<domain, sonKimlik, satirVars, kopyaVars, anlik, sil, uretim, kal, silici, bag,
                   gecmisVars, sinirVars>>

\* The candidates are taken in the order of their rows.
Aday == CHOOSE a \in isaret.liste : \A c \in isaret.liste : a[1] <= c[1]

\* One mark for all candidates with the same old id.
IsaretIz ==
    /\ isaret # IsaretBos
    /\ isaret.izler[Aday[2]] = 0
    /\ \E i \in SahipsizIz(Aday[2]) :
          isaret' = [isaret EXCEPT !.izler = [isaret.izler EXCEPT ![Aday[2]] = i]]
    /\ UNCHANGED <<domain, sonKimlik, satirVars, kopyaVars, anlik, sil, uretim, kal, silici, bag,
                   gecmisVars, sinirVars>>

\* sahipsizSatiriIsaretle: only a row that is still ownerless and unmarked.
IsaretYaz ==
    /\ isaret # IsaretBos
    /\ isaret.izler[Aday[2]] # 0
    /\ isaret' = IF isaret.liste = {Aday} THEN IsaretBos ELSE [isaret EXCEPT !.liste = @ \ {Aday}]
    /\ \/ /\ Yetimlestir({Aday[1]} \cap Adaylar, isaret.izler[Aday[2]], "sk")
          /\ UNCHANGED sinirVars
       \/ Vur("yaz") /\ UNCHANGED satirVars
    /\ UNCHANGED <<domain, sonKimlik, kopyaVars, anlik, sil, uretim, kal, silici, bag,
                   gecmisVars>>

-----------------------------------------------------------------------------
(* The deletion of orphans: the nightly sweep (SilinenSupur) and the          *)
(* administrator's request (SilinenSil).                                     *)

\* Mutant of Artik: the hour is compared the wrong way round.
ArtikTers(i) ==
    /\ anlik[i] # AnlikYok /\ sil.iz = i
    /\ \A b \in Yedek : ~(Yetim(b) /\ iz[b] = i) /\ ~(Sahipsiz(b) /\ kimlik[b] = anlik[i].kimlik)

\* A snapshot that no orphan and no unmarked row of its account needs.  Its hour
\* of grace is for the deletion that wrote it, which has 3 seconds; here it ends
\* with that deletion.
Artik(i) ==
    /\ anlik[i] # AnlikYok /\ sil.iz # i
    /\ \A b \in Yedek : ~(Yetim(b) /\ iz[b] = i) /\ ~(Sahipsiz(b) /\ kimlik[b] = anlik[i].kimlik)

\* The rows S are read, with their marks; none, and the deletion is over.
Listele(p, S, yoksay) ==
    silici' = [silici EXCEPT ![p] =
                  IF S = {} THEN SiliciBos
                  ELSE [SiliciBos EXCEPT !.adim = "sec", !.liste = S, !.yoksay = yoksay,
                                         !.iz = [b \in Yedek |-> IF b \in S THEN iz[b] ELSE 0]]]

\* Mutant of TemizleListele: the sweep's query without the term.
TemizleListeleSuresiz ==
    /\ anlik' = [i \in Iz |-> IF Artik(i) THEN AnlikYok ELSE anlik[i]]
    /\ Listele("supur", {b \in Yedek : Yetim(b)}, FALSE)
    /\ UNCHANGED sinirVars

\* yetimHedefArtiklariniTemizle, then supurPartisi: the rows past their term,
\* in one batch.  Nothing between the two could tell that they are one step.
TemizleListele ==
    LET dolan == {b \in Yedek : Yetim(b) /\ sure[b] = "doldu"}
        temiz == [i \in Iz |-> IF Artik(i) THEN AnlikYok ELSE anlik[i]]
    IN  \/ anlik' = temiz /\ Listele("supur", dolan, FALSE) /\ UNCHANGED sinirVars
        \/ Vur("yaz") /\ UNCHANGED anlik /\ Listele("supur", dolan, FALSE)
        \/ Vur("oku") /\ anlik' = temiz /\ Listele("supur", {}, FALSE)

\* The sweep starts; it runs a marking turn of its own ...
SupurIsaretle ==
    /\ silici["supur"] = SiliciBos /\ YerVar(2)
    /\ isaret = IsaretBos /\ IsaretBasla("supur") /\ isaret' # IsaretBos
    /\ silici' = [silici EXCEPT !["supur"] = [silici["supur"] EXCEPT !.adim = "isaret"]]
    /\ UNCHANGED <<domain, sonKimlik, satirVars, kopyaVars, anlik, sil, uretim, kal, bag,
                   gecmisVars, sinirVars>>

\* ... or goes on at once: another turn is under way, or this one has nothing
\* to mark; or its own turn is over.
SupurListele ==
    /\ \/ /\ silici["supur"] = SiliciBos /\ YerVar(1)
          /\ isaret # IsaretBos \/ Adaylar = {} \/ EsikAsildi
       \/ silici["supur"].adim = "isaret" /\ isaret.kim # "supur"
    /\ TemizleListele
    /\ UNCHANGED <<domain, sonKimlik, satirVars, kopyaVars, sil, uretim, kal, isaret, bag,
                   gecmisVars>>

\* The administrator deletes every orphan, with or without the remote copies.
UcBasla ==
    /\ silici["uc"] = SiliciBos /\ YerVar(1)
    /\ \E b \in Yedek : Yetim(b)
    /\ istek < IstekSiniri /\ istek' = istek + 1
    /\ \E yoksay \in BOOLEAN : Listele("uc", {b \in Yedek : Yetim(b)}, yoksay)
    /\ UNCHANGED <<domain, sonKimlik, satirVars, kopyaVars, anlik, sil, uretim, kal, isaret, bag,
                   gecmisVars, ariza>>

\* p is done with its row (birak): the next one, or the end.
Sonraki(p, bozuk) ==
    LET s == silici[p]
    IN  silici' = [silici EXCEPT ![p] =
            IF s.liste = {} THEN SiliciBos
            ELSE [s EXCEPT !.adim = "sec", !.b = 0, !.hedef = "yok",
                           !.iz = [s.iz EXCEPT ![s.b] = 0], !.bozuk = s.bozuk \cup bozuk]]

\* The next row: passed over when the target of its mark could not be reached
\* or another deletion has it (yetimSilmeBasla); or the sweep's time is up.
Sec(p) ==
    /\ silici[p].adim = "sec"
    /\ \/ LET s == silici[p]
              b == EnKucuk(s.liste)
              S == s.liste \ {b}
          IN  silici' = [silici EXCEPT ![p] =
                  IF s.iz[b] \in s.bozuk \/ b \in Defter
                  THEN IF S = {} THEN SiliciBos
                       ELSE [s EXCEPT !.liste = S, !.iz = [s.iz EXCEPT ![b] = 0]]
                  ELSE [s EXCEPT !.adim = "dogrula", !.liste = S, !.b = b]]
       \/ p = "supur" /\ silici' = [silici EXCEPT ![p] = SiliciBos]
    /\ UNCHANGED <<domain, sonKimlik, satirVars, kopyaVars, anlik, sil, uretim, kal, isaret, bag,
                   gecmisVars, sinirVars>>

\* yetimHalaYetim: the locked read waits for a binding's commit; then the
\* snapshot is read, by the mark that was read with the row.
Dogrula(p) ==
    /\ silici[p].adim = "dogrula"
    /\ silici[p].b \notin BagKilit
    /\ LET i == silici[p].iz[silici[p].b]
       IN  \/ /\ IF ~Yetim(silici[p].b) THEN Sonraki(p, {})
                 ELSE IF silici[p].yoksay THEN silici' = [silici EXCEPT ![p] = [silici[p] EXCEPT !.adim = "satir"]]
                 ELSE silici' = [silici EXCEPT ![p] =
                               [silici[p] EXCEPT !.adim = "uzak", !.hedef = anlik[i].sahip]]
              /\ UNCHANGED sinirVars
           \/ Vur("oku") /\ Sonraki(p, {})
    /\ UNCHANGED <<domain, sonKimlik, satirVars, kopyaVars, anlik, sil, uretim, kal, isaret, bag,
                   gecmisVars>>

\* yedekUzaktanSilHedefle deletes on the snapshot's target and on the general
\* one; a failure keeps the row, and may have deleted the copy all the same.  It
\* does not know of an upload under way.
UzakSil(p) ==
    /\ silici[p].adim = "uzak"
    /\ LET b == silici[p].b
           silinmis == IF asil[b] \in Hedefli /\ silici[p].hedef # asil[b] THEN uzak ELSE uzak \ {b}
       IN  /\ yuklenirken' = IF b \in yukleme THEN yuklenirken \cup {b} ELSE yuklenirken \ {b}
           /\ \/ /\ uzak' = silinmis
                 /\ silici' = [silici EXCEPT ![p] = [silici[p] EXCEPT !.adim = "satir"]]
                 /\ UNCHANGED sinirVars
              \/ /\ Vur("uzak")
                 /\ uzak' \in {uzak, silinmis}
                 /\ \E bozuk \in {{}, {silici[p].iz[b]}} : Sonraki(p, bozuk)
    /\ UNCHANGED <<domain, sonKimlik, satirVars, dosya, yukleme, anlik, sil, uretim, kal, isaret,
                   bag, asil, kalan, onayli, goruntulu, listedeyken, gec>>

\* yetimSatiriniVeDosyayiSil, one transaction: the row, if it is still an
\* orphan, and then the file; if the file cannot be deleted the row stays.
SatirSil(p) ==
    /\ silici[p].adim = "satir"
    /\ silici[p].b \notin BagKilit
    /\ LET b == silici[p].b
       IN  \/ /\ Yetim(b)
              /\ durum' = [durum EXCEPT ![b] = "silindi"]
              /\ iz' = [iz EXCEPT ![b] = 0]
              /\ sahip' = [sahip EXCEPT ![b] = "bos"]
              /\ sure' = [sure EXCEPT ![b] = "yok"]
              /\ dosya' = dosya \ {b}
              /\ silici' = [silici EXCEPT ![p] = [silici[p] EXCEPT !.adim = "bitti"]]
              /\ UNCHANGED sinirVars
           \/ ~Yetim(b) /\ Sonraki(p, {}) /\ UNCHANGED <<durum, iz, sahip, sure, dosya, sinirVars>>
           \/ /\ Yetim(b)
              /\ \/ Vur("dosya") /\ UNCHANGED dosya
                 \/ Vur("isle") /\ dosya' = dosya \ {b}
              /\ Sonraki(p, {})
              /\ UNCHANGED <<durum, iz, sahip, sure>>
    /\ UNCHANGED <<domain, sonKimlik, kimlik, uzak, yukleme, anlik, sil, uretim, kal, isaret, bag,
                   gecmisVars>>

Bitir(p) ==
    /\ silici[p].adim = "bitti"
    /\ Sonraki(p, {})
    /\ \/ HedefBittiyse(silici[p].iz[silici[p].b]) /\ UNCHANGED sinirVars
       \/ Vur("yaz") /\ UNCHANGED anlik
    /\ UNCHANGED <<domain, sonKimlik, satirVars, kopyaVars, sil, uretim, kal, isaret, bag,
                   gecmisVars>>

-----------------------------------------------------------------------------
(* Binding orphans to an account: one transaction (yetimleriBaglaBir).       *)

\* Mutant of Uyan: the binding's condition without the customer.
UyanSahipsiz == {b \in Yedek : Yetim(b)}

\* Orphans of the same customer, or, with the administrator's consent, all.
Uyan == {b \in Yedek : Yetim(b) /\ (bag.hepsi \/ sahip[b] = bag.sahip)}

BagYeni(k, hepsi) ==
    bag' = [BagBos EXCEPT !.adim = "kilitle", !.kimlik = k, !.sahip = domain[k], !.hepsi = hepsi]

\* SilinenBagla: with an orphan of another customer, only with consent, and
\* then for all of them.
BagBasla(k) ==
    /\ bag = BagBos /\ YerVar(1)
    /\ domain[k] # "yok"
    /\ kal.kimlik = k => kal.adim = "devral"
    /\ istek < IstekSiniri /\ istek' = istek + 1
    /\ BagYeni(k, \E b \in Yedek : Yetim(b) /\ sahip[b] # domain[k])
    /\ UNCHANGED <<domain, sonKimlik, satirVars, kopyaVars, anlik, sil, uretim, kal, isaret,
                   silici, gecmisVars, ariza>>

\* The end of domains.Create: without the flag yedekleri_devral nothing is
\* bound; with it YetimleriDevral reads the account, which may be gone.
KalDevral ==
    /\ kal.adim = "devral"
    /\ kal' = KalBos
    /\ \/ UNCHANGED bag
       \/ bag = BagBos /\ domain[kal.kimlik] # "yok" /\ BagYeni(kal.kimlik, FALSE)
    /\ UNCHANGED <<domain, sonKimlik, satirVars, kopyaVars, anlik, sil, uretim, isaret, silici,
                   gecmisVars, sinirVars>>

\* The account's row is locked, then the orphans that match.
BagKilitle ==
    /\ bag.adim = "kilitle"
    /\ bag' = IF domain[bag.kimlik] = "yok" THEN BagBos
              ELSE [bag EXCEPT !.adim = "defter", !.kilitli = Uyan,
                               !.izler = {iz[b] : b \in Uyan} \ {0}]
    /\ UNCHANGED <<domain, sonKimlik, satirVars, kopyaVars, anlik, sil, uretim, kal, isaret,
                   silici, gecmisVars, sinirVars>>

\* Mutant of BagDefter: the register of running deletions is not read.
BagDefterBakmadan ==
    /\ bag.adim = "defter"
    /\ bag' = [bag EXCEPT !.adim = "yaz"]
    /\ UNCHANGED <<domain, sonKimlik, satirVars, kopyaVars, anlik, sil, uretim, kal, isaret,
                   silici, gecmisVars, sinirVars>>

\* The register is read after the rows are locked.
BagDefter ==
    /\ bag.adim = "defter"
    /\ bag' = [bag EXCEPT !.adim = "yaz", !.defter = Defter]
    /\ UNCHANGED <<domain, sonKimlik, satirVars, kopyaVars, anlik, sil, uretim, kal, isaret,
                   silici, gecmisVars, sinirVars>>

\* Rows that a deletion has read and not come to the end of.
Listede == UNION {silici[p].liste \cup {silici[p].b} : p \in Silici}

\* Mutant of BagYaz: a row is bound, and keeps its term.
BagYazSureKalir ==
    /\ bag.adim = "yaz"
    /\ LET S == Uyan \ bag.defter
       IN  /\ durum' = [b \in Yedek |-> IF b \in S THEN "canli" ELSE durum[b]]
           /\ kimlik' = [b \in Yedek |-> IF b \in S THEN bag.kimlik ELSE kimlik[b]]
           /\ iz' = [b \in Yedek |-> IF b \in S THEN 0 ELSE iz[b]]
    /\ bag' = BagBos
    /\ UNCHANGED <<domain, sonKimlik, sahip, sure, kopyaVars, anlik, sil, uretim, kal, isaret,
                   silici, gecmisVars, sinirVars>>

\* The UPDATE and the commit; a lock error rolls back and, up to baglaDeneme
\* times, starts over.
BagYaz ==
    /\ bag.adim = "yaz"
    /\ LET S == Uyan \ bag.defter
       IN  \/ /\ durum' = [b \in Yedek |-> IF b \in S THEN "canli" ELSE durum[b]]
              /\ kimlik' = [b \in Yedek |-> IF b \in S THEN bag.kimlik ELSE kimlik[b]]
              /\ iz' = [b \in Yedek |-> IF b \in S THEN 0 ELSE iz[b]]
              /\ sure' = [b \in Yedek |-> IF b \in S THEN "yok" ELSE sure[b]]
              /\ onayli' = IF bag.hepsi THEN onayli \cup {<<b, bag.sahip>> : b \in S} ELSE onayli
              /\ goruntulu' = goruntulu \ S
              /\ listedeyken' = listedeyken \cup (S \cap Listede)
              /\ gec' = gec \cup (S \ bag.kilitli)
              /\ bag' = IF bag.izler = {} THEN BagBos
                        ELSE [BagBos EXCEPT !.adim = "bitir", !.izler = bag.izler]
              /\ UNCHANGED sinirVars
           \/ /\ Vur("yaz")
              /\ bag' \in {BagBos, [BagBos EXCEPT !.adim = "kilitle", !.kimlik = bag.kimlik,
                                                  !.sahip = bag.sahip, !.hepsi = bag.hepsi]}
              /\ UNCHANGED <<durum, kimlik, iz, sure, onayli, goruntulu, listedeyken, gec>>
    /\ UNCHANGED <<domain, sonKimlik, sahip, kopyaVars, anlik, sil, uretim, kal, isaret, silici,
                   asil, kalan, yuklenirken>>

\* Mark by mark, the snapshots no orphan needs any more.
BagBitir ==
    /\ bag.adim = "bitir"
    /\ LET i == EnKucuk(bag.izler)
       IN  /\ bag' = IF bag.izler = {i} THEN BagBos ELSE [bag EXCEPT !.izler = @ \ {i}]
           /\ \/ HedefBittiyse(i) /\ UNCHANGED sinirVars
              \/ Vur("yaz") /\ UNCHANGED anlik
    /\ UNCHANGED <<domain, sonKimlik, satirVars, kopyaVars, sil, uretim, kal, isaret, silici,
                   gecmisVars>>

-----------------------------------------------------------------------------
(* Time and crashes.                                                        *)
\* A term ends.  It is a day at least, so that what was under way when the row
\* became an orphan is over, its upload too; what is under way now does not look
\* at the term.
SureDolar(b) ==
    /\ sure[b] = "ileri"
    /\ bag = BagBos /\ isaret = IsaretBos /\ sil = SilBos /\ b \notin yukleme
    /\ sure' = [sure EXCEPT ![b] = "doldu"]
    /\ UNCHANGED <<domain, sonKimlik, durum, kimlik, iz, sahip, kopyaVars, anlik, sil, uretim, kal,
                   isaret, silici, bag, gecmisVars, sinirVars>>

\* The panel restarts; the database with it may give the ids of deleted
\* accounts out again.
Coku ==
    /\ Vur("cokme")
    /\ sil' = SilBos /\ uretim' = UretimBos /\ kal' = KalBos /\ isaret' = IsaretBos /\ bag' = BagBos
    /\ silici' = [p \in Silici |-> SiliciBos]
    /\ \E n \in 0 .. sonKimlik :
          /\ n = sonKimlik \/ \A k \in Kimlik : (domain[k] # "yok" => k <= n)
          /\ sonKimlik' = n
    /\ kalan' = IF kal.adim = "devral" THEN kalan ELSE kalan \cup Kalinti
    /\ yukleme' = {}
    /\ UNCHANGED <<domain, satirVars, dosya, uzak, anlik, asil, onayli, goruntulu, listedeyken, gec,
                   yuklenirken>>

Siliciler(p) == Sec(p) \/ Dogrula(p) \/ UzakSil(p) \/ SatirSil(p) \/ Bitir(p)

Next ==
    \/ \E k \in Kimlik : YedekBasla(k) \/ SilHazirla(k) \/ BagBasla(k)
    \/ \E m \in Musteri : YeniDomain(m)
    \/ YedekKaydet \/ KalListele \/ KalIz \/ KalYaz \/ KalDevral
    \/ SilDomain \/ SilAnlik \/ SilYaz
    \/ IsaretAcilis \/ IsaretIz \/ IsaretYaz
    \/ SupurIsaretle \/ SupurListele \/ UcBasla
    \/ \E p \in Silici : Siliciler(p)
    \/ BagKilitle \/ BagDefter \/ BagYaz \/ BagBitir
    \/ \E b \in Yedek : SureDolar(b) \/ YuklemeBiter(b)
    \/ Coku

Spec == Init /\ [][Next]_vars

\* What every request and turn does once it has started.
Yuruyen ==
    \/ YedekKaydet \/ KalListele \/ KalIz \/ KalYaz \/ KalDevral
    \/ SilDomain \/ SilAnlik \/ SilYaz
    \/ IsaretIz \/ IsaretYaz
    \/ BagKilitle \/ BagDefter \/ BagYaz \/ BagBitir
    \/ \E b \in Yedek : YuklemeBiter(b)

\* The goroutines go on, and the sweep comes every night (SF: the bound on
\* what runs at a time must not keep it away); nothing else is promised.
AdilSpec ==
    /\ Spec
    /\ WF_vars(Yuruyen)
    /\ WF_vars(\E p \in Silici : Siliciler(p))
    /\ SF_vars(SupurIsaretle \/ SupurListele)

-----------------------------------------------------------------------------
(* Properties.                                                              *)

\* The values, and what the columns of a row say together: domain_id = 0 and a
\* mark are an orphan's, a live row has an id, no mark and no term.
TypeOK ==
    /\ domain \in [Kimlik -> Musteri \cup {"yok"}] /\ sonKimlik \in 0 .. KimlikSayisi
    /\ durum \in [Yedek -> {"yok", "canli", "yetim", "silindi"}]
    /\ kimlik \in [Yedek -> 0 .. KimlikSayisi] /\ iz \in [Yedek -> 0 .. IzSayisi]
    /\ sahip \in [Yedek -> Musteri \cup {"bos", "sk"}]
    /\ sure \in [Yedek -> {"yok", "ileri", "doldu"}]
    /\ dosya \subseteq Yedek /\ uzak \subseteq Yedek /\ yukleme \subseteq Yedek
    /\ \A b \in Yedek : durum[b] = "yetim" => kimlik[b] = 0 /\ iz[b] # 0
    /\ \A b \in Yedek : durum[b] = "canli" => kimlik[b] # 0 /\ iz[b] = 0 /\ sure[b] = "yok"

\* Neither the sweep nor the administrator's request takes the file, the remote
\* copy or the row of a live backup, however it meets a binding: "either the
\* binding comes first and the remote copy is never touched, or the deletion
\* comes first and that row is not bound" (silinen.go:61-63).  The exception are
\* rows that became orphans between the binding's lock and its UPDATE, which
\* that sentence does not cover.
CanliKopyaKorunur ==
    [][\A b \in Yedek :
          durum[b] = "canli" /\ b \notin gec =>
             /\ b \in dosya => b \in dosya'
             /\ b \in uzak => b \in uzak'
             /\ durum'[b] # "silindi"]_vars

\* An account shows its customer's own backups only, though ids are given out
\* again and orphans are bound across accounts: others are there with the
\* administrator's consent, or because separating the remnants failed.
BaskasinaVerilmez ==
    \A b \in Yedek :
        /\ durum[b] = "canli" /\ b \notin kalan /\ domain[kimlik[b]] # "yok"
        /\ kimlik[b] = kal.kimlik => kal.adim = "devral"
        => asil[b] = domain[kimlik[b]] \/ <<b, domain[kimlik[b]]>> \in onayli

\* The sweep deletes only what is past its term, although it read the terms up
\* to 20 minutes before; a row bound to an account while it was on the list,
\* and orphaned again, is the exception: its new term is not looked at.
SupurYalnizDolan ==
    [][LET p == silici["supur"]
       IN  p.adim = "satir" /\ silici'["supur"].adim = "bitti" =>
               sure[p.b] = "doldu" \/ p.b \in listedeyken]_vars

\* A deletion that was not told to leave the remote copies leaves none, and no
\* upload that could bring one later, on the customer's own target either, as long
\* as that target was copied when the row was marked: until the mark's last row is
\* gone, the copy is there.  The administrator's request, which may come while an
\* orphan's upload is under way and waits for none, is the exception; the sweep
\* has none but the rows bound while they were on its list.
UzakKopyaSilinir ==
    [][\A p \in Silici :
          LET b == silici[p].b
          IN  /\ silici[p].adim = "satir" /\ silici'[p].adim = "bitti"
              /\ ~silici[p].yoksay /\ (asil[b] \in Hedefli => b \in goruntulu)
              => \/ b \notin uzak /\ b \notin yukleme
                 \/ b \in listedeyken
                 \/ p = "uc" /\ b \in yuklenirken]_vars

\* The password of a deleted account's target does not stay when no backup can
\* need it any more, whichever step failed to delete it.
ParolaKalmaz ==
    []<>(\A i \in Iz : anlik[i] # AnlikYok =>
            \E b \in Yedek : (Yetim(b) /\ iz[b] = i)
                            \/ (Sahipsiz(b) /\ kimlik[b] = anlik[i].kimlik))

\* A backup whose account is gone without a mark does not stay unmarked: the
\* nightly turn marks it, unless so many are without an account that the
\* threshold stops the turn.
SahipsizIsaretlenir == []<>(EsikAsildi \/ \A b \in Yedek : ~Sahipsiz(b))

=============================================================================
