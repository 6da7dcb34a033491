------------------------------ MODULE UzakKopya ------------------------------
(***************************************************************************)
(* The off-site copy worker of the panel (src/internal/backups/uzak): the  *)
(* persistent queue backup_uzak_kopyalar of ONE domain on ONE Drive        *)
(* target, the single worker that empties it (Isci.Bir and isle), the      *)
(* retention run that ends every successful job (SaklamaUygula), the       *)
(* requests of the panel that touch the queue, and a crash and restart of  *)
(* the panel at any point.                                                 *)
(*                                                                         *)
(* Backups are numbered in the order they are taken (backups.id); queue    *)
(* rows are numbered in the order they are inserted (isNo, the row's id).  *)
(* The two orders need not agree.                                          *)
(***************************************************************************)
EXTENDS Integers, FiniteSets

CONSTANTS
    YedekSayisi,    \* backups the domain may ever have
    KokYedek,       \* the system backups, the only ones that may be sent
    Maks,           \* MaksDeneme: attempts before a row becomes 'hata'
    Klasor,         \* folders on Drive the settings may name
    AyarUzayi,      \* the settings an administrator may save
    IlkAyar,        \* bound: the settings a run starts with
    DbHatasi,       \* may a status write whose error is only logged get lost?
    OynakYedek,     \* bound: backups whose local archive may go or move
    IsSiniri,       \* bound: ids handed out to queue rows
    CokmeSiniri,    \* bound: crashes of the panel
    IstekSiniri     \* bound: manual retries, deletions and changes of the folder

Yedek == 1 .. YedekSayisi

\* A row whose name column is empty.
AdYok == "adyok"

\* UzakAdUret: an object's name is made of the folder and the archive's name;
\* its manifest is named after it.
Ad == Yedek \X Klasor

\* Members of the settings row the model tells apart (AyarDenetle's ranges).
Ayar == [aktif: BOOLEAN, yerelSil: BOOLEAN, klasor: Klasor, saklamaN: Nat \ {0},
         saklamaGun: BOOLEAN, yerelTut: Nat]

\* isAyar while the worker holds no job.
AyarYok == [aktif |-> FALSE, yerelSil |-> FALSE, klasor |-> AdYok, saklamaN |-> 1,
            saklamaGun |-> FALSE, yerelTut |-> 0]

ASSUME YedekSayisiVarsayim == YedekSayisi \in Nat \ {0}
ASSUME KokYedekVarsayim == KokYedek \subseteq Yedek
ASSUME OynakVarsayim == OynakYedek \subseteq Yedek
ASSUME MaksVarsayim == Maks \in Nat \ {0}
ASSUME KlasorVarsayim == AdYok \notin Klasor
ASSUME AyarVarsayim == AyarUzayi \subseteq Ayar
ASSUME IlkAyarVarsayim == IlkAyar \subseteq AyarUzayi /\ IlkAyar # {}
ASSUME DbHatasiVarsayim == DbHatasi \in BOOLEAN
ASSUME SinirVarsayim == IsSiniri \in Nat /\ CokmeSiniri \in Nat /\ IstekSiniri \in Nat

VARIABLES
    ayar,         \* backup_uzak_kopya_ayar, the settings row
    yedek,        \* the backups row: not yet taken, there, deleted
    dosya,        \* backups whose local archive is at its own name
    silIstek,     \* backups a request or a pruning under way is to delete
    durum,        \* backup_uzak_kopyalar.durum, SatirYok without a row
    isNo,         \* backup_uzak_kopyalar.id, 0 without a row
    sonIs,        \* the table's AUTO_INCREMENT
    deneme,       \* backup_uzak_kopyalar.deneme
    geriCekilen,  \* rows whose sonraki_deneme lies in the future
    uzakAd,       \* the folder in backup_uzak_kopyalar.uzak_ad, AdYok if empty
    manifestAd,   \* the folder in backup_uzak_kopyalar.manifest_ad, likewise
    veri,         \* the encrypted object on Drive under each name
    manifest,     \* names whose manifest object is on Drive
    adim,         \* where the worker goroutine stands
    is,           \* the job it holds, Bos without one
    isAyar,       \* the settings Bir read before it took the job
    calisan,      \* Isci.calisanID
    iptalIst,     \* Isci.iptalIst: the job's context is cancelled
    hata,         \* what isle returns
    adaylar,      \* SaklamaUygula's candidates still to visit
    aday,         \* the candidate it is deleting
    cokme,        \* crashes so far
    istek         \* manual retries, deletions and changes of the folder so far

adVars == <<uzakAd, manifestAd>>
satirVars == <<durum, isNo, sonIs, deneme, geriCekilen, adVars>>
driveVars == <<veri, manifest>>
isciVars == <<adim, is, isAyar, calisan, iptalIst, hata, adaylar, aday>>
yerelVars == <<yedek, dosya, silIstek>>
sinirVars == <<cokme, istek>>
vars == <<ayar, yerelVars, satirVars, driveVars, isciVars, sinirVars>>

Bos == 0
SatirYok == "satiryok"
Yarim == {"sifreleniyor", "yukleniyor", "dogrulaniyor"}
Durum == {SatirYok, "bekliyor", "tamam", "hata", "iptal", "siliniyor", "silindi"} \cup Yarim
Nesne == {"yok", "saglam", "bozuk"}
IsAdimi == {"sifrele", "yukle", "dogrula", "manifestle", "tamamla"}
SaklamaAdimi == {"saklaListele", "saklaSec", "saklaVeri", "saklaManifest"}
Adim == {"kapali", "bos", "basla", "sonuclandir", "yerel"} \cup IsAdimi \cup SaklamaAdimi

TypeOK ==
    /\ ayar \in AyarUzayi
    /\ yedek \in [Yedek -> {"yok", "var", "silinmis"}]
    /\ dosya \subseteq Yedek
    /\ silIstek \subseteq Yedek
    /\ durum \in [Yedek -> Durum]
    /\ isNo \in [Yedek -> Nat]
    /\ sonIs \in Nat
    /\ deneme \in [Yedek -> Nat]
    /\ geriCekilen \subseteq Yedek
    /\ uzakAd \in [Yedek -> Klasor \cup {AdYok}]
    /\ manifestAd \in [Yedek -> Klasor \cup {AdYok}]
    /\ veri \in [Ad -> Nesne]
    /\ manifest \subseteq Ad
    /\ adim \in Adim
    /\ is \in Yedek \cup {Bos}
    /\ isAyar \in AyarUzayi \cup {AyarYok}
    /\ calisan \in Yedek \cup {Bos}
    /\ iptalIst \in BOOLEAN
    /\ hata \in {"yok", "gecici", "kalici"}
    /\ adaylar \subseteq Yedek
    /\ aday \in Yedek \cup {Bos}
    /\ cokme \in Nat
    /\ istek \in Nat

Init ==
    /\ ayar \in IlkAyar
    /\ yedek = [b \in Yedek |-> "yok"]
    /\ dosya = {}
    /\ silIstek = {}
    /\ durum = [b \in Yedek |-> SatirYok]
    /\ isNo = [b \in Yedek |-> 0]
    /\ sonIs = 0
    /\ deneme = [b \in Yedek |-> 0]
    /\ geriCekilen = {}
    /\ uzakAd = [b \in Yedek |-> AdYok]
    /\ manifestAd = [b \in Yedek |-> AdYok]
    /\ veri = [a \in Ad |-> "yok"]
    /\ manifest = {}
    /\ adim = "kapali"
    /\ is = Bos
    /\ isAyar = AyarYok
    /\ calisan = Bos
    /\ iptalIst = FALSE
    /\ hata = "yok"
    /\ adaylar = {}
    /\ aday = Bos
    /\ cokme = 0
    /\ istek = 0

-----------------------------------------------------------------------------
(***************************************************************************)
(* The panel's requests and the local backup runs.  They need the panel    *)
(* process, so nothing of this happens while the worker is "kapali".       *)
(***************************************************************************)
Acik == adim # "kapali"

\* A local backup ends well: the archive is on disk and its row is inserted.
\* The hook that queues it is a KuyrugaAl that may fail, be switched off or be
\* cut off by a crash; a request may queue the backup later.
YedekAl(b) ==
    /\ Acik
    /\ yedek[b] = "yok" /\ \A c \in 1 .. (b - 1) : yedek[c] # "yok"
    /\ yedek' = [yedek EXCEPT ![b] = "var"]
    /\ dosya' = dosya \cup {b}
    /\ UNCHANGED <<ayar, silIstek, satirVars, driveVars, isciVars, sinirVars>>

\* The user, or a pruning the user configured, is about to delete a backup;
\* yedekKaydiniYokEt begins with the remote targets of the customer.
SilIste(b) ==
    /\ Acik
    /\ b \in OynakYedek \ silIstek
    /\ yedek[b] = "var"
    /\ istek < IstekSiniri
    /\ istek' = istek + 1
    /\ silIstek' = silIstek \cup {b}
    /\ UNCHANGED <<ayar, yedek, dosya, satirVars, driveVars, isciVars, cokme>>

\* Mutant of KayitSil: an empty file name, and the whole directory goes.
KayitSilDizin(b) ==
    /\ Acik
    /\ b \in silIstek
    /\ silIstek' = silIstek \ {b}
    /\ yedek' \in {yedek, [yedek EXCEPT ![b] = "silinmis"]}
    /\ dosya' \in {dosya, {}}
    /\ UNCHANGED <<ayar, satirVars, driveVars, isciVars, sinirVars>>

\* ... and ends with the archive, then the row.  A target that cannot be reached
\* stops it before both; os.Remove and the DELETE may fail, each without the
\* other.  The queue row survives (ON DELETE SET NULL).
KayitSil(b) ==
    /\ Acik
    /\ b \in silIstek
    /\ silIstek' = silIstek \ {b}
    /\ yedek' \in {yedek, [yedek EXCEPT ![b] = "silinmis"]}
    /\ dosya' \in {dosya, dosya \ {b}}
    /\ UNCHANGED <<ayar, satirVars, driveVars, isciVars, sinirVars>>

\* Seen from the queue, a local archive may leave its name and come back to it
\* (module YerelSil says when).
YerelDegisir(b) ==
    /\ Acik
    /\ b \in OynakYedek
    /\ yedek[b] # "yok"
    /\ dosya' = (IF b \in dosya THEN dosya \ {b} ELSE dosya \cup {b})
    /\ UNCHANGED <<ayar, yedek, silIstek, satirVars, driveVars, isciVars, sinirVars>>

AyarDegistir ==
    /\ Acik
    /\ ayar' \in AyarUzayi
    /\ \/ ayar'.klasor = ayar.klasor /\ UNCHANGED istek
       \/ ayar'.klasor # ayar.klasor /\ istek < IstekSiniri /\ istek' = istek + 1
    /\ UNCHANGED <<yerelVars, satirVars, driveVars, isciVars, cokme>>

\* KokYedegiMi: a system backup whose row is there.
KokYedegi(b) == yedek[b] = "var" /\ b \in KokYedek

\* Mutant of KuyrugaAl: the row is opened with a state its column does not have.
KuyrugaAlYanlisDurum(b) ==
    /\ Acik
    /\ ayar.aktif
    /\ KokYedegi(b)
    /\ durum[b] = SatirYok
    /\ sonIs < IsSiniri
    /\ sonIs' = sonIs + 1
    /\ isNo' = [isNo EXCEPT ![b] = sonIs + 1]
    /\ durum' = [durum EXCEPT ![b] = "kuyrukta"]
    /\ UNCHANGED <<ayar, yerelVars, deneme, geriCekilen, adVars, driveVars, isciVars, sinirVars>>

\* KuyrugaAl opens a row at most once per backup and target (uk_uzak_kopya).
KuyrugaAl(b) ==
    /\ Acik
    /\ ayar.aktif
    /\ KokYedegi(b)
    /\ durum[b] = SatirYok
    /\ sonIs < IsSiniri
    /\ sonIs' = sonIs + 1
    /\ isNo' = [isNo EXCEPT ![b] = sonIs + 1]
    /\ durum' = [durum EXCEPT ![b] = "bekliyor"]
    /\ UNCHANGED <<ayar, yerelVars, deneme, geriCekilen, adVars, driveVars, isciVars, sinirVars>>

YenidenDene(b) ==
    /\ Acik
    /\ durum[b] \in {"hata", "iptal"}
    /\ istek < IstekSiniri
    /\ istek' = istek + 1
    /\ durum' = [durum EXCEPT ![b] = "bekliyor"]
    /\ deneme' = [deneme EXCEPT ![b] = 0]
    /\ geriCekilen' = geriCekilen \ {b}
    /\ UNCHANGED <<ayar, yerelVars, isNo, sonIs, adVars, driveVars, isciVars, cokme>>

\* NOW() passes the row's sonraki_deneme.
SureDoldu(b) ==
    /\ b \in geriCekilen
    /\ geriCekilen' = geriCekilen \ {b}
    /\ UNCHANGED <<ayar, yerelVars, durum, isNo, sonIs, deneme, adVars, driveVars, isciVars,
                   sinirVars>>

\* Isci.Iptal: the running job's context is cancelled; a waiting or failed row
\* is closed at once; a row in any other state is refused.
IptalEt(b) ==
    /\ Acik
    /\ \/ /\ calisan = b
          /\ iptalIst' = TRUE
          /\ UNCHANGED <<durum, geriCekilen>>
       \/ /\ calisan # b
          /\ durum[b] \in {"bekliyor", "hata"}
          /\ durum' = [durum EXCEPT ![b] = "iptal"]
          /\ geriCekilen' = geriCekilen \ {b}
          /\ UNCHANGED iptalIst
    /\ UNCHANGED <<ayar, yerelVars, isNo, sonIs, deneme, adVars, driveVars, adim, is, isAyar,
                   calisan, hata, adaylar, aday, sinirVars>>

-----------------------------------------------------------------------------
(***************************************************************************)
(* The worker.  A step that goes well needs the job's context alive; it    *)
(* may fail at any step, before or after the outside world took effect.    *)
(***************************************************************************)
Hazir(b) == durum[b] = "bekliyor" /\ b \notin geriCekilen

\* Bir: the oldest due row is claimed.
IsAl ==
    /\ adim = "bos"
    /\ ayar.aktif
    /\ \E b \in Yedek :
          /\ Hazir(b)
          /\ \A c \in Yedek : Hazir(c) => isNo[b] <= isNo[c]
          /\ durum' = [durum EXCEPT ![b] = "sifreleniyor"]
          /\ is' = b
    /\ isAyar' = ayar
    /\ adim' = "basla"
    /\ UNCHANGED <<ayar, yerelVars, isNo, sonIs, deneme, geriCekilen, adVars, driveVars,
                   calisan, iptalIst, hata, adaylar, aday, sinirVars>>

\* Only now can a cancellation find the job.
Basla ==
    /\ adim = "basla"
    /\ calisan' = is
    /\ iptalIst' = FALSE
    /\ hata' = "yok"
    /\ adim' = "sifrele"
    /\ UNCHANGED <<ayar, yerelVars, satirVars, driveVars, is, isAyar, adaylar, aday, sinirVars>>

\* isle returns an error: nothing else of the job runs.
Vazgec(t) ==
    /\ hata' = t
    /\ adim' = "sonuclandir"

Ilerle(a) ==
    /\ ~iptalIst
    /\ adim' = a
    /\ UNCHANGED hata

\* A status write whose error the code ignores or only logs does not happen.
YazmaKaybi == DbHatasi

\* yerelYol and the look at the file: the archive is at its own name.
YerelDosyaVar == is \in dosya

\* Mutant of Sifrele: a name recorded by an earlier attempt is kept.
SifreleIlkAd ==
    /\ adim = "sifrele"
    /\ \/ /\ YerelDosyaVar
          /\ Ilerle("yukle")
          /\ durum' = [durum EXCEPT ![is] = "yukleniyor"]
          /\ uzakAd' = [uzakAd EXCEPT ![is] = IF @ = AdYok THEN isAyar.klasor ELSE @]
       \/ /\ \E t \in {"gecici", "kalici"} : Vazgec(t)
          /\ UNCHANGED <<durum, uzakAd>>
    /\ UNCHANGED <<ayar, yerelVars, isNo, sonIs, deneme, geriCekilen, manifestAd, driveVars, is,
                   isAyar, calisan, iptalIst, adaylar, aday, sinirVars>>

Sifrele ==
    /\ adim = "sifrele"
    /\ \/ /\ YerelDosyaVar
          /\ Ilerle("yukle")
          /\ \/ /\ durum' = [durum EXCEPT ![is] = "yukleniyor"]
                /\ uzakAd' = [uzakAd EXCEPT ![is] = isAyar.klasor]
             \/ /\ YazmaKaybi
                /\ UNCHANGED <<durum, uzakAd>>
       \/ /\ \E t \in {"gecici", "kalici"} : Vazgec(t)
          /\ UNCHANGED <<durum, uzakAd>>
    /\ UNCHANGED <<ayar, yerelVars, isNo, sonIs, deneme, geriCekilen, manifestAd, driveVars, is,
                   isAyar, calisan, iptalIst, adaylar, aday, sinirVars>>

\* The upload replaces the object of that name; what arrived need not be what
\* was read from the disk and encrypted.
Yuklenen == {"saglam", "bozuk"}

\* The name of this attempt: the folder is that of the settings Bir read, which
\* need not be the folder of an earlier attempt.
IsAdi == <<is, isAyar.klasor>>

\* A failed upload leaves the old object or, when the last part was taken and
\* the reply was lost or did not fit, the new one.
YarimYuklenen(a) == {veri[a]} \cup Yuklenen

\* Sil: the object goes, or was not there.
VeriSilinmis(a) == [veri EXCEPT ![a] = "yok"]

Yukle ==
    /\ adim = "yukle"
    /\ \/ /\ Ilerle("dogrula")
          /\ \E v \in Yuklenen : veri' = [veri EXCEPT ![IsAdi] = v]
          /\ \/ durum' = [durum EXCEPT ![is] = "dogrulaniyor"]
             \/ YazmaKaybi /\ UNCHANGED durum
       \/ /\ \E t \in {"gecici", "kalici"} : Vazgec(t)
          /\ \E v \in YarimYuklenen(IsAdi) : veri' = [veri EXCEPT ![IsAdi] = v]
          /\ UNCHANGED durum
    /\ UNCHANGED <<ayar, yerelVars, isNo, sonIs, deneme, geriCekilen, adVars, manifest, is, isAyar,
                   calisan, iptalIst, adaylar, aday, sinirVars>>

\* dogrula: the object is there with its size, and its hash, the server's or
\* that of the object downloaded again, is the one computed while encrypting.
UzaktaSaglam == veri[IsAdi] = "saglam"

\* Mutant of Dogrula: the upload is trusted, nothing is read back.
DogrulaOkumadan ==
    /\ adim = "dogrula"
    /\ \/ Ilerle("manifestle")
       \/ \E t \in {"gecici", "kalici"} : Vazgec(t)
    /\ UNCHANGED <<ayar, yerelVars, satirVars, driveVars, is, isAyar, calisan, iptalIst,
                   adaylar, aday, sinirVars>>

\* When the check fails the object is deleted, best effort.
Dogrula ==
    /\ adim = "dogrula"
    /\ \/ /\ UzaktaSaglam
          /\ Ilerle("manifestle")
          /\ UNCHANGED veri
       \/ /\ \E t \in {"gecici", "kalici"} : Vazgec(t)
          /\ veri' \in {veri, VeriSilinmis(IsAdi)}
    /\ UNCHANGED <<ayar, yerelVars, satirVars, manifest, is, isAyar, calisan, iptalIst,
                   adaylar, aday, sinirVars>>

ManifestYaz ==
    /\ adim = "manifestle"
    /\ \/ /\ Ilerle("tamamla")
          /\ manifest' = manifest \cup {IsAdi}
       \/ /\ \E t \in {"gecici", "kalici"} : Vazgec(t)
          /\ manifest' \in {manifest, manifest \cup {IsAdi}}
    /\ UNCHANGED <<ayar, yerelVars, satirVars, veri, is, isAyar, calisan, iptalIst,
                   adaylar, aday, sinirVars>>

\* The one status write whose error is an error of the job.
Tamamla ==
    /\ adim = "tamamla"
    /\ \/ /\ Ilerle("saklaListele")
          /\ durum' = [durum EXCEPT ![is] = "tamam"]
          /\ manifestAd' = [manifestAd EXCEPT ![is] = isAyar.klasor]
       \/ Vazgec("gecici") /\ UNCHANGED <<durum, manifestAd>>
    /\ UNCHANGED <<ayar, yerelVars, isNo, sonIs, deneme, geriCekilen, uzakAd, driveVars, is, isAyar,
                   calisan, iptalIst, adaylar, aday, sinirVars>>

-----------------------------------------------------------------------------
(***************************************************************************)
(* Retention, at the end of the job, with the settings Bir read.           *)
(***************************************************************************)
\* silinebilirAd: the row names its object, and the manifest is that object's.
AdlarBizim(b) == uzakAd[b] # AdYok /\ manifestAd[b] = uzakAd[b]

\* The name the row records.
UzakAdi(b) == <<b, uzakAd[b]>>

\* The row's place among the domain's 'tamam' rows, newest row first.
Sira(b) == Cardinality({c \in Yedek : durum[c] = "tamam" /\ isNo[c] >= isNo[b]})

\* Mutant of SaklamaAdaylari: the age rule may take the newest copy too.
SaklamaAdaylariYasla(a, yas) ==
    {b \in Yedek : durum[b] = "siliniyor"} \cup
    {b \in Yedek : /\ durum[b] = "tamam"
                   /\ \/ Sira(b) > a.saklamaN
                      \/ a.saklamaGun /\ isNo[b] <= yas}

\* Rows at or below the age limit are old together: created_at follows the id.
SaklamaAdaylari(a, yas) ==
    {b \in Yedek : durum[b] = "siliniyor"} \cup
    {b \in Yedek : /\ durum[b] = "tamam"
                   /\ \/ Sira(b) > a.saklamaN
                      \/ a.saklamaGun /\ Sira(b) > 1 /\ isNo[b] <= yas}

SaklaListele ==
    /\ adim = "saklaListele"
    /\ \/ /\ ~iptalIst
          /\ \E yas \in 0 .. sonIs : adaylar' = SaklamaAdaylari(isAyar, yas)
          /\ adim' = "saklaSec"
       \/ /\ adim' = "sonuclandir"
          /\ UNCHANGED adaylar
    /\ UNCHANGED <<ayar, yerelVars, satirVars, driveVars, is, isAyar, calisan, iptalIst,
                   hata, aday, sinirVars>>

\* The next candidate, newest row first: taken when its names are ours and its
\* manifest is seen on Drive, otherwise (or when the check fails) skipped.
SaklaSec ==
    /\ adim = "saklaSec"
    /\ ~iptalIst
    /\ \E b \in adaylar :
          /\ \A c \in adaylar : isNo[c] <= isNo[b]
          /\ adaylar' = adaylar \ {b}
          /\ \/ /\ AdlarBizim(b)
                /\ UzakAdi(b) \in manifest \/ durum[b] = "siliniyor"
                /\ durum' = [durum EXCEPT ![b] = "siliniyor"]
                /\ aday' = b
                /\ adim' = "saklaVeri"
             \/ UNCHANGED <<durum, aday, adim>>
    /\ UNCHANGED <<ayar, yerelVars, isNo, sonIs, deneme, geriCekilen, adVars, driveVars, is, isAyar,
                   calisan, iptalIst, hata, sinirVars>>

SaklaVeriSil ==
    /\ adim = "saklaVeri"
    /\ \/ /\ ~iptalIst
          /\ veri' = VeriSilinmis(UzakAdi(aday))
          /\ adim' = "saklaManifest"
       \/ /\ veri' \in {veri, VeriSilinmis(UzakAdi(aday))}
          /\ adim' = "saklaSec"
    /\ UNCHANGED <<ayar, yerelVars, satirVars, manifest, is, isAyar, calisan, iptalIst, hata,
                   adaylar, aday, sinirVars>>

\* Mutant of SaklaManifestSil: a manifest that could not be deleted is ignored.
SaklaManifestSilHatasiz ==
    /\ adim = "saklaManifest"
    /\ manifest' \in {manifest, manifest \ {UzakAdi(aday)}}
    /\ durum' = [durum EXCEPT ![aday] = "silindi"]
    /\ adim' = "saklaSec"
    /\ UNCHANGED <<ayar, yerelVars, isNo, sonIs, deneme, geriCekilen, adVars, veri, is, isAyar,
                   calisan, iptalIst, hata, adaylar, aday, sinirVars>>

\* The row becomes 'silindi' only after both objects went.
SaklaManifestSil ==
    /\ adim = "saklaManifest"
    /\ \/ /\ ~iptalIst
          /\ manifest' = manifest \ {UzakAdi(aday)}
          /\ durum' = [durum EXCEPT ![aday] = "silindi"]
       \/ /\ manifest' \in {manifest, manifest \ {UzakAdi(aday)}}
          /\ UNCHANGED durum
    /\ adim' = "saklaSec"
    /\ UNCHANGED <<ayar, yerelVars, isNo, sonIs, deneme, geriCekilen, adVars, veri, is, isAyar,
                   calisan, iptalIst, hata, adaylar, aday, sinirVars>>

\* All candidates visited: rows 'silindi' for 90 days go.  A cancelled context
\* ends the run early, with nothing purged.
SaklamaSon ==
    /\ adim = "saklaSec"
    /\ \/ /\ adaylar = {} /\ ~iptalIst
          /\ \E S \in SUBSET {b \in Yedek : durum[b] = "silindi"} :
                /\ durum' = [b \in Yedek |-> IF b \in S THEN SatirYok ELSE durum[b]]
                /\ isNo' = [b \in Yedek |-> IF b \in S THEN 0 ELSE isNo[b]]
                /\ deneme' = [b \in Yedek |-> IF b \in S THEN 0 ELSE deneme[b]]
                /\ uzakAd' = [b \in Yedek |-> IF b \in S THEN AdYok ELSE uzakAd[b]]
                /\ manifestAd' = [b \in Yedek |-> IF b \in S THEN AdYok ELSE manifestAd[b]]
       \/ /\ adaylar = {} \/ iptalIst
          /\ UNCHANGED <<durum, isNo, deneme, adVars>>
    /\ adim' = "sonuclandir"
    /\ adaylar' = {}
    /\ aday' = Bos
    /\ UNCHANGED <<ayar, yerelVars, sonIs, geriCekilen, driveVars, is, isAyar, calisan, iptalIst,
                   hata, sinirVars>>

-----------------------------------------------------------------------------
\* Mutant of Basarisiz: a temporary error does not count as an attempt.
BasarisizSaymadan ==
    \/ /\ hata = "kalici"
       /\ deneme' = [deneme EXCEPT ![is] = deneme[is] + 1]
       /\ durum' = [durum EXCEPT ![is] = "hata"]
       /\ UNCHANGED geriCekilen
    \/ /\ hata = "gecici"
       /\ durum' = [durum EXCEPT ![is] = "bekliyor"]
       /\ geriCekilen' = geriCekilen \cup {is}
       /\ UNCHANGED deneme

\* basarisiz: a permanent error or the last attempt ends in 'hata', anything
\* else goes back to the queue behind a growing delay.
Basarisiz ==
    /\ deneme' = [deneme EXCEPT ![is] = deneme[is] + 1]
    /\ \/ /\ hata = "kalici" \/ deneme[is] + 1 >= Maks
          /\ durum' = [durum EXCEPT ![is] = "hata"]
          /\ UNCHANGED geriCekilen
       \/ /\ hata = "gecici" /\ deneme[is] + 1 < Maks
          /\ durum' = [durum EXCEPT ![is] = "bekliyor"]
          /\ geriCekilen' = geriCekilen \cup {is}

\* Mutant of Sonuclandir: a cancelled job counts as one that failed.
SonuclandirIptalsiz ==
    /\ adim = "sonuclandir"
    /\ calisan' = Bos
    /\ iptalIst' = FALSE
    /\ is' = Bos
    /\ isAyar' = AyarYok
    /\ hata' = "yok"
    /\ \/ /\ hata = "yok"
          /\ adim' = "yerel"
          /\ UNCHANGED <<durum, deneme, geriCekilen>>
       \/ /\ hata # "yok"
          /\ adim' = "bos"
          /\ \/ Basarisiz
             \/ YazmaKaybi /\ UNCHANGED <<durum, deneme, geriCekilen>>
    /\ UNCHANGED <<ayar, yerelVars, isNo, sonIs, adVars, driveVars, adaylar, aday, sinirVars>>

\* The end of Bir: the job leaves calisanID and its row gets the outcome.
Sonuclandir ==
    /\ adim = "sonuclandir"
    /\ calisan' = Bos
    /\ iptalIst' = FALSE
    /\ is' = Bos
    /\ isAyar' = AyarYok
    /\ hata' = "yok"
    /\ \/ /\ hata = "yok"
          /\ adim' = "yerel"
          /\ UNCHANGED <<durum, deneme, geriCekilen>>
       \/ /\ hata # "yok"
          /\ adim' = "bos"
          /\ \/ /\ iptalIst
                /\ durum' = [durum EXCEPT ![is] = "iptal"]
                /\ UNCHANGED <<deneme, geriCekilen>>
             \/ ~iptalIst /\ Basarisiz
             \/ YazmaKaybi /\ UNCHANGED <<durum, deneme, geriCekilen>>
    /\ UNCHANGED <<ayar, yerelVars, isNo, sonIs, adVars, driveVars, adaylar, aday, sinirVars>>

\* yerelOtomatik, the local deletion, is module YerelSil.
YerelBitti ==
    /\ adim = "yerel"
    /\ adim' = "bos"
    /\ UNCHANGED <<ayar, yerelVars, satirVars, driveVars, is, isAyar, calisan, iptalIst, hata,
                   adaylar, aday, sinirVars>>

-----------------------------------------------------------------------------
\* The process dies; only the database, the disk and Drive survive.
Coku ==
    /\ adim # "kapali"
    /\ cokme < CokmeSiniri
    /\ cokme' = cokme + 1
    /\ adim' = "kapali"
    /\ is' = Bos
    /\ isAyar' = AyarYok
    /\ calisan' = Bos
    /\ iptalIst' = FALSE
    /\ hata' = "yok"
    /\ adaylar' = {}
    /\ aday' = Bos
    /\ silIstek' = {}
    /\ UNCHANGED <<ayar, yedek, dosya, satirVars, driveVars, istek>>

\* Mutant of Acilis: a row interrupted during its verification is forgotten.
AcilisEksik ==
    /\ adim = "kapali"
    /\ adim' = "bos"
    /\ durum' = [b \in Yedek |->
                    IF durum[b] \in {"sifreleniyor", "yukleniyor"} THEN "bekliyor" ELSE durum[b]]
    /\ geriCekilen' = {b \in geriCekilen : durum[b] \notin Yarim}
    /\ UNCHANGED <<ayar, yerelVars, isNo, sonIs, deneme, adVars, driveVars, is, isAyar, calisan,
                   iptalIst, hata, adaylar, aday, sinirVars>>

\* The worker starts: rows left half done go back to the queue.
Acilis ==
    /\ adim = "kapali"
    /\ adim' = "bos"
    /\ \/ /\ durum' = [b \in Yedek |-> IF durum[b] \in Yarim THEN "bekliyor" ELSE durum[b]]
          /\ geriCekilen' = {b \in geriCekilen : durum[b] \notin Yarim}
       \/ YazmaKaybi /\ UNCHANGED <<durum, geriCekilen>>
    /\ UNCHANGED <<ayar, yerelVars, isNo, sonIs, deneme, adVars, driveVars, is, isAyar, calisan,
                   iptalIst, hata, adaylar, aday, sinirVars>>

-----------------------------------------------------------------------------
Isle == Sifrele \/ Yukle \/ Dogrula \/ ManifestYaz \/ Tamamla
SaklamaUygula == SaklaListele \/ SaklaSec \/ SaklaVeriSil \/ SaklaManifestSil \/ SaklamaSon
Bir == IsAl \/ Basla \/ Isle \/ SaklamaUygula \/ Sonuclandir \/ YerelBitti

Istek(b) == SilIste(b) \/ KayitSil(b) \/ KuyrugaAl(b) \/ YenidenDene(b) \/ IptalEt(b)

\* The queue by itself: archives are taken and deleted, and stay at their names.
KuyrukNext ==
    \/ Bir
    \/ Coku \/ Acilis
    \/ AyarDegistir
    \/ \E b \in Yedek : YedekAl(b) \/ Istek(b) \/ SureDoldu(b)

KuyrukSpec == Init /\ [][KuyrukNext]_vars

\* The queue beside something that moves archives.
Next == KuyrukNext \/ \E b \in Yedek : YerelDegisir(b)

Spec == Init /\ [][Next]_vars

\* The worker's loop keeps running, a restart comes after every crash
\* (systemd), and clocks move on.
Adalet ==
    /\ WF_vars(Bir)
    /\ WF_vars(Acilis)
    /\ \A b \in Yedek : WF_vars(SureDoldu(b))

AdilSpec == KuyrukSpec /\ Adalet
-----------------------------------------------------------------------------
(***************************************************************************)
(* What the queue, the worker and retention must keep.                     *)
(***************************************************************************)

\* A row the panel shows as 'tamam' stands for a copy that can be restored:
\* the object its manifest describes is the verified one and the manifest is
\* there.  It must survive every retry, lost status write, crash, change of
\* folder and half-done retention run (isle's order: upload, verify, manifest,
\* then 'tamam').
TamamSaglam ==
    \A b \in Yedek :
        LET a == <<b, manifestAd[b]>>
        IN  durum[b] = "tamam" => a \in Ad /\ veri[a] = "saglam" /\ a \in manifest

\* When no status write is lost, a row 'tamam' also says where its copy is: the
\* name recorded before the upload, which a restore downloads (coz.go) and
\* retention deletes, is that of the verified object, although an earlier
\* attempt may have recorded and filled another name.
TamamBulunur ==
    \A b \in Yedek : durum[b] = "tamam" => AdlarBizim(b)

\* A row 'silindi' has left nothing behind under the name it records: retention
\* reports a copy deleted only after the data and then the manifest went,
\* however often the run was cut in the middle (SaklamaUygula).  Objects that
\* an earlier attempt left in another folder are nobody's: no row names them.
SilindiTemiz ==
    \A b \in Yedek :
        durum[b] = "silindi" =>
            AdlarBizim(b) /\ veri[UzakAdi(b)] = "yok" /\ UzakAdi(b) \notin manifest

\* Retention never takes the domain's newest copy: when a copy starts to be
\* deleted, a newer verified one exists and stays, although the candidates were
\* listed many steps earlier and with settings read before the job
\* (SaklamaAdaylari, "the newest copy is kept in every case").
SonKopyaKorunur ==
    [][\A b \in Yedek :
          durum[b] = "tamam" /\ durum'[b] = "siliniyor" =>
             \E c \in Yedek : /\ durum[c] = "tamam" /\ durum'[c] = "tamam"
                              /\ isNo[c] > isNo[b]]_vars

\* A cancellation is final while the panel lives.  A running job whose
\* cancellation was accepted while its row was still half done ends as 'iptal'
\* and as nothing else, and a row that is 'iptal' leaves that state only by a
\* manual retry: no late write of the worker or of a restart overwrites it
\* (Isci.Iptal, Bir).  What a crash forgets, before 'iptal' is written, is the
\* cancellation itself: the start puts the row back into the queue.
IptalKesin ==
    [][\A b \in Yedek :
          /\ calisan = b /\ iptalIst /\ durum[b] \in Yarim /\ durum'[b] \notin Yarim
                => durum'[b] = "iptal"
          /\ durum[b] = "iptal" /\ durum'[b] # "iptal" => istek' = istek + 1]_vars

\* When no status write is lost, a row in a half-done state is the worker's
\* current job, or the panel is down and the restart will requeue it: no row is
\* left where neither the worker, nor a retry, nor a cancellation reaches it.
TekKosan ==
    \A b \in Yedek : durum[b] \in Yarim => b = is \/ adim = "kapali"

\* Every queued row is decided in the end (sent, failed for good or cancelled):
\* no row starves behind older rows, retries, crashes or another row's delay.
KuyrukIlerler ==
    \A b \in Yedek :
        durum[b] = "bekliyor" ~> durum[b] \notin {"bekliyor"} \cup Yarim

\* What otomatik.go says of retention, that it "keeps the newest backups": the
\* copy of a backup is deleted only while a copy of a newer backup is kept.
SaklamaYeniyiKorur ==
    [][\A b \in Yedek :
          durum[b] = "tamam" /\ durum'[b] = "siliniyor" =>
             \E c \in Yedek : c > b /\ durum[c] = "tamam"]_vars
=============================================================================
