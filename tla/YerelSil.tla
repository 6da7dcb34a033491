------------------------------ MODULE YerelSil ------------------------------
(***************************************************************************)
(* "Delete the local copy once it is on Drive"                             *)
(* (src/internal/backups/uzak/yerelsil.go), run by the worker after a job  *)
(* or while it is idle and by the administrator's one-off request, beside  *)
(* everything that may be using the archive it deletes: the backup runs,   *)
(* the restore of one domain and the restore job.                          *)
(*                                                                         *)
(* Extends UzakKopya: its actions run unchanged, and the moves of local    *)
(* archives that UzakKopya leaves open are the cleaner's.                  *)
(***************************************************************************)
EXTENDS UzakKopya

CONSTANTS
    Temizleyici,    \* which cleaners run: subset of {"isci", "api"}
    Uretici,        \* which backup runs occur: subset of {"sistem", "manuel"}
    GeriIstek,      \* bound: restore requests that may be under way at once
    IsGeriVar,      \* does the restore job occur?
    DurdurSiniri    \* bound: stop requests for the restore job

ASSUME TemizleyiciVarsayim == Temizleyici \subseteq {"isci", "api"}
ASSUME UreticiVarsayim == Uretici \subseteq {"sistem", "manuel"}
ASSUME IsGeriVarsayim == IsGeriVar \in BOOLEAN
ASSUME DurdurVarsayim == DurdurSiniri \in Nat

VARIABLES
    silinecek,   \* archives moved to their ".silinecek-" name
    yerelYok,    \* backups.yerel_yok is set
    kilit,       \* holder of yerelSilMu
    temiz,       \* each cleaner: where it stands and its cached list
    uretim,      \* yedekAktif: the kind of backup run on this domain
    ilerleme,    \* the domain's progress record is there and not finished
    geri,        \* each restore request: where it stands and what it restores
    isGeri,      \* the goroutine of the restore job, likewise
    isSatir,     \* its backup_jobs row is 'calisiyor'
    isKayit,     \* it is registered in calisanIsler
    isIptal,     \* its context is cancelled
    durdur       \* stop requests so far

temizVars == <<silinecek, yerelYok, kilit, temiz>>
geriVars == <<geri, isGeri, isSatir, isKayit, isIptal, durdur>>
kullanimVars == <<uretim, ilerleme, geriVars>>
yVars == <<temizVars, kullanimVars>>
tumVars == <<vars, yVars>>

KilitBos == "kilitbos"
TemizAdim == {"bos", "kilit", "listele", "sec", "dogrula", "tasi", "yokla", "kaldir", "isaretle"}
GeriAdim == {"bos", "ac", "kaydet", "hazirla", "oku", "birak"}
Durgun == [adim |-> "bos", liste |-> {}, uygun |-> {}, tut |-> 0, b |-> Bos]
GeriYok == [adim |-> "bos", b |-> Bos]

YTypeOK ==
    /\ TypeOK
    /\ silinecek \subseteq Yedek
    /\ yerelYok \subseteq Yedek
    /\ kilit \in Temizleyici \cup {KilitBos}
    /\ temiz \in [Temizleyici -> [adim: TemizAdim, liste: SUBSET Yedek, uygun: SUBSET Yedek,
                                  tut: Nat, b: Yedek \cup {Bos}]]
    /\ uretim \in {"yok", "sistem", "manuel"}
    /\ ilerleme \in BOOLEAN
    /\ geri \in [GeriIstek -> [adim: GeriAdim, b: Yedek \cup {Bos}]]
    /\ isGeri \in [adim: GeriAdim, b: Yedek \cup {Bos}]
    /\ isSatir \in BOOLEAN /\ isKayit \in BOOLEAN /\ isIptal \in BOOLEAN
    /\ durdur \in Nat

YInit ==
    /\ Init
    /\ silinecek = {}
    /\ yerelYok = {}
    /\ kilit = KilitBos
    /\ temiz = [p \in Temizleyici |-> Durgun]
    /\ uretim = "yok"
    /\ ilerleme = FALSE
    /\ geri = [r \in GeriIstek |-> GeriYok]
    /\ isGeri = GeriYok
    /\ isSatir = FALSE /\ isKayit = FALSE /\ isIptal = FALSE
    /\ durdur = 0

\* Mutant of Kullanimda: restore jobs are forgotten.
KullanimdaIssiz(b) ==
    \/ ilerleme
    \/ uretim # "yok"
    \/ durum[b] \in {"bekliyor"} \cup Yarim

\* Isci.kullanimda: the progress record, the backup lock, any running restore
\* job, and the backup's own queue row.
Kullanimda(b) ==
    \/ ilerleme
    \/ uretim # "yok"
    \/ isSatir
    \/ durum[b] \in {"bekliyor"} \cup Yarim

-----------------------------------------------------------------------------
(***************************************************************************)
(* The cleaners.  The worker tries the lock and gives up; the request      *)
(* reads the settings first and then waits for the lock.                   *)
(***************************************************************************)
Gecir(p, a) == temiz' = [temiz EXCEPT ![p].adim = a]

\* This backup is left as it is; on to the next one.
Atla(p) == temiz' = [temiz EXCEPT ![p].adim = "sec", ![p].b = Bos]

\* Mutant of IsciTemizler: the number of archives to keep is off by one.
IsciTemizlerBirEksik ==
    /\ "isci" \in Temizleyici
    /\ temiz["isci"].adim = "bos"
    /\ adim = "yerel" \/ (adim = "bos" /\ \A b \in Yedek : ~Hazir(b))
    /\ ayar.aktif /\ ayar.yerelSil
    /\ kilit = KilitBos
    /\ kilit' = "isci"
    /\ temiz' = [temiz EXCEPT !["isci"].adim = "listele", !["isci"].tut = ayar.yerelTut - 1]
    /\ UNCHANGED <<vars, silinecek, yerelYok, kullanimVars>>

IsciTemizler ==
    /\ "isci" \in Temizleyici
    /\ temiz["isci"].adim = "bos"
    /\ adim = "yerel" \/ (adim = "bos" /\ \A b \in Yedek : ~Hazir(b))
    /\ ayar.aktif /\ ayar.yerelSil
    /\ kilit = KilitBos
    /\ kilit' = "isci"
    /\ temiz' = [temiz EXCEPT !["isci"].adim = "listele", !["isci"].tut = ayar.yerelTut]
    /\ UNCHANGED <<vars, silinecek, yerelYok, kullanimVars>>

ApiTemizler ==
    /\ "api" \in Temizleyici
    /\ Acik
    /\ temiz["api"].adim = "bos"
    /\ temiz' = [temiz EXCEPT !["api"].adim = "kilit", !["api"].tut = ayar.yerelTut]
    /\ UNCHANGED <<vars, silinecek, yerelYok, kilit, kullanimVars>>

ApiKilitler ==
    /\ "api" \in Temizleyici
    /\ temiz["api"].adim = "kilit"
    /\ kilit = KilitBos
    /\ kilit' = "api"
    /\ Gecir("api", "listele")
    /\ UNCHANGED <<vars, silinecek, yerelYok, kullanimVars>>

\* The domain's system backups that still have a row, newest first: its place.
YerelSira(b) == Cardinality({c \in Yedek : KokYedegi(c) /\ c >= b})

\* driveTamam: the row is 'tamam' and its names are ours.
DriveTamam(b) == durum[b] = "tamam" /\ AdlarBizim(b)

\* yerelKayitlari: the rank and the Drive copy are read here and never again.
Listele(p) ==
    /\ temiz[p].adim = "listele"
    /\ LET driveli == {b \in Yedek : KokYedegi(b) /\ DriveTamam(b)}
           uygun == {b \in driveli : YerelSira(b) > temiz[p].tut}
       IN  temiz' = [temiz EXCEPT
               ![p].adim = "sec",
               ![p].uygun = uygun,
               ![p].liste = (uygun \cap dosya) \cup {b \in driveli : b \notin dosya \cup yerelYok}]
    /\ UNCHANGED <<vars, silinecek, yerelYok, kilit, kullanimVars>>

\* yerelSilBir begins: the archive is looked at again, the rest is cached; an
\* archive in use is left alone, and so is one whose age, size or hash does not fit.
Sec(p) ==
    /\ temiz[p].adim = "sec"
    /\ \E b \in temiz[p].liste :
          /\ \A c \in temiz[p].liste : c <= b
          /\ \/ /\ b \in temiz[p].uygun \/ b \notin dosya
                /\ ~Kullanimda(b)
                /\ temiz' = [temiz EXCEPT ![p].adim = "dogrula", ![p].b = b, ![p].liste = @ \ {b}]
             \/ temiz' = [temiz EXCEPT ![p].liste = @ \ {b}]
    /\ UNCHANGED <<vars, silinecek, yerelYok, kilit, kullanimVars>>

\* Listele finds the object and its manifest under the recorded name.
DrivedaDurur(b) == veri[UzakAdi(b)] # "yok" /\ UzakAdi(b) \in manifest

\* The row and its names are as they were, and both objects are listed on Drive
\* right now.
UzakDogrula(p) ==
    /\ temiz[p].adim = "dogrula"
    /\ LET b == temiz[p].b
       IN  \/ /\ DriveTamam(b) /\ DrivedaDurur(b)
              /\ Gecir(p, IF b \in dosya THEN "tasi" ELSE "isaretle")
           \/ Atla(p)
    /\ UNCHANGED <<vars, silinecek, yerelYok, kilit, kullanimVars>>

\* os.Rename to the ".silinecek-" name.
Tasi(p) ==
    /\ temiz[p].adim = "tasi"
    /\ LET b == temiz[p].b
       IN  \/ /\ b \in dosya
              /\ YerelDegisir(b)
              /\ silinecek' = silinecek \cup {b}
              /\ Gecir(p, "yokla")
           \/ Atla(p) /\ UNCHANGED <<vars, silinecek>>
    /\ UNCHANGED <<yerelYok, kilit, kullanimVars>>

\* Mutant of Yokla: use is checked before the move only.
YoklaBakmadan(p) ==
    /\ temiz[p].adim = "yokla"
    /\ Gecir(p, "kaldir")
    /\ UNCHANGED <<vars, silinecek, yerelYok, kilit, kullanimVars>>

\* The archive goes back to its name, unless the rename fails: then it stays
\* moved and no later run looks for it.
GeriKoy(b) ==
    \/ YerelDegisir(b) /\ silinecek' = silinecek \ {b}
    \/ UNCHANGED <<vars, silinecek>>

\* Use is checked again after the move; a restore that won the race gets the
\* archive back.
Yokla(p) ==
    /\ temiz[p].adim = "yokla"
    /\ LET b == temiz[p].b
       IN  \/ /\ Kullanimda(b)
              /\ GeriKoy(b)
              /\ Atla(p)
           \/ /\ ~Kullanimda(b)
              /\ Gecir(p, "kaldir")
              /\ UNCHANGED <<vars, silinecek>>
    /\ UNCHANGED <<yerelYok, kilit, kullanimVars>>

\* os.Remove; when it fails the archive is moved back.
Kaldir(p) ==
    /\ temiz[p].adim = "kaldir"
    /\ LET b == temiz[p].b
       IN  \/ Gecir(p, "isaretle") /\ silinecek' = silinecek \ {b} /\ UNCHANGED vars
           \/ Atla(p) /\ GeriKoy(b)
    /\ UNCHANGED <<yerelYok, kilit, kullanimVars>>

\* A mark that cannot be written is left to a later run.
Isaretle(p) ==
    /\ temiz[p].adim = "isaretle"
    /\ LET b == temiz[p].b
       IN  yerelYok' \in {yerelYok, IF yedek[b] = "var" THEN yerelYok \cup {b} ELSE yerelYok}
    /\ Atla(p)
    /\ UNCHANGED <<vars, silinecek, kilit, kullanimVars>>

\* The list is done, or the run's time is over: the lock is released.
TemizlikBitti(p) ==
    /\ temiz[p].adim \in {"listele", "sec"}
    /\ temiz' = [temiz EXCEPT ![p] = Durgun]
    /\ kilit' = KilitBos
    /\ IF p = "isci" /\ adim = "yerel" THEN YerelBitti ELSE UNCHANGED vars
    /\ UNCHANGED <<silinecek, yerelYok, kullanimVars>>

Temizlik(p) ==
    \/ Listele(p) \/ Sec(p) \/ UzakDogrula(p) \/ Tasi(p) \/ Yokla(p) \/ Kaldir(p)
    \/ Isaretle(p) \/ TemizlikBitti(p)

IsciMesgul == "isci" \in Temizleyici /\ temiz["isci"].adim # "bos"

\* The worker ends its job without a cleaning run: switched off, or the lock is taken.
TemizliksizBitti ==
    /\ ~IsciMesgul
    /\ "isci" \in Temizleyici => ~(ayar.aktif /\ ayar.yerelSil) \/ kilit # KilitBos
    /\ YerelBitti
    /\ UNCHANGED yVars

-----------------------------------------------------------------------------
(***************************************************************************)
(* Users of the archives.                                                  *)
(***************************************************************************)
\* yedekBaslaTur; a manual run also starts the progress record, over whatever
\* record is there.
YedekBasla(tur) ==
    /\ Acik
    /\ uretim = "yok"
    /\ uretim' = tur
    /\ ilerleme' = (ilerleme \/ tur = "manuel")
    /\ UNCHANGED <<vars, temizVars, geriVars>>

\* The archive and its row: a system run's backup is a root backup.
YedekOlusur(b) ==
    /\ uretim = (IF b \in KokYedek THEN "sistem" ELSE "manuel")
    /\ YedekAl(b)
    /\ UNCHANGED yVars

\* IlerlemeBitir closes the domain's record whoever opened it.
YedekBiter ==
    /\ uretim # "yok"
    /\ uretim' = "yok"
    /\ ilerleme' = (ilerleme /\ uretim # "manuel")
    /\ UNCHANGED <<vars, temizVars, geriVars>>

\* Restore: refused while the domain's progress record is open ...
GeriBasla(r, b) ==
    /\ Acik
    /\ geri[r] = GeriYok
    /\ yedek[b] = "var"
    /\ ~ilerleme
    /\ geri' = [geri EXCEPT ![r] = [adim |-> "ac", b |-> b]]
    /\ UNCHANGED <<vars, temizVars, uretim, ilerleme, isGeri, isSatir, isKayit, isIptal, durdur>>

\* ... and only then is the record opened, over whatever record is there by now.
GeriAc(r) ==
    /\ geri[r].adim = "ac"
    /\ ilerleme' = TRUE
    /\ geri' = [geri EXCEPT ![r].adim = "hazirla"]
    /\ UNCHANGED <<vars, temizVars, uretim, isGeri, isSatir, isKayit, isIptal, durdur>>

\* yedekHazirla finds the archive at its name; it is opened by that name more
\* than once until the restore ends.
GeriBulur(r) ==
    /\ geri[r].adim = "hazirla"
    /\ geri[r].b \in dosya
    /\ geri' = [geri EXCEPT ![r].adim = "oku"]
    /\ UNCHANGED <<vars, temizVars, uretim, ilerleme, isGeri, isSatir, isKayit, isIptal, durdur>>

\* The archive is read; a success, and some failures, close the record at once.
GeriOkudu(r) ==
    /\ geri[r].adim = "oku"
    /\ ilerleme' = FALSE
    /\ geri' = [geri EXCEPT ![r].adim = "birak"]
    /\ UNCHANGED <<vars, temizVars, uretim, isGeri, isSatir, isKayit, isIptal, durdur>>

\* The request returns: its deferred function closes the domain's record if it
\* finds it open, even one that another operation opened.
GeriBiter(r) ==
    /\ geri[r].adim \in {"hazirla", "oku", "birak"}
    /\ geri' = [geri EXCEPT ![r] = GeriYok]
    /\ ilerleme' = FALSE
    /\ UNCHANGED <<vars, temizVars, uretim, isGeri, isSatir, isKayit, isIptal, durdur>>

\* JobGeriBaslat: the row first, then the registration that makes it stoppable.
IsGeriBasla(b) ==
    /\ Acik
    /\ IsGeriVar
    /\ isGeri = GeriYok /\ ~isSatir
    /\ yedek[b] = "var"
    /\ isGeri' = [adim |-> "kaydet", b |-> b]
    /\ isSatir' = TRUE
    /\ UNCHANGED <<vars, temizVars, uretim, ilerleme, geri, isKayit, isIptal, durdur>>

IsGeriKaydet ==
    /\ isGeri.adim = "kaydet"
    /\ isGeri' = [isGeri EXCEPT !.adim = "hazirla"]
    /\ isKayit' = TRUE
    /\ isIptal' = FALSE
    /\ UNCHANGED <<vars, temizVars, uretim, ilerleme, geri, isSatir, durdur>>

\* A cancellation counts only before the domain is begun.
IsGeriBulur ==
    /\ isGeri.adim = "hazirla"
    /\ ~isIptal
    /\ isGeri.b \in dosya
    /\ isGeri' = [isGeri EXCEPT !.adim = "oku"]
    /\ UNCHANGED <<vars, temizVars, uretim, ilerleme, geri, isSatir, isKayit, isIptal, durdur>>

IsGeriBiter ==
    /\ isGeri.adim \in {"hazirla", "oku"}
    /\ isGeri' = GeriYok
    /\ isSatir' = FALSE /\ isKayit' = FALSE /\ isIptal' = FALSE
    /\ UNCHANGED <<vars, temizVars, uretim, ilerleme, geri, durdur>>

\* A registered job is cancelled and forgotten, its goroutine closes the row; a
\* job not (or no longer) registered has its row closed here.
JobDurdur ==
    /\ Acik
    /\ isSatir
    /\ durdur < DurdurSiniri
    /\ durdur' = durdur + 1
    /\ \/ isKayit /\ isKayit' = FALSE /\ isIptal' = TRUE /\ UNCHANGED isSatir
       \/ ~isKayit /\ isSatir' = FALSE /\ UNCHANGED <<isKayit, isIptal>>
    /\ UNCHANGED <<vars, temizVars, uretim, ilerleme, geri, isGeri>>

-----------------------------------------------------------------------------
\* What a crash leaves: the moved archives, the marks and the job's row.
YCoku ==
    /\ Coku
    /\ kilit' = KilitBos
    /\ temiz' = [p \in Temizleyici |-> Durgun]
    /\ uretim' = "yok"
    /\ ilerleme' = FALSE
    /\ geri' = [r \in GeriIstek |-> GeriYok]
    /\ isGeri' = GeriYok
    /\ isKayit' = FALSE /\ isIptal' = FALSE
    /\ UNCHANGED <<silinecek, yerelYok, isSatir, durdur>>

\* AsiliIsleriKapat closes the job's row.
YAcilis ==
    /\ Acilis
    /\ isSatir' = FALSE
    /\ UNCHANGED <<temizVars, uretim, ilerleme, geri, isGeri, isKayit, isIptal, durdur>>

YIsci ==
    /\ ~IsciMesgul
    /\ IsAl \/ Basla \/ Isle \/ SaklamaUygula \/ Sonuclandir
    /\ UNCHANGED yVars

\* Deleting the row takes its mark with it.
YIstek(b) ==
    /\ Istek(b)
    /\ yerelYok' = {c \in yerelYok : yedek'[c] = "var"}
    /\ UNCHANGED <<silinecek, kilit, temiz, kullanimVars>>

YNext ==
    \/ YIsci \/ TemizliksizBitti
    \/ IsciTemizler \/ ApiTemizler \/ ApiKilitler
    \/ \E p \in Temizleyici : Temizlik(p)
    \/ \E tur \in Uretici : YedekBasla(tur)
    \/ YedekBiter
    \/ \E b \in Yedek : YedekOlusur(b) \/ IsGeriBasla(b) \/ YIstek(b)
    \/ \E b \in Yedek : SureDoldu(b) /\ UNCHANGED yVars
    \/ AyarDegistir /\ UNCHANGED yVars
    \/ \E r \in GeriIstek :
          \/ \E b \in Yedek : GeriBasla(r, b)
          \/ GeriAc(r) \/ GeriBulur(r) \/ GeriOkudu(r) \/ GeriBiter(r)
    \/ IsGeriKaydet \/ IsGeriBulur \/ IsGeriBiter \/ JobDurdur
    \/ YCoku \/ YAcilis

YSpec == YInit /\ [][YNext]_tumVars

-----------------------------------------------------------------------------
(***************************************************************************)
(* What deleting local archives must never do.                             *)
(***************************************************************************)
\* The archives a step of the cleaner takes from the disk for good.
Kaldirilan == silinecek \ (silinecek' \cup dosya')

\* Rules 2 and 8 of yerelsil.go: when an archive is removed its verified copy
\* stands on Drive at that very moment, although the copy was looked at several
\* steps earlier.  "Rule number one: no backup is lost."
YerelKopyasizSilinmez ==
    [][\A b \in Kaldirilan :
          DriveTamam(b) /\ veri[UzakAdi(b)] = "saglam" /\ UzakAdi(b) \in manifest]_tumVars

\* Rule 7: an archive is not removed while a restore request that found it at
\* its name is still reading it (it opens it by name again and again), although
\* the request announces itself many steps after the cleaner may have chosen the
\* archive.  It takes a progress record that is the request's own: a manual
\* backup run, or a second request that was let in, closes it too early.
OkunanSilinmez ==
    [][\A b \in Kaldirilan, r \in GeriIstek :
          ~(geri[r].adim = "oku" /\ geri[r].b = b)]_tumVars

\* The same of the restore job, which its open row protects, against both
\* cleaners.  A stop request can close the row of a job still at work: see
\* DurdurulanIsiGoroutineKapatir.
IsOkunanSilinmez ==
    [][\A b \in Kaldirilan :
          ~(isGeri.adim = "oku" /\ isGeri.b = b /\ isSatir)]_tumVars

\* What JobDurdur says: once a stop request has cancelled a live job, the job's
\* goroutine closes its row, no request does ("yaris olmasin diye burada
\* EZMIYORUZ").
DurdurulanIsiGoroutineKapatir ==
    [][isIptal /\ isSatir /\ ~isSatir' => durdur' = durdur]_tumVars

\* The panel keeps its promise about where backups are kept (YedekSozlesme): an
\* archive is local under either of its names, on Drive while its row is
\* 'tamam', and asked to go from the request (or the pruning) to its end.
Sozlesme ==
    INSTANCE YedekSozlesme WITH
        alinan <- {b \in Yedek : yedek[b] # "yok"},
        istenen <- silIstek,
        yer <- [b \in Yedek |-> (IF b \in dosya \cup silinecek THEN {"yerel"} ELSE {})
                                \cup (IF durum[b] = "tamam" THEN {"drive"} ELSE {})]

SozlesmeyeUyar == Sozlesme!SozlesmeSpec

=============================================================================
