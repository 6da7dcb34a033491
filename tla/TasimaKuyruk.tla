---------------------------- MODULE TasimaKuyruk ----------------------------
(***************************************************************************)
(* The queue of migrations into this server and its dispatcher             *)
(* (src/internal/tasima: Baslat, Iptal and AcilistaTemizle of handlers.go, *)
(* kuyruk.go, the mass cancellations of ayar.go).  Jobs are rows of        *)
(* tasima_isleri; one job runs at a time, in a goroutine of the panel,     *)
(* while requests add jobs and cancel them and the panel may die.          *)
(*                                                                         *)
(* A job's items (tasima_kalemleri) are kept as the number still waiting.  *)
(* dagit is called from three places and never returns anything, so its    *)
(* calls are a count; the mutex kilit is held from its first step to its   *)
(* last, and nothing that needs kilit happens in between.                  *)
(***************************************************************************)
EXTENDS Integers, FiniteSets

CONSTANTS
    Sahip,          \* owners of jobs: the administrator and the resellers
    Kok,            \* the administrator, whose account cannot go away
    Istek,          \* requests that may be in Baslat at the same time
    KalemSayisi,    \* accounts selected for a job
    DagitDeneme,    \* tries of one dagit call (3)
    IsSiniri,       \* bound: jobs
    CokmeSiniri     \* bound: crashes of the panel

ASSUME SahipVarsayim == Kok \in Sahip
ASSUME KalemVarsayim == KalemSayisi \in Nat \ {0}
ASSUME DenemeVarsayim == DagitDeneme \in Nat \ {0}
ASSUME SinirVarsayim == IsSiniri \in Nat /\ CokmeSiniri \in Nat

VARIABLES
    durum,      \* tasima_isleri.durum
    sahip,      \* tasima_isleri.sahip_rid
    kimlik,     \* jobs whose encrypted credentials are stored
    bekleyen,   \* items of the job that wait ('bekliyor')
    sonIs,      \* AUTO_INCREMENT
    sahipVar,   \* owners whose account exists
    panel,      \* kapali, acilis (AcilistaTemizle is running), acik
    istek,      \* where each request in Baslat stands
    baslatMu,   \* the request that holds baslatMu
    cagri,      \* calls of dagit that have not got kilit yet
    dagitan,    \* where the call that holds kilit stands
    aktif,      \* aktifIsID
    iptalli,    \* jobs whose context is cancelled
    iptalci,    \* jobs a request found not running and is about to cancel
    is,         \* the goroutine of each job
    vazgecti,   \* history: the last dagit call gave up although the slot was free
    cokme       \* crashes so far

vars == <<durum, sahip, kimlik, bekleyen, sonIs, sahipVar, panel, istek, baslatMu, cagri, dagitan,
          aktif, iptalli, iptalci, is, vazgecti, cokme>>
satirVars == <<durum, sahip, kimlik, bekleyen, sonIs, sahipVar>>
surecVars == <<istek, baslatMu, cagri, dagitan, aktif, iptalli, iptalci, is,
              vazgecti>>

Is == 1 .. IsSiniri
Yok == 0
Biten == {"tamam", "hata", "iptal", "kesildi"}
Acik == {"kuyrukta", "calisiyor"}

IstekYok == [adim |-> "bos", sahip |-> Kok, is |-> Yok, kalan |-> 0]
DagitYok == [adim |-> "bos", is |-> Yok, kalan |-> 0]
IsYok == [adim |-> "yok", kalan |-> 0, tamam |-> FALSE, hata |-> FALSE]

\* What the goroutine does before it has released the slot.
Yurur == {"yukle", "dongu", "aktar", "birak"}

Durum == {"yok", "silindi"} \cup Acik \cup Biten
IstekKaydi == [adim : {"bos", "say", "ekle", "kalem"}, sahip : Sahip, is : Is \cup {Yok},
               kalan : 0 .. KalemSayisi]
DagitKaydi == [adim : {"bos", "sec", "al"}, is : Is \cup {Yok}, kalan : 0 .. DagitDeneme]
IsKaydi == [adim : {"yok", "sil"} \cup Yurur, kalan : 0 .. KalemSayisi, tamam : BOOLEAN,
            hata : BOOLEAN]

TypeOK ==
    /\ durum \in [Is -> Durum]
    /\ sahip \in [Is -> Sahip]
    /\ kimlik \subseteq Is
    /\ bekleyen \in [Is -> 0 .. KalemSayisi]
    /\ sonIs \in 0 .. IsSiniri
    /\ sahipVar \subseteq Sahip
    /\ panel \in {"kapali", "acilis", "acik"}
    /\ istek \in [Istek -> IstekKaydi]
    /\ baslatMu \subseteq Istek
    /\ cagri \in Nat
    /\ dagitan \in DagitKaydi
    /\ aktif \in Is \cup {Yok}
    /\ iptalli \subseteq Is /\ iptalci \subseteq Is
    /\ is \in [Is -> IsKaydi]
    /\ vazgecti \in BOOLEAN
    /\ cokme \in 0 .. CokmeSiniri

Sifirla ==
    /\ istek' = [r \in Istek |-> IstekYok] /\ baslatMu' = {}
    /\ cagri' = 0 /\ dagitan' = DagitYok
    /\ aktif' = Yok /\ iptalli' = {} /\ iptalci' = {}
    /\ is' = [j \in Is |-> IsYok] /\ vazgecti' = FALSE

Init ==
    /\ durum = [j \in Is |-> "yok"] /\ sahip = [j \in Is |-> Kok]
    /\ kimlik = {} /\ bekleyen = [j \in Is |-> 0] /\ sonIs = 0
    /\ sahipVar = Sahip
    /\ panel = "kapali"
    /\ istek = [r \in Istek |-> IstekYok] /\ baslatMu = {}
    /\ cagri = 0 /\ dagitan = DagitYok
    /\ aktif = Yok /\ iptalli = {} /\ iptalci = {}
    /\ is = [j \in Is |-> IsYok] /\ vazgecti = FALSE
    /\ cokme = 0

KilitBos == dagitan.adim = "bos"
Kuyruktaki == {j \in Is : durum[j] = "kuyrukta"}

-----------------------------------------------------------------------------
(***************************************************************************)
(* Start-up and crash.                                                     *)
(***************************************************************************)
\* Mutant of AcilisKes: a row that was running is taken for one that still runs.
AcilisKesBakmadan ==
    /\ panel = "kapali" /\ panel' = "acilis"
    /\ UNCHANGED <<satirVars, surecVars, cokme>>

\* The first statement of AcilistaTemizle: what was running is cut off.
AcilisKes ==
    /\ panel = "kapali"
    /\ panel' = "acilis"
    /\ durum' = [j \in Is |-> IF durum[j] = "calisiyor" THEN "kesildi" ELSE durum[j]]
    /\ UNCHANGED <<sahip, kimlik, bekleyen, sonIs, sahipVar, surecVars, cokme>>

\* Mutant of AcilisTemizle: only the cancelled rows lose their credentials.
AcilisTemizleKimliksiz ==
    /\ panel = "acilis"
    /\ \E eskiyen \in SUBSET Kuyruktaki :
        /\ durum' = [j \in Is |->
                IF sahip[j] \notin sahipVar /\ durum[j] # "yok" THEN "silindi"
                ELSE IF j \in eskiyen THEN "iptal" ELSE durum[j]]
        /\ kimlik' = {j \in kimlik \ eskiyen : durum'[j] # "silindi"}
    /\ panel' = "acik" /\ cagri' = cagri + 1
    /\ UNCHANGED <<sahip, bekleyen, sonIs, sahipVar, istek, baslatMu, dagitan, aktif, iptalli,
                   iptalci, is, vazgecti, cokme>>

\* The rest of it: rows queued for too long (kuyrukOmru) are cancelled, the
\* rows of resellers that are gone are deleted, what has ended loses its
\* credentials, and the dispatcher is called a little later.
AcilisTemizle ==
    /\ panel = "acilis"
    /\ \E eskiyen \in SUBSET Kuyruktaki :
        LET yeni == [j \in Is |->
                IF sahip[j] \notin sahipVar /\ durum[j] # "yok" THEN "silindi"
                ELSE IF j \in eskiyen THEN "iptal" ELSE durum[j]] IN
        /\ durum' = yeni
        /\ kimlik' = {j \in kimlik : yeni[j] \in Acik}
    /\ panel' = "acik" /\ cagri' = cagri + 1
    /\ UNCHANGED <<sahip, bekleyen, sonIs, sahipVar, istek, baslatMu, dagitan, aktif, iptalli,
                   iptalci, is, vazgecti, cokme>>

Cok ==
    /\ panel # "kapali" /\ cokme < CokmeSiniri
    /\ cokme' = cokme + 1 /\ panel' = "kapali"
    /\ Sifirla
    /\ UNCHANGED satirVars

\* The account of a reseller is deleted elsewhere in the panel.
SahipSil(o) ==
    /\ panel = "acik" /\ o \in sahipVar \ {Kok}
    /\ sahipVar' = sahipVar \ {o}
    /\ UNCHANGED <<durum, sahip, kimlik, bekleyen, sonIs, panel, surecVars, cokme>>

-----------------------------------------------------------------------------
(***************************************************************************)
(* Baslat, from the point where it takes baslatMu.                         *)
(***************************************************************************)
\* Mutant of Baslat: it does not wait for baslatMu.
BaslatKilitsiz(r, o) ==
    /\ panel = "acik" /\ o \in sahipVar /\ sonIs < IsSiniri
    /\ istek[r].adim = "bos"
    /\ baslatMu' = {r}
    /\ istek' = [istek EXCEPT ![r] = [IstekYok EXCEPT !.adim = "say", !.sahip = o]]
    /\ UNCHANGED <<satirVars, panel, cagri, dagitan, aktif, iptalli, iptalci, is, vazgecti, cokme>>

Baslat(r, o) ==
    /\ panel = "acik" /\ o \in sahipVar /\ sonIs < IsSiniri
    /\ istek[r].adim = "bos" /\ baslatMu = {}
    /\ baslatMu' = {r}
    /\ istek' = [istek EXCEPT ![r] = [IstekYok EXCEPT !.adim = "say", !.sahip = o]]
    /\ UNCHANGED <<satirVars, panel, cagri, dagitan, aktif, iptalli, iptalci, is, vazgecti, cokme>>

IstekBirak(r) == baslatMu' = {} /\ istek' = [istek EXCEPT ![r] = IstekYok]

\* Refused when the owner has a job that waits or runs, or when they cannot be
\* counted.
BaslatSay(r) ==
    /\ istek[r].adim = "say"
    /\ \/ IstekBirak(r)
       \/ /\ \A j \in Is : sahip[j] = istek[r].sahip => durum[j] \notin Acik
          /\ istek' = [istek EXCEPT ![r].adim = "ekle"] /\ UNCHANGED baslatMu
    /\ UNCHANGED <<satirVars, panel, cagri, dagitan, aktif, iptalli, iptalci, is, vazgecti, cokme>>

\* The row is 'kuyrukta' from here on, its items follow.  A request that cannot
\* insert it ends as one that was refused.
BaslatEkle(r) ==
    /\ istek[r].adim = "ekle" /\ sonIs < IsSiniri
    /\ LET j == sonIs + 1 IN
        /\ sonIs' = j
        /\ durum' = [durum EXCEPT ![j] = "kuyrukta"]
        /\ sahip' = [sahip EXCEPT ![j] = istek[r].sahip]
        /\ kimlik' = kimlik \cup {j}
        /\ istek' = [istek EXCEPT ![r] = [adim |-> "kalem", sahip |-> @.sahip, is |-> j,
                                          kalan |-> KalemSayisi]]
    /\ UNCHANGED <<bekleyen, sahipVar, panel, baslatMu, cagri, dagitan, aktif, iptalli, iptalci, is,
                   vazgecti, cokme>>

\* Mutant of BaslatKalem: an account whose row was written is written again.
BaslatKalemYineler(r) ==
    /\ istek[r].adim = "kalem" /\ istek[r].kalan > 0
    /\ \/ /\ bekleyen' = [bekleyen EXCEPT ![istek[r].is] = @ + 1]
          /\ UNCHANGED istek
       \/ /\ istek' = [istek EXCEPT ![r].kalan = @ - 1]
          /\ UNCHANGED bekleyen
    /\ UNCHANGED <<durum, sahip, kimlik, sonIs, sahipVar, panel, baslatMu, cagri, dagitan, aktif,
                   iptalli, iptalci, is, vazgecti, cokme>>

\* One INSERT into tasima_kalemleri; one that fails is only logged.
BaslatKalem(r) ==
    /\ istek[r].adim = "kalem" /\ istek[r].kalan > 0
    /\ bekleyen' \in {bekleyen, [bekleyen EXCEPT ![istek[r].is] = @ + 1]}
    /\ istek' = [istek EXCEPT ![r].kalan = @ - 1]
    /\ UNCHANGED <<durum, sahip, kimlik, sonIs, sahipVar, panel, baslatMu, cagri, dagitan, aktif,
                   iptalli, iptalci, is, vazgecti, cokme>>

\* Mutant of BaslatBitir: the request leaves the new row to the next call of dagit.
BaslatBitirDagitmadan(r) ==
    /\ istek[r].adim = "kalem" /\ istek[r].kalan = 0
    /\ IstekBirak(r)
    /\ UNCHANGED <<satirVars, panel, cagri, dagitan, aktif, iptalli, iptalci, is, vazgecti, cokme>>

\* baslatMu is given back and the dispatcher is called.
BaslatBitir(r) ==
    /\ istek[r].adim = "kalem" /\ istek[r].kalan = 0
    /\ IstekBirak(r) /\ cagri' = cagri + 1
    /\ UNCHANGED <<satirVars, panel, dagitan, aktif, iptalli, iptalci, is, vazgecti, cokme>>

-----------------------------------------------------------------------------
(***************************************************************************)
(* Cancellation.                                                           *)
(***************************************************************************)
\* A row that has ended is answered with a conflict and left alone.
Iptal(j) ==
    /\ panel = "acik" /\ KilitBos
    /\ durum[j] \in Acik
    /\ \/ aktif = j /\ iptalli' = iptalli \cup {j} /\ UNCHANGED iptalci
       \/ aktif # j /\ iptalci' = iptalci \cup {j} /\ UNCHANGED iptalli
    /\ UNCHANGED <<satirVars, panel, istek, baslatMu, cagri, dagitan, aktif, is, vazgecti, cokme>>

\* UPDATE ... WHERE durum='kuyrukta'; a row that has left the queue meanwhile is
\* answered with a conflict.
IptalYaz(j) ==
    /\ j \in iptalci
    /\ iptalci' = iptalci \ {j}
    /\ \/ /\ durum[j] = "kuyrukta"
          /\ durum' = [durum EXCEPT ![j] = "iptal"]
          /\ kimlik' = kimlik \ {j} /\ bekleyen' = [bekleyen EXCEPT ![j] = 0]
       \/ durum[j] # "kuyrukta" /\ UNCHANGED <<durum, kimlik, bekleyen>>
    /\ UNCHANGED <<sahip, sonIs, sahipVar, panel, istek, baslatMu, cagri, dagitan, aktif, iptalli,
                   is, vazgecti, cokme>>

\* The administrator closes a source, or migrations for the resellers: the
\* queued rows concerned are cancelled in one statement.
TopluIptal(js) ==
    /\ panel = "acik" /\ js # {} /\ js \subseteq Kuyruktaki
    /\ durum' = [j \in Is |-> IF j \in js THEN "iptal" ELSE durum[j]]
    /\ kimlik' = kimlik \ js
    /\ UNCHANGED <<sahip, bekleyen, sonIs, sahipVar, panel, surecVars, cokme>>

-----------------------------------------------------------------------------
(***************************************************************************)
(* dagit, the dispatcher.                                                  *)
(***************************************************************************)
\* Mutant of DagitBasla: it does not look whether the slot is taken.
DagitBaslaBakmadan ==
    /\ cagri > 0 /\ KilitBos
    /\ cagri' = cagri - 1 /\ vazgecti' = FALSE
    /\ dagitan' = [adim |-> "sec", is |-> Yok, kalan |-> DagitDeneme]
    /\ UNCHANGED <<satirVars, panel, istek, baslatMu, aktif, iptalli, iptalci, is, cokme>>

DagitBasla ==
    /\ cagri > 0 /\ KilitBos
    /\ cagri' = cagri - 1 /\ vazgecti' = FALSE
    /\ dagitan' = IF aktif = Yok THEN [adim |-> "sec", is |-> Yok, kalan |-> DagitDeneme]
                                 ELSE DagitYok
    /\ UNCHANGED <<satirVars, panel, istek, baslatMu, aktif, iptalli, iptalci, is, cokme>>

EnEski(j) == j \in Kuyruktaki /\ \A k \in Kuyruktaki : j <= k

\* A statement failed or the tries are used up: the call returns.
Vazgec == dagitan' = DagitYok /\ vazgecti' = TRUE

\* Mutant of DagitSec: the query has no ORDER BY.
DagitSecSirasiz ==
    /\ dagitan.adim = "sec"
    /\ \/ /\ \E j \in Kuyruktaki : dagitan' = [dagitan EXCEPT !.adim = "al", !.is = j]
          /\ UNCHANGED vazgecti
       \/ Kuyruktaki = {} /\ dagitan' = DagitYok /\ UNCHANGED vazgecti
       \/ Vazgec
    /\ UNCHANGED <<satirVars, panel, istek, baslatMu, cagri, aktif, iptalli, iptalci, is, cokme>>

DagitSec ==
    /\ dagitan.adim = "sec"
    /\ \/ /\ \E j \in Is : EnEski(j) /\ dagitan' = [dagitan EXCEPT !.adim = "al", !.is = j]
          /\ UNCHANGED vazgecti
       \/ Kuyruktaki = {} /\ dagitan' = DagitYok /\ UNCHANGED vazgecti
       \/ Vazgec
    /\ UNCHANGED <<satirVars, panel, istek, baslatMu, cagri, aktif, iptalli, iptalci, is, cokme>>

\* Mutant of DagitAl: the UPDATE carries no condition on the row's state.
DagitAlKosulsuz ==
    /\ dagitan.adim = "al"
    /\ durum' = [durum EXCEPT ![dagitan.is] = "calisiyor"]
    /\ aktif' = dagitan.is
    /\ is' = [is EXCEPT ![dagitan.is] = [IsYok EXCEPT !.adim = "yukle"]]
    /\ dagitan' = DagitYok
    /\ UNCHANGED <<sahip, kimlik, bekleyen, sonIs, sahipVar, panel, istek, baslatMu, cagri, iptalli,
                   iptalci, vazgecti, cokme>>

\* The conditional UPDATE; a row that was cancelled meanwhile costs a try.
DagitAl ==
    /\ dagitan.adim = "al"
    /\ \/ /\ durum[dagitan.is] = "kuyrukta"
          /\ durum' = [durum EXCEPT ![dagitan.is] = "calisiyor"]
          /\ aktif' = dagitan.is
          /\ is' = [is EXCEPT ![dagitan.is] = [IsYok EXCEPT !.adim = "yukle"]]
          /\ dagitan' = DagitYok /\ UNCHANGED vazgecti
       \/ /\ durum[dagitan.is] # "kuyrukta" /\ dagitan.kalan > 1
          /\ dagitan' = [adim |-> "sec", is |-> Yok, kalan |-> dagitan.kalan - 1]
          /\ UNCHANGED <<durum, aktif, is, vazgecti>>
       \/ Vazgec /\ UNCHANGED <<durum, aktif, is>>
    /\ UNCHANGED <<sahip, kimlik, bekleyen, sonIs, sahipVar, panel, istek, baslatMu, cagri, iptalli,
                   iptalci, cokme>>

-----------------------------------------------------------------------------
(***************************************************************************)
(* The goroutine of a job: isYurut, calistir and yuvaBirak.                *)
(***************************************************************************)
\* The end of the job is written, to its row and to the items that wait.
IsBitir(j, d) ==
    /\ durum' = [durum EXCEPT ![j] = d]
    /\ bekleyen' = [bekleyen EXCEPT ![j] = 0]
    /\ is' = [is EXCEPT ![j].adim = "birak"]

Yukle(j) ==
    /\ is[j].adim = "yukle"
    /\ \/ \E d \in {"hata", "iptal"} : IsBitir(j, d)
       \/ /\ bekleyen[j] > 0
          /\ is' = [is EXCEPT ![j].adim = "dongu", ![j].kalan = bekleyen[j]]
          /\ UNCHANGED <<durum, bekleyen>>
    /\ UNCHANGED <<sahip, kimlik, sonIs, sahipVar, panel, istek, baslatMu, cagri, dagitan, aktif,
                   iptalli, iptalci, vazgecti, cokme>>

\* The head of the loop over the items, and the end of the loop.
Dongu(j) ==
    /\ is[j].adim = "dongu"
    /\ \/ is[j].kalan > 0 /\ j \in iptalli /\ IsBitir(j, "iptal")
       \/ /\ is[j].kalan > 0 /\ j \notin iptalli
          /\ bekleyen' = [bekleyen EXCEPT ![j] = @ - 1]
          /\ is' = [is EXCEPT ![j].adim = "aktar", ![j].kalan = @ - 1]
          /\ UNCHANGED durum
       \/ /\ is[j].kalan = 0
          /\ durum' = [durum EXCEPT ![j] = IF is[j].hata /\ ~is[j].tamam THEN "hata" ELSE "tamam"]
          /\ is' = [is EXCEPT ![j].adim = "birak"]
          /\ UNCHANGED bekleyen
    /\ UNCHANGED <<sahip, kimlik, sonIs, sahipVar, panel, istek, baslatMu, cagri, dagitan, aktif,
                   iptalli, iptalci, vazgecti, cokme>>

\* HesapAktar ends well, is cut off by the cancellation, fails, or finds no
\* quota ('atlandi', which counts neither way).
Aktar(j) ==
    /\ is[j].adim = "aktar"
    /\ \/ j \in iptalli /\ IsBitir(j, "iptal")
       \/ /\ \/ is' = [is EXCEPT ![j].adim = "dongu", ![j].tamam = TRUE]
             \/ j \notin iptalli /\ is' = [is EXCEPT ![j].adim = "dongu", ![j].hata = TRUE]
             \/ j \notin iptalli /\ is' = [is EXCEPT ![j].adim = "dongu"]
          /\ UNCHANGED <<durum, bekleyen>>
    /\ UNCHANGED <<sahip, kimlik, sonIs, sahipVar, panel, istek, baslatMu, cagri, dagitan, aktif,
                   iptalli, iptalci, vazgecti, cokme>>

\* isYurut recovers from a panic; the items stay as they are.
Panik(j) ==
    /\ is[j].adim \in {"yukle", "dongu", "aktar"}
    /\ durum' = [durum EXCEPT ![j] = "hata"]
    /\ is' = [is EXCEPT ![j].adim = "birak"]
    /\ UNCHANGED <<sahip, kimlik, bekleyen, sonIs, sahipVar, panel, istek, baslatMu, cagri, dagitan,
                   aktif, iptalli, iptalci, vazgecti, cokme>>

\* yuvaBirak: the slot is given back under kilit ...
YuvaBirak(j) ==
    /\ is[j].adim = "birak" /\ KilitBos
    /\ aktif' = IF aktif = j THEN Yok ELSE aktif
    /\ iptalli' = iptalli \ {j}
    /\ is' = [is EXCEPT ![j] = [IsYok EXCEPT !.adim = "sil"]]
    /\ UNCHANGED <<satirVars, panel, istek, baslatMu, cagri, dagitan, iptalci, vazgecti, cokme>>

\* Mutant of KimlikSil: the next job is left to the next request.
KimlikSilDagitmadan(j) ==
    /\ is[j].adim = "sil"
    /\ kimlik' = kimlik \ {j}
    /\ is' = [is EXCEPT ![j] = IsYok]
    /\ UNCHANGED <<durum, sahip, bekleyen, sonIs, sahipVar, panel, istek, baslatMu, cagri, dagitan,
                   aktif, iptalli, iptalci, vazgecti, cokme>>

\* ... then the credentials are wiped and the dispatcher is called.
KimlikSil(j) ==
    /\ is[j].adim = "sil"
    /\ kimlik' = kimlik \ {j}
    /\ is' = [is EXCEPT ![j] = IsYok]
    /\ cagri' = cagri + 1
    /\ UNCHANGED <<durum, sahip, bekleyen, sonIs, sahipVar, panel, istek, baslatMu, dagitan, aktif,
                   iptalli, iptalci, vazgecti, cokme>>

-----------------------------------------------------------------------------
IstekAdimi(r) == BaslatSay(r) \/ BaslatEkle(r) \/ BaslatKalem(r) \/ BaslatBitir(r)
Dagit == DagitBasla \/ DagitSec \/ DagitAl
IsAdimi(j) == Yukle(j) \/ Dongu(j) \/ Aktar(j) \/ YuvaBirak(j) \/ KimlikSil(j)

Next ==
    \/ AcilisKes \/ AcilisTemizle \/ Cok
    \/ \E o \in Sahip : SahipSil(o) \/ \E r \in Istek : Baslat(r, o)
    \/ \E r \in Istek : IstekAdimi(r)
    \/ \E j \in Is : Iptal(j) \/ IptalYaz(j)
    \/ \E js \in SUBSET Is : TopluIptal(js)
    \/ Dagit
    \/ \E j \in Is : IsAdimi(j) \/ Panik(j)

Spec == Init /\ [][Next]_vars

\* The panel is restarted (systemd), a request that holds baslatMu and every
\* goroutine run on, a transfer ends (each of its steps has a time limit), and
\* a caller that waits for kilit gets it (sync.Mutex does not starve).
AdilSpec ==
    /\ Spec
    /\ WF_vars(AcilisKes) /\ WF_vars(AcilisTemizle)
    /\ \A r \in Istek : WF_vars(IstekAdimi(r))
    /\ WF_vars(DagitSec \/ DagitAl) /\ SF_vars(DagitBasla)
    /\ \A j \in Is : /\ WF_vars(Yukle(j) \/ Dongu(j) \/ Aktar(j) \/ KimlikSil(j))
                     /\ SF_vars(YuvaBirak(j))

-----------------------------------------------------------------------------
\* One migration at a time loads the server, the one that owns the slot
\* (kuyruk.go: a single slot of concurrency 1).
TekYuva == \A j \in Is : is[j].adim \in Yurur => aktif = j

\* No owner ever has two jobs that wait or run, however many requests arrive at
\* once (baslatMu's comment).
SahipTekAcik ==
    \A j, k \in Is : durum[j] \in Acik /\ durum[k] \in Acik /\ sahip[j] = sahip[k] => j = k

\* A running row has a goroutine that will close it: no restart or cancellation
\* leaves one behind that blocks its owner's next job.
SahipsizYok ==
    panel = "acik" => \A j \in Is : durum[j] = "calisiyor" => is[j].adim \in Yurur

\* The source server's credentials do not outlive the job: whichever way it
\* ended, they are gone or its goroutine is on its way to wipe them.
KimlikKalmaz ==
    panel = "acik" =>
        \A j \in kimlik : durum[j] \in Acik \/ is[j].adim \in {"birak", "sil"}

\* A job that has ended, by a cancellation in the queue above all, never waits
\* or starts again.
BitenBaslamaz ==
    [][\A j \in Is : durum[j] \in Biten =>
            durum'[j] \notin Acik /\ (is[j].adim = "yok" => is'[j].adim = "yok")]_vars

\* Whatever is queued gets its turn or is cancelled: no wake-up of the
\* dispatcher is lost between cancellations, released slots and restarts.  The
\* exception is a dispatcher that gave up (a failed statement, or the third row
\* in a row cancelled under it): nobody calls it again until the next job.
KuyrukIlerler ==
    \A j \in Is : durum[j] = "kuyrukta" ~> (durum[j] # "kuyrukta" \/ vazgecti)

\* Who will call dagit, or is in it: a call that waits for kilit or has it, a
\* request that has inserted its row, a job that has not ended its goroutine.
Uyandiran ==
    \/ cagri > 0 \/ ~KilitBos
    \/ \E r \in Istek : istek[r].adim = "kalem"
    \/ \E j \in Is : is[j].adim # "yok"

\* No wake-up is lost: while a job waits, somebody is on the way to dagit, however
\* releases, cancellations, requests and restarts fall together (dagit polls
\* nothing; its callers are Baslat, yuvaBirak and the start).
UyandirmaKaybolmaz ==
    panel = "acik" /\ Kuyruktaki # {} => Uyandiran \/ vazgecti

\* The queue keeps its promise (KuyrukSozlesme): the slot is filled in order
\* (kuyruk.go:6-7), with the oldest job that waits at the moment it starts.
Sozlesme ==
    INSTANCE KuyrukSozlesme WITH
        sahibi <- sahip,
        bekler <- Kuyruktaki,
        kosan <- {j \in Is : durum[j] = "calisiyor"},
        biten <- {j \in Is : durum[j] \in Biten \cup {"silindi"}}

SozlesmeyeUyar == Sozlesme!SozlesmeSpec
=============================================================================
