------------------------------ MODULE DbKisici ------------------------------
(***************************************************************************)
(* The restriction one database user is put under by the CPU governor      *)
(* (src/internal/dbgovernor), seen against everything else that writes the *)
(* same MAX_USER_CONNECTIONS: the plan, which is applied by requests       *)
(* (kaynaklimit.MySQLLimitUygula) and asks the governor through a hook.    *)
(*                                                                         *)
(* The governor is one goroutine: Kurtar when the panel starts, then one   *)
(* Tick after the other.  The restriction lives in memory, in the open row *)
(* of db_cpu_kisit and in MariaDB, once per host entry of the user, and    *)
(* each call may fail or be the last before a crash.  What is measured is  *)
(* a choice: the user is over the threshold in a tick or not, the cool-    *)
(* down has passed or not.  The other users of the server are independent. *)
(***************************************************************************)
EXTENDS Integers, FiniteSets

CONSTANTS
    HostSayisi,      \* host entries of the user in mysql.user
    PlanDeger,       \* MAX_USER_CONNECTIONS a plan may give (0: unlimited)
    KisitBaglanti,   \* ayar.KisitBaglanti
    Ariza,           \* the faults that may strike
    ArizaSiniri,     \* bound: faults
    DegisimSiniri    \* bound: changes of the plan

Host == 1 .. HostSayisi
ArizaTuru == {
    "olum",      \* the panel dies
    "oku",       \* a query (settings, limits, plan, open rows) fails
    "alter",     \* an ALTER USER fails
    "yanit",     \* an ALTER USER is applied and reported as failed
    "kayit"}     \* a write to db_cpu_kisit fails

ASSUME HostVarsayim == HostSayisi \in Nat \ {0}
ASSUME PlanVarsayim == PlanDeger \subseteq Nat /\ PlanDeger # {}
ASSUME KisitVarsayim == KisitBaglanti \in Nat \ {0}
ASSUME ArizaVarsayim == Ariza \subseteq ArizaTuru
ASSUME SinirVarsayim == ArizaSiniri \in Nat /\ DegisimSiniri \in Nat

VARIABLES
    sinir,       \* MariaDB: MAX_USER_CONNECTIONS of each host entry
    kayit,       \* the open row of db_cpu_kisit
    plan,        \* what efektiflimit resolves for the hosting
    panel,       \* acik or kapali
    aktif,       \* m.aktif[u]
    planAnlik,   \* m.planAnlik[u]
    adim,        \* where the governor's goroutine stands
    turMod,      \* ayar.Mod, the setting db_kisici_mod as this tick read it
    asim,        \* the user was over the threshold in this tick
    okunan,      \* the limits Hesaplar returned
    hedef,       \* the value the loop over the host entries writes
    sira,        \* the next host entry of that loop
    iyi,         \* entries the loop found or set right
    deneme,      \* tries of birak's write-back
    eski,        \* the restriction's value before it climbed to level 3
    uyg,         \* the request that applies the plan
    kisitli,     \* history: entries whose limit was written as a restriction
    guncel,      \* history: the plan was applied since it changed
    vuran,       \* history: what struck that the code makes no provision for
    ariza,       \* faults so far
    degisim      \* changes of the plan so far

bellekVars == <<aktif, planAnlik>>
turVars == <<turMod, asim>>
donguVars == <<okunan, hedef, sira, iyi, deneme, eski>>
planVars == <<plan, guncel, degisim>>
vars == <<sinir, kayit, panel, bellekVars, adim, turVars, donguVars, uyg, planVars, kisitli,
          vuran, ariza>>

Yok == -1
Mod == {"kapali", "gozlem", "uygula"}
KayitYok == [var |-> FALSE, onceki |-> 0, deger |-> 0, uygulandi |-> FALSE]
AktifYok == [var |-> FALSE, onceki |-> 0, deger |-> 0, uygulandi |-> FALSE, seviye |-> 1,
             kurtar |-> FALSE, geri |-> FALSE]
UygYok == [adim |-> "bos", plan |-> 0, sira |-> 1, deger |-> 0, tam |-> TRUE]
SinirYok == [h \in Host |-> 0]

\* What is not provided for: a plan written with the restriction's value after
\* the restriction was given up ("yaris"), ALTERs applied although all of them
\* were reported as failed ("yanit"), a plan that changed again during the
\* second write-back ("deneme"), a plan that could not be read at the release
\* ("oku"), open rows that could not be read at the start ("liste"), a row that
\* could not be closed after nothing was applied ("kapanmadi").
Vuran == {"yaris", "yanit", "deneme", "oku", "liste", "kapanmadi"}

TypeOK ==
    /\ sinir \in [Host -> Nat] /\ okunan \in [Host -> Nat]
    /\ kayit \in [var : BOOLEAN, onceki : Nat, deger : Nat, uygulandi : BOOLEAN]
    /\ plan \in [planli : BOOLEAN, deger : PlanDeger]
    /\ turMod \in Mod
    /\ panel \in {"acik", "kapali"}
    /\ aktif \in [var : BOOLEAN, onceki : Nat, deger : Nat, uygulandi : BOOLEAN, seviye : 1 .. 3,
                  kurtar : BOOLEAN, geri : BOOLEAN]
    /\ planAnlik \in Nat \cup {Yok}
    /\ adim \in {"kurtar", "bos", "kisitla", "ac", "kisAlter", "s3Oku", "s3Alter", "dogrula",
                 "dogAlter", "birakSec", "birak", "birakOku", "birakHedef", "birakAlter",
                 "birakSon", "kapat", "yaz"}
    /\ asim \in BOOLEAN
    /\ hedef \in Nat /\ sira \in 1 .. HostSayisi + 1
    /\ iyi \subseteq Host /\ deneme \in 1 .. 2 /\ eski \in Nat
    /\ uyg \in [adim : {"bos", "sor", "yaz"}, plan : PlanDeger \cup {0}, sira : Host, deger : Nat,
                tam : BOOLEAN]
    /\ kisitli \subseteq Host /\ guncel \in BOOLEAN
    /\ vuran \subseteq Vuran
    /\ ariza \in 0 .. ArizaSiniri /\ degisim \in 0 .. DegisimSiniri

\* Everything the panel holds in memory.
Bellek ==
    /\ aktif' = AktifYok /\ planAnlik' = Yok
    /\ turMod' = "gozlem" /\ asim' = FALSE
    /\ okunan' = SinirYok /\ hedef' = 0 /\ sira' = 1 /\ iyi' = {} /\ deneme' = 1 /\ eski' = 0
    /\ uyg' = UygYok

Init ==
    /\ plan \in [planli : BOOLEAN, deger : PlanDeger]
    /\ sinir = [h \in Host |-> IF plan.planli THEN plan.deger ELSE 0]
    /\ kayit = KayitYok
    /\ panel = "kapali"
    /\ aktif = AktifYok /\ planAnlik = Yok
    /\ adim = "bos" /\ turMod = "gozlem" /\ asim = FALSE
    /\ okunan = SinirYok /\ hedef = 0 /\ sira = 1 /\ iyi = {} /\ deneme = 1 /\ eski = 0
    /\ uyg = UygYok
    /\ kisitli = {} /\ guncel = TRUE /\ vuran = {} /\ ariza = 0 /\ degisim = 0

Bozulur(a) == a \in Ariza /\ ariza < ArizaSiniri /\ ariza' = ariza + 1
Saglam == UNCHANGED ariza

\* What the requests and the administrator own, untouched by the governor.
disVars == <<panel, uyg, planVars>>

\* Tick goes on to step a; what the tick found stays.
Gec(a) == adim' = a

\* The restriction is in force: applied and not being given up.
KisitSurer == aktif.var /\ aktif.uygulandi /\ ~aktif.geri

\* Where a tick goes after the evaluation: dogrulaPass only in mode uygula.
Sonra == IF turMod = "uygula" THEN "dogrula" ELSE "birakSec"

-----------------------------------------------------------------------------
(***************************************************************************)
(* Start, crash, and what happens outside the governor.                    *)
(***************************************************************************)
Acilis ==
    /\ panel = "kapali"
    /\ panel' = "acik" /\ adim' = "kurtar"
    /\ vuran' = vuran \ {"liste", "kapanmadi"}
    /\ UNCHANGED <<sinir, kayit, bellekVars, turVars, donguVars, uyg, planVars, kisitli, ariza>>

Cok ==
    /\ panel = "acik" /\ Bozulur("olum")
    /\ panel' = "kapali" /\ adim' = "bos" /\ Bellek
    /\ guncel' = (guncel /\ uyg.adim = "bos")
    /\ UNCHANGED <<sinir, kayit, plan, degisim, kisitli, vuran>>

\* The plan is saved, changed or not, and the request goes on to apply it; a hosting without a plan
\* gets no MySQL limits.
PlanDegis ==
    /\ panel = "acik" /\ uyg.adim = "bos" /\ degisim < DegisimSiniri
    /\ degisim' = degisim + 1
    /\ plan' \in [planli : BOOLEAN, deger : PlanDeger]
    /\ guncel' = FALSE
    /\ uyg' = IF plan'.planli THEN [UygYok EXCEPT !.adim = "sor", !.plan = plan'.deger] ELSE UygYok
    /\ UNCHANGED <<sinir, kayit, panel, bellekVars, adim, turVars, donguVars, kisitli, vuran,
                   ariza>>

\* baglantiKancasi, asked for the next host entry.
UygSor ==
    /\ uyg.adim = "sor"
    /\ uyg' = [uyg EXCEPT !.adim = "yaz", !.deger =
                IF ~aktif.var \/ ~aktif.uygulandi \/ aktif.geri
                   \/ (uyg.plan > 0 /\ uyg.plan < aktif.deger)
                THEN uyg.plan ELSE aktif.deger]
    /\ planAnlik' = IF aktif.var /\ aktif.uygulandi THEN uyg.plan ELSE planAnlik
    /\ UNCHANGED <<sinir, kayit, panel, aktif, adim, turVars, donguVars, planVars, kisitli,
                   vuran, ariza>>

\* MySQLLimitUygula's ALTER; one that fails is only logged.
UygYaz ==
    /\ uyg.adim = "yaz"
    /\ LET kisit == uyg.deger # uyg.plan
           Sonraki(tam) ==
             /\ uyg' = IF uyg.sira = HostSayisi THEN UygYok
                       ELSE [uyg EXCEPT !.adim = "sor", !.sira = @ + 1, !.tam = tam]
             /\ guncel' = (uyg.sira = HostSayisi /\ tam) IN
       \/ /\ sinir' = [sinir EXCEPT ![uyg.sira] = uyg.deger]
          /\ kisitli' = IF kisit THEN kisitli \cup {uyg.sira} ELSE kisitli \ {uyg.sira}
          /\ vuran' = IF kisit /\ ~KisitSurer THEN vuran \cup {"yaris"} ELSE vuran
          /\ Sonraki(uyg.tam) /\ Saglam
       \/ /\ Bozulur("alter") /\ Sonraki(FALSE)
          /\ UNCHANGED <<sinir, kisitli, vuran>>
    /\ UNCHANGED <<kayit, panel, bellekVars, adim, turVars, donguVars, plan, degisim>>

-----------------------------------------------------------------------------
(***************************************************************************)
(* One turn of the governor: Tick, or Kurtar when the panel starts.        *)
(***************************************************************************)
\* AcikKayitlar; what is found is taken over and released at once.
Kurtar ==
    /\ adim = "kurtar"
    /\ \/ /\ aktif' = IF kayit.var
                      THEN [AktifYok EXCEPT !.var = TRUE, !.onceki = kayit.onceki,
                                !.deger = kayit.deger, !.uygulandi = kayit.uygulandi,
                                !.kurtar = TRUE]
                      ELSE AktifYok
          /\ Gec(IF kayit.var THEN "birak" ELSE "bos")
          /\ Saglam /\ UNCHANGED vuran
       \/ /\ Bozulur("oku") /\ Gec("bos")
          /\ vuran' = vuran \cup {"liste"} /\ UNCHANGED aktif
    /\ UNCHANGED <<sinir, kayit, disVars, planAnlik, turVars, donguVars, kisitli>>

\* Settings and measurement.  The administrator may have set any mode since the last
\* tick.  Without settings the defaults hold (mode gozlem) and nothing new is decided,
\* without a measurement neither.
TickBasla ==
    /\ panel = "acik" /\ adim = "bos"
    /\ \/ turMod' = "gozlem" /\ asim' = FALSE /\ Gec("birakSec") /\ Bozulur("oku")
       \/ turMod' \in Mod /\ asim' = FALSE /\ Gec("birakSec") /\ Saglam
       \/ turMod' = "uygula" /\ asim' = FALSE /\ Gec("dogrula") /\ Saglam
       \/ turMod' \in Mod \ {"kapali"} /\ asim' = TRUE /\ Gec("kisitla") /\ Saglam
    /\ UNCHANGED <<sinir, kayit, disVars, bellekVars, donguVars, kisitli, vuran>>

-----------------------------------------------------------------------------
(***************************************************************************)
(* kullaniciKisitla.                                                       *)
(***************************************************************************)
\* There is a restriction: it may climb, one level at a time.
Tirman ==
    /\ adim = "kisitla" /\ aktif.var
    /\ \/ UNCHANGED <<aktif, eski>> /\ Gec(Sonra)
       \/ /\ KisitSurer /\ turMod = "uygula" /\ aktif.seviye = 1
          /\ aktif' = [aktif EXCEPT !.seviye = 2] /\ UNCHANGED eski /\ Gec(Sonra)
       \/ /\ KisitSurer /\ turMod = "uygula" /\ aktif.seviye = 2
          /\ eski' = aktif.deger /\ aktif' = [aktif EXCEPT !.deger = 1] /\ Gec("s3Oku")
    /\ UNCHANGED <<sinir, kayit, disVars, planAnlik, turVars, okunan, hedef, sira, iyi, deneme,
                   kisitli, vuran, ariza>>

\* There is none: the limits are read; in mode gozlem nothing is.
KisitOku ==
    /\ adim = "kisitla" /\ ~aktif.var
    /\ \/ okunan' = (IF turMod = "uygula" THEN sinir ELSE SinirYok) /\ Gec("ac") /\ Saglam
       \/ turMod = "uygula" /\ Bozulur("oku") /\ Gec(Sonra) /\ UNCHANGED okunan
    /\ UNCHANGED <<sinir, kayit, disVars, bellekVars, turVars, hedef, sira, iyi, deneme, eski,
                   kisitli, vuran>>

\* kisitDegeri never goes above a limit that is lower already.
KisitDegeri(onceki) == IF onceki > 0 /\ onceki <= KisitBaglanti THEN onceki ELSE KisitBaglanti
YeniKayit ==
    IF turMod = "uygula"
    THEN [var |-> TRUE, onceki |-> okunan[1], deger |-> KisitDegeri(okunan[1]), uygulandi |-> TRUE]
    ELSE [var |-> TRUE, onceki |-> 0, deger |-> KisitBaglanti, uygulandi |-> FALSE]

\* m.aktif[u] = k, from the row that was opened.
AktifYap == aktif' = [AktifYok EXCEPT !.var = TRUE, !.onceki = kayit'.onceki,
                          !.deger = kayit'.deger, !.uygulandi = kayit'.uygulandi]

\* Mutant of Ac: the restriction is applied although its row could not be written.
AcKayitsiz ==
    /\ adim = "ac"
    /\ \/ ~kayit.var /\ kayit' = YeniKayit /\ Saglam
       \/ UNCHANGED kayit /\ ((kayit.var /\ Saglam) \/ Bozulur("kayit"))
    /\ IF turMod = "uygula" THEN Gec("kisAlter") /\ UNCHANGED aktif ELSE Gec(Sonra) /\ AktifYap
    /\ hedef' = YeniKayit.deger /\ sira' = 1 /\ iyi' = {}
    /\ UNCHANGED <<sinir, disVars, planAnlik, turVars, okunan, deneme, eski, kisitli, vuran>>

\* Depo.Ac; UNIQUE(db_user, acik) refuses a second open row.
Ac ==
    /\ adim = "ac"
    /\ \/ /\ ~kayit.var /\ kayit' = YeniKayit
          /\ IF turMod = "uygula" THEN Gec("kisAlter") /\ UNCHANGED aktif
                                  ELSE Gec(Sonra) /\ AktifYap
          /\ hedef' = kayit'.deger /\ sira' = 1 /\ iyi' = {}
          /\ Saglam
       \/ /\ (kayit.var /\ Saglam) \/ Bozulur("kayit")
          /\ Gec(Sonra) /\ UNCHANGED <<kayit, aktif, hedef, sira, iyi>>
    /\ UNCHANGED <<sinir, disVars, planAnlik, turVars, okunan, deneme, eski, kisitli, vuran>>

\* ALTERs that fail one after the other in one loop are one fault.
AlterBozulur(a) ==
    \/ sira # 1 /\ sira - 1 \notin iyi /\ a \in Ariza /\ Saglam
    \/ (sira = 1 \/ sira - 1 \in iyi) /\ Bozulur(a)

\* One turn of a loop that sets hedef on the host entries.
Yaz(kisit) ==
    /\ sinir' = [sinir EXCEPT ![sira] = hedef]
    /\ kisitli' = IF kisit THEN kisitli \cup {sira} ELSE kisitli \ {sira}

AlterDongu(kisit) ==
    /\ sira \in Host /\ sira' = sira + 1
    /\ \/ /\ okunan[sira] = hedef /\ Saglam
          /\ kisitli' = IF ~kisit /\ sinir[sira] = hedef THEN kisitli \ {sira} ELSE kisitli
          /\ iyi' = iyi \cup {sira} /\ UNCHANGED sinir
       \/ /\ okunan[sira] # hedef /\ Saglam
          /\ Yaz(kisit) /\ iyi' = iyi \cup {sira}
       \/ /\ okunan[sira] # hedef /\ AlterBozulur("alter")
          /\ UNCHANGED <<sinir, kisitli, iyi>>
       \/ /\ okunan[sira] # hedef /\ AlterBozulur("yanit")
          /\ Yaz(kisit) /\ UNCHANGED iyi
    /\ UNCHANGED <<kayit, disVars, bellekVars, adim, turVars, okunan, hedef, deneme, eski,
                   vuran>>

KisitAlter == adim = "kisAlter" /\ AlterDongu(TRUE)

\* Mutant of KisitBitti: nothing could be applied, and the row stays open.
KisitBittiKapatmadan ==
    /\ adim = "kisAlter" /\ sira \notin Host
    /\ \/ iyi # {} /\ UNCHANGED kayit /\ AktifYap
       \/ iyi = {} /\ UNCHANGED <<kayit, aktif>>
    /\ Gec(Sonra)
    /\ UNCHANGED <<sinir, disVars, planAnlik, turVars, donguVars, kisitli, vuran, ariza>>

\* One entry is enough; with none the row is closed again, if it can be.
KisitBitti ==
    /\ adim = "kisAlter" /\ sira \notin Host
    /\ \/ /\ iyi # {} /\ UNCHANGED kayit /\ AktifYap
          /\ Saglam /\ UNCHANGED vuran
       \/ /\ iyi = {} /\ kayit' = KayitYok /\ UNCHANGED aktif
          /\ vuran' = vuran \cup (IF kisitli # {} THEN {"yanit"} ELSE {})
          /\ Saglam
       \/ /\ iyi = {} /\ UNCHANGED <<kayit, aktif>>
          /\ vuran' = vuran \cup {"kapanmadi"}
          /\ Bozulur("kayit")
    /\ Gec(Sonra)
    /\ UNCHANGED <<sinir, disVars, planAnlik, turVars, donguVars, kisitli>>

(***************************************************************************)
(* seviye3Sinir and baglantiKes: one connection per entry, then the open   *)
(* connections are cut.  KisitDeger is 1 from the start and goes back when *)
(* no entry could be written.                                              *)
(***************************************************************************)
Seviye3Oku ==
    /\ adim = "s3Oku"
    /\ \/ /\ okunan' = sinir /\ hedef' = 1 /\ sira' = 1 /\ iyi' = {}
          /\ Gec("s3Alter") /\ Saglam /\ UNCHANGED aktif
       \/ /\ Bozulur("oku") /\ aktif' = [aktif EXCEPT !.deger = eski]
          /\ Gec(Sonra) /\ UNCHANGED <<okunan, hedef, sira, iyi>>
    /\ UNCHANGED <<sinir, kayit, disVars, planAnlik, turVars, deneme, eski, kisitli, vuran>>

Seviye3Alter == adim = "s3Alter" /\ AlterDongu(TRUE)

Seviye3Bitti ==
    /\ adim = "s3Alter" /\ sira \notin Host
    /\ \/ iyi = {} /\ aktif' = [aktif EXCEPT !.deger = eski] /\ Saglam
       \/ iyi # {} /\ aktif' = [aktif EXCEPT !.seviye = 3] /\ Saglam
       \/ iyi # {} /\ Bozulur("oku") /\ UNCHANGED aktif
    /\ Gec(Sonra)
    /\ UNCHANGED <<sinir, kayit, disVars, planAnlik, turVars, donguVars, kisitli, vuran>>

-----------------------------------------------------------------------------
(***************************************************************************)
(* dogrulaPass: what the plan or a failed ALTER has undone is set again.   *)
(***************************************************************************)
\* beklenenBaglanti
Beklenen ==
    IF planAnlik # Yok /\ planAnlik > 0 /\ planAnlik < aktif.deger THEN planAnlik ELSE aktif.deger

Dogrula ==
    /\ adim = "dogrula"
    /\ \/ /\ KisitSurer /\ ~aktif.kurtar
          /\ okunan' = sinir /\ hedef' = Beklenen /\ sira' = 1 /\ iyi' = {}
          /\ Gec("dogAlter") /\ Saglam
       \/ /\ ~KisitSurer \/ aktif.kurtar
          /\ Gec("birakSec") /\ Saglam /\ UNCHANGED <<okunan, hedef, sira, iyi>>
       \/ /\ KisitSurer /\ ~aktif.kurtar /\ Bozulur("oku")
          /\ Gec("birakSec") /\ UNCHANGED <<okunan, hedef, sira, iyi>>
    /\ UNCHANGED <<sinir, kayit, disVars, bellekVars, turVars, deneme, eski, kisitli, vuran>>

DogrulaAlter == adim = "dogAlter" /\ AlterDongu(hedef = aktif.deger)

DogrulaBitti ==
    /\ adim = "dogAlter" /\ sira \notin Host
    /\ Gec("birakSec")
    /\ UNCHANGED <<sinir, kayit, disVars, bellekVars, turVars, donguVars, kisitli, vuran, ariza>>

-----------------------------------------------------------------------------
(***************************************************************************)
(* birakPass and birak: the limits are written back, then the row closes.  *)
(***************************************************************************)
\* Mutant of BirakZorunlu: a restriction from before the start waits for the
\* cool-down like the others.
BirakZorunluKurtarmadan ==
    aktif.geri \/ turMod = "kapali" \/ (turMod = "uygula" /\ ~aktif.uygulandi)

\* A release that has begun, a restriction from before the start, mode kapali and
\* a record of mode gozlem must go; the rest may go when the user is suspended,
\* gone, or has cooled down, none of which holds for one over the threshold.
BirakZorunlu ==
    aktif.geri \/ aktif.kurtar \/ turMod = "kapali" \/ (turMod = "uygula" /\ ~aktif.uygulandi)

BirakSec ==
    /\ adim = "birakSec"
    /\ \/ aktif.var /\ (BirakZorunlu \/ ~asim) /\ Gec("birak")
       \/ ~(aktif.var /\ BirakZorunlu) /\ Gec("yaz")
    /\ UNCHANGED <<sinir, kayit, disVars, bellekVars, turVars, donguVars, kisitli, vuran, ariza>>

\* geriYazildi is set before anything is written, so that the hook lets plans
\* pass from here on.
Birak ==
    /\ adim = "birak"
    /\ \/ /\ KisitSurer /\ aktif' = [aktif EXCEPT !.geri = TRUE]
          /\ deneme' = 1 /\ Gec("birakOku")
       \/ ~KisitSurer /\ UNCHANGED <<aktif, deneme>> /\ Gec("kapat")
    /\ UNCHANGED <<sinir, kayit, disVars, planAnlik, turVars, okunan, hedef, sira, iyi, eski,
                   kisitli, vuran, ariza>>

\* geriYazmaIptal: the release has failed, the restriction is in force again.
GeriYazmaIptal == aktif' = [aktif EXCEPT !.geri = FALSE] /\ Gec("yaz")

BirakOku ==
    /\ adim = "birakOku"
    /\ \/ okunan' = sinir /\ Gec("birakHedef") /\ Saglam /\ UNCHANGED aktif
       \/ Bozulur("oku") /\ GeriYazmaIptal /\ UNCHANGED okunan
    /\ UNCHANGED <<sinir, kayit, disVars, planAnlik, turVars, hedef, sira, iyi, deneme, eski,
                   kisitli, vuran>>

\* Mutant of HedefDeger: what was read before the restriction, whatever the plan says.
HedefDegerOnceki(okundu) == aktif.onceki

\* hedefDeger: the plan noted by the hook, else the plan, else what the row says.
\* A plan that cannot be read counts as none.
HedefDeger(okundu) ==
    IF planAnlik # Yok THEN planAnlik
    ELSE IF plan.planli /\ okundu THEN plan.deger ELSE aktif.onceki

PlanOku(okundu) ==
    \/ okundu /\ Saglam /\ UNCHANGED vuran
    \/ ~okundu /\ planAnlik = Yok /\ plan.planli /\ Bozulur("oku") /\ vuran' = vuran \cup {"oku"}

BirakHedef ==
    /\ adim = "birakHedef"
    /\ \E okundu \in BOOLEAN : PlanOku(okundu) /\ hedef' = HedefDeger(okundu)
    /\ sira' = 1 /\ iyi' = {} /\ Gec("birakAlter")
    /\ UNCHANGED <<sinir, kayit, disVars, bellekVars, turVars, okunan, deneme, eski, kisitli>>

BirakAlter == adim = "birakAlter" /\ AlterDongu(FALSE)

\* Mutant of SonDeneme: off by one.
SonDenemeFazla == deneme = 3
SonDeneme == deneme = 2

\* Written everywhere, and the plan has not changed meanwhile; when it has, once
\* more, but not a third time.
BirakBitti ==
    /\ adim = "birakAlter" /\ sira \notin Host
    /\ \/ /\ iyi # Host /\ GeriYazmaIptal /\ Saglam /\ UNCHANGED <<deneme, vuran>>
       \/ /\ iyi = Host /\ UNCHANGED aktif
          /\ \E okundu \in BOOLEAN :
              /\ PlanOku(okundu) /\ HedefDeger(okundu) = hedef
              /\ Gec("kapat") /\ UNCHANGED deneme
       \/ /\ iyi = Host /\ UNCHANGED aktif
          /\ \E okundu \in BOOLEAN :
              /\ PlanOku(okundu) /\ HedefDeger(okundu) # hedef
              /\ ~SonDeneme /\ deneme' = deneme + 1 /\ Gec("birakOku")
       \/ /\ iyi = Host /\ UNCHANGED <<aktif, deneme, ariza>>
          /\ HedefDeger(TRUE) # hedef /\ SonDeneme
          /\ Gec("kapat") /\ vuran' = vuran \cup {"deneme"}
    /\ UNCHANGED <<sinir, kayit, disVars, planAnlik, turVars, okunan, hedef, sira, iyi, eski,
                   kisitli>>

\* A row that cannot be closed keeps the restriction in memory, given up as it is.
Kapat ==
    /\ adim = "kapat"
    /\ \/ kayit' = KayitYok /\ aktif' = AktifYok /\ planAnlik' = Yok /\ Saglam
       \/ Bozulur("kayit") /\ UNCHANGED <<kayit, bellekVars>>
    /\ Gec("yaz")
    /\ UNCHANGED <<sinir, disVars, turVars, donguVars, kisitli, vuran>>

\* yazPass, at most once a minute and with its error ignored; the next turn.
TurBitti ==
    /\ adim = "yaz"
    /\ \/ UNCHANGED kayit
       \/ kayit.var /\ aktif.var /\ kayit' = [kayit EXCEPT !.deger = aktif.deger]
    /\ Gec("bos") /\ turMod' = "gozlem" /\ asim' = FALSE
    /\ okunan' = SinirYok /\ hedef' = 0 /\ sira' = 1 /\ iyi' = {} /\ deneme' = 1 /\ eski' = 0
    /\ UNCHANGED <<sinir, disVars, bellekVars, kisitli, vuran, ariza>>

-----------------------------------------------------------------------------
Dis == PlanDegis \/ UygSor \/ UygYaz
KisitAdimi == Tirman \/ KisitOku \/ Ac \/ KisitAlter \/ KisitBitti
Seviye3Adimi == Seviye3Oku \/ Seviye3Alter \/ Seviye3Bitti
DogrulaAdimi == Dogrula \/ DogrulaAlter \/ DogrulaBitti
BirakAdimi == BirakSec \/ Birak \/ BirakOku \/ BirakHedef \/ BirakAlter \/ BirakBitti \/ Kapat
Motor ==
    Kurtar \/ TickBasla \/ KisitAdimi \/ Seviye3Adimi \/ DogrulaAdimi \/ BirakAdimi \/ TurBitti

Next == Acilis \/ Cok \/ Dis \/ Motor

Spec == Init /\ [][Next]_vars

\* The panel is restarted by systemd, and the governor's goroutine runs on: each
\* of its calls has a time limit.
AdilSpec == Spec /\ WF_vars(Acilis) /\ WF_vars(Motor)

-----------------------------------------------------------------------------
Durgun == panel = "acik" /\ adim = "bos" /\ uyg.adim = "bos"

\* First the row, then MariaDB: whenever a limit is a restriction's, an open row
\* says so, in every step and after every crash, so that the next start can take
\* it back (package comment: open restrictions are persistent).
KisitKayitli == vuran \cap {"yanit", "yaris"} = {} => (kisitli # {} => kayit.var)

\* An open row that nobody holds in memory would refuse the user's restrictions
\* until the next start (birak's comment): between two turns there is none.
KayitSahipli ==
    Durgun /\ vuran \cap {"liste", "kapanmadi"} = {} => (kayit.var <=> aktif.var)

\* When the plan was applied and nothing is going on, the user has the plan's
\* limit, whatever restrictions came, climbed, were overtaken by a plan and went.
PlanGecerli ==
    Durgun /\ ~aktif.var /\ ~kayit.var /\ plan.planli /\ guncel /\ vuran = {} =>
        \A h \in Host : sinir[h] = plan.deger

\* A crash leaves no restriction for good (Kurtar's comment), whatever the mode.
KalintiKalkar ==
    (kayit.var /\ panel = "kapali") ~> (~kayit.var \/ vuran \cap {"liste", "kapanmadi"} # {})

\* A plan applied while the restriction is being released leaves no low limit
\* behind (TestBirakirkenPlanYenidenUygulamasi).
BirakirkenPlan ==
    Durgun /\ ~aktif.var /\ ~kayit.var /\ plan.planli /\ guncel => kisitli = {}
=============================================================================
