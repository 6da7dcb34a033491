------------------------------ MODULE SirYenile ------------------------------
(***************************************************************************)
(* Rotation of the panel's secrets (src/internal/sirrota, driven by the    *)
(* command line of src/cmd/server/sir.go): the signing secret of the       *)
(* sessions, the password of the panel's MariaDB user and the password of  *)
(* Valkey's default user.  They live in four places that cannot be changed *)
(* together: MariaDB (one password per host entry of the user), Valkey (in *)
(* memory, and in the ACL file ACL SAVE writes), the env file, and the     *)
(* copies of the DSN in the add-ons' env files.  A rotation walks through  *)
(* them one call at a time, may fail or die at each, rolls back when it    *)
(* fails, and leaves a pending file by which Kurtar measures afterwards    *)
(* which password is in force.                                             *)
(*                                                                         *)
(* A secret is the number of the rotation that made it; 0 is the one from  *)
(* the installation.  A lock file lets one command run at a time.          *)
(***************************************************************************)
EXTENDS Integers, FiniteSets

CONSTANTS
    HostSayisi,       \* host entries of the panel's user in mysql.user
    DsnHost,          \* the entry a connection with the DSN is matched with
    Eklenti,          \* add-on env files that hold a copy of the DSN
    Ariza,            \* the faults that may strike
    YenilemeSiniri    \* bound: rotations that generate secrets

Host == 1 .. HostSayisi
Hedef == {"jwt", "db", "redis"}
ArizaTuru == {
    "olum",             \* the process dies
    "yoklama",          \* a correct password cannot be verified for now
    "alter",            \* ALTER USER or the query for the hosts fails
    "valkey",           \* Valkey refuses a command, nothing is changed
    "yanit",            \* Valkey applies a command and the reply is lost
    "valkeyYeniden",    \* Valkey restarts and reads its ACL file
    "dosya",            \* a file cannot be written or removed
    "saglik",           \* the panel is unhealthy for another reason
    "geri"}             \* faults also strike while rolling back

\* What the code makes no provision for.
AgirAriza == {"yanit", "valkeyYeniden", "geri"}

ASSUME HostVarsayim == HostSayisi \in Nat \ {0} /\ DsnHost \in Host
ASSUME ArizaVarsayim == Ariza \subseteq ArizaTuru
ASSUME YenilemeVarsayim == YenilemeSiniri \in Nat

VARIABLES
    db,           \* MariaDB: the password of each host entry
    vk,           \* Valkey: the password in force
    vkKayit,      \* Valkey: the password in its ACL file
    env,          \* /etc/girginospanel/env
    ek,           \* the DSN password in the add-ons' env files
    bekleyen,     \* the pending file; hedef = {} when there is none
    nesil,        \* the last secret generated
    adim,         \* where the command stands
    amac,         \* the command: sir yenile or sir kurtar
    yon,          \* kurtar, ileri, hata (geriAlDis after a failure) or geridon
    kume,         \* the targets of the rotation
    eski,         \* env as it was read at the start (envEski)
    yeniEnv,      \* env with degisim applied
    sira,         \* the next host entry ALTER USER reaches
    dbDegisti,    \* geriBilgi.dbDegisti
    redisDegist,  \* geriBilgi.redisDegist
    ekKalan,      \* add-on files still to visit
    ekDegisen,    \* add-on files rewritten (keys of geriBilgi.ekEski)
    eksik,        \* GeriDon could not write a file
    kod,          \* how the last command ended
    vuran         \* history: the faults of AgirAriza that have struck

disVars == <<db, vk, vkKayit>>
dosyaVars == <<env, ek, bekleyen>>
geriVars == <<dbDegisti, redisDegist, ekDegisen, eksik>>
planVars == <<amac, kume, eski, yeniEnv, nesil>>
vars == <<disVars, dosyaVars, geriVars, planVars, adim, yon, sira, ekKalan, kod, vuran>>

Sir == [Hedef -> Nat]
IlkSir == [h \in Hedef |-> 0]
Bekleyen == [hedef : SUBSET Hedef, eski : Sir, yeni : Sir]
BekleyenYok == [hedef |-> {}, eski |-> IlkSir, yeni |-> IlkSir]
BekleyenVar == bekleyen.hedef # {}

Adim == {"bos", "kurtarOku", "kurtarDb", "kurtarRedis", "kurtarEnv", "kurtarSil",
         "hazirla", "bekleyenYaz", "hostlar", "alter", "dbDogrula", "vkSet", "vkSave",
         "vkDogrula", "envYaz", "hizala", "sil", "yenilendi",
         "geriSil", "geriEnv", "geriEk"}

Kod == {"yok", "tamam", "basarisiz", "kritik", "kurtarildi", "oldu"}

TypeOK ==
    /\ db \in [Host -> Nat]
    /\ vk \in Nat /\ vkKayit \in Nat
    /\ env \in Sir
    /\ ek \in [Eklenti -> Nat]
    /\ bekleyen \in Bekleyen
    /\ nesil \in Nat
    /\ adim \in Adim
    /\ amac \in {"yenile", "kurtar"}
    /\ yon \in {"kurtar", "ileri", "hata", "geridon"}
    /\ kume \subseteq Hedef
    /\ eski \in Sir /\ yeniEnv \in Sir
    /\ sira \in 1 .. HostSayisi + 1
    /\ dbDegisti \in BOOLEAN /\ redisDegist \in BOOLEAN /\ eksik \in BOOLEAN
    /\ ekKalan \subseteq Eklenti /\ ekDegisen \subseteq Eklenti
    /\ kod \in Kod
    /\ vuran \subseteq AgirAriza

Init ==
    /\ db = [h \in Host |-> 0]
    /\ vk = 0 /\ vkKayit = 0
    /\ env = IlkSir
    /\ ek = [e \in Eklenti |-> 0]
    /\ bekleyen = BekleyenYok
    /\ nesil = 0
    /\ adim = "bos" /\ amac = "kurtar" /\ yon = "kurtar"
    /\ kume = {} /\ eski = IlkSir /\ yeniEnv = IlkSir /\ sira = 1
    /\ dbDegisti = FALSE /\ redisDegist = FALSE /\ eksik = FALSE
    /\ ekKalan = {} /\ ekDegisen = {}
    /\ kod = "yok"
    /\ vuran = {}

\* The keys of degisim: the targets whose value in env is to change.
Degisen == {h \in Hedef : yeniEnv[h] # eski[h]}

\* Outside the rollbacks a fault needs to be in Ariza, in them "geri" as well.
Bozulur(a) ==
    LET geri == IF yon \in {"hata", "geridon"} THEN {"geri"} ELSE {} IN
    /\ {a} \cup geri \subseteq Ariza
    /\ vuran' = vuran \cup (({a} \cup geri) \cap AgirAriza)

-----------------------------------------------------------------------------
(***************************************************************************)
(* How a command starts and ends.                                          *)
(***************************************************************************)
Basla(a, k) ==
    /\ adim = "bos"
    /\ a = "yenile" => nesil < YenilemeSiniri /\ k # {}
    /\ a = "kurtar" => k = {}
    /\ adim' = "kurtarOku" /\ amac' = a /\ kume' = k /\ yon' = "kurtar"
    /\ UNCHANGED <<disVars, dosyaVars, geriVars, eski, yeniEnv, nesil, sira, ekKalan, kod,
                   vuran>>

\* The process is gone, and with it everything it had in memory.
Unut ==
    /\ adim' = "bos" /\ amac' = "kurtar" /\ yon' = "kurtar" /\ kume' = {}
    /\ eski' = IlkSir /\ yeniEnv' = IlkSir /\ sira' = 1
    /\ dbDegisti' = FALSE /\ redisDegist' = FALSE /\ eksik' = FALSE
    /\ ekKalan' = {} /\ ekDegisen' = {}
    /\ UNCHANGED nesil

Bitir(k) == Unut /\ kod' = k

Oldu ==
    /\ adim # "bos"
    /\ "olum" \in Ariza
    /\ \/ yon # "geridon" /\ UNCHANGED vuran
       \/ yon = "geridon" /\ Bozulur("olum")
    /\ Bitir("oldu")
    /\ UNCHANGED <<disVars, dosyaVars>>

\* In the middle of ParolaDegistir a restart cuts the connection as well: that
\* is a lost reply ("yanit") and then a restart.
ValkeyYenidenBasla ==
    /\ adim # "vkSave"
    /\ "valkeyYeniden" \in Ariza /\ vuran' = vuran \cup {"valkeyYeniden"}
    /\ vk' = vkKayit
    /\ UNCHANGED <<db, vkKayit, dosyaVars, geriVars, planVars, adim, yon, sira, ekKalan, kod>>

-----------------------------------------------------------------------------
(***************************************************************************)
(* Kurtar: measure which password is in force and align env with it.       *)
(***************************************************************************)
DbKabul(p) == p = db[DsnHost]
ValkeyKabul(p) == p = vk

KurtarOku ==
    /\ adim = "kurtarOku"
    /\ \/ /\ BekleyenVar \/ amac = "yenile"
          /\ eski' = env /\ yeniEnv' = env
          /\ adim' = IF BekleyenVar THEN "kurtarDb" ELSE "hazirla"
          /\ UNCHANGED <<geriVars, amac, kume, nesil, yon, sira, ekKalan, kod>>
       \/ /\ ~BekleyenVar /\ amac = "kurtar"
          /\ Bitir("kurtarildi")
    /\ UNCHANGED <<disVars, dosyaVars, vuran>>

\* Dogrula of the value in env, then of the new and of the old one.
Olc(h, Kabul(_), sonra) ==
    \/ /\ h \in bekleyen.hedef => Kabul(env[h])
       /\ adim' = sonra
       /\ UNCHANGED <<geriVars, planVars, yon, sira, ekKalan, kod, vuran>>
    \/ /\ h \in bekleyen.hedef
       /\ ~Kabul(env[h])
       /\ \E p \in {bekleyen.yeni[h], bekleyen.eski[h]} :
             Kabul(p) /\ yeniEnv' = [yeniEnv EXCEPT ![h] = p]
       /\ adim' = sonra
       /\ UNCHANGED <<geriVars, amac, kume, eski, nesil, yon, sira, ekKalan, kod, vuran>>
    \/ /\ h \in bekleyen.hedef
       /\ \/ Bozulur("yoklama")
          \/ /\ \A p \in {env[h], bekleyen.yeni[h], bekleyen.eski[h]} : ~Kabul(p)
             /\ UNCHANGED vuran
       /\ Bitir("basarisiz")

KurtarDb ==
    /\ adim = "kurtarDb"
    /\ Olc("db", DbKabul, "kurtarRedis")
    /\ UNCHANGED <<disVars, dosyaVars>>

KurtarRedis ==
    /\ adim = "kurtarRedis"
    /\ Olc("redis", ValkeyKabul, "kurtarEnv")
    /\ UNCHANGED <<disVars, dosyaVars>>

KurtarEnv ==
    /\ adim = "kurtarEnv"
    /\ \/ /\ env' = yeniEnv
          /\ adim' = IF "db" \in Degisen THEN "hizala" ELSE "kurtarSil"
          /\ ekKalan' = IF "db" \in Degisen THEN Eklenti ELSE {}
          /\ UNCHANGED <<geriVars, planVars, yon, sira, kod, vuran>>
       \/ /\ Degisen # {} /\ Bozulur("dosya")
          /\ Bitir("basarisiz")
          /\ UNCHANGED env
    /\ UNCHANGED <<disVars, ek, bekleyen>>

\* The pending file goes; sir kurtar ends, sir yenile goes on.
KurtarSil ==
    /\ adim = "kurtarSil"
    /\ \/ /\ bekleyen' = BekleyenYok
          /\ amac = "kurtar"
          /\ Bitir("kurtarildi")
          /\ UNCHANGED vuran
       \/ /\ bekleyen' = BekleyenYok
          /\ amac = "yenile"
          /\ adim' = "hazirla" /\ ekDegisen' = {}
          /\ UNCHANGED <<planVars, dbDegisti, redisDegist, eksik, yon, sira, ekKalan, kod,
                         vuran>>
       \/ /\ BekleyenVar /\ Bozulur("dosya")
          /\ Bitir("basarisiz")
          /\ UNCHANGED bekleyen
    /\ UNCHANGED <<disVars, env, ek>>

-----------------------------------------------------------------------------
(***************************************************************************)
(* Yenile: generate, write the pending file, change, verify, write env.    *)
(***************************************************************************)
Hazirla ==
    /\ adim = "hazirla"
    /\ nesil' = nesil + 1
    /\ eski' = env
    /\ yeniEnv' = [h \in Hedef |-> IF h \in kume THEN nesil + 1 ELSE env[h]]
    /\ adim' = "bekleyenYaz" /\ yon' = "ileri"
    /\ UNCHANGED <<disVars, dosyaVars, geriVars, amac, kume, sira, ekKalan, kod, vuran>>

IlkDis == IF "db" \in kume THEN "hostlar" ELSE IF "redis" \in kume THEN "vkSet" ELSE "envYaz"

\* Mutant of BekleyenYaz: the new values are not in the pending file.
BekleyenYazYenisiz ==
    /\ adim = "bekleyenYaz"
    /\ \/ /\ bekleyen' = [hedef |-> kume, eski |-> eski, yeni |-> eski]
          /\ adim' = IlkDis
          /\ UNCHANGED <<geriVars, planVars, yon, sira, ekKalan, kod, vuran>>
       \/ /\ Bozulur("dosya")
          /\ Bitir("basarisiz")
          /\ UNCHANGED bekleyen
    /\ UNCHANGED <<disVars, env, ek>>

BekleyenYaz ==
    /\ adim = "bekleyenYaz"
    /\ \/ /\ bekleyen' = [hedef |-> kume, eski |-> eski, yeni |-> yeniEnv]
          /\ adim' = IlkDis
          /\ UNCHANGED <<geriVars, planVars, yon, sira, ekKalan, kod, vuran>>
       \/ /\ Bozulur("dosya")
          /\ Bitir("basarisiz")
          /\ UNCHANGED bekleyen
    /\ UNCHANGED <<disVars, env, ek>>

\* Where geriAlDis goes on: to MariaDB, or to what its caller does next.
GeriSonu(y) == IF y = "hata" THEN "geriSil" ELSE "geriEnv"
DbGeriAdimi(y) == IF dbDegisti THEN "alter" ELSE GeriSonu(y)

\* basarisiz and GeriDon begin with geriAlDis: Valkey first, then MariaDB.
GeriAl(y) ==
    /\ yon' = y /\ sira' = 1
    /\ adim' = IF redisDegist THEN "vkSet" ELSE DbGeriAdimi(y)
    /\ UNCHANGED <<geriVars, planVars, ekKalan, kod>>

\* Mutant of Hostlar: dbDegisti is left for the success of ParolaAyarla.
HostlarSonraya ==
    /\ adim = "hostlar"
    /\ \/ /\ sira' = 1 /\ adim' = "alter"
          /\ UNCHANGED <<geriVars, planVars, yon, ekKalan, kod, vuran>>
       \/ Bozulur("alter") /\ GeriAl("hata")
    /\ UNCHANGED <<disVars, dosyaVars>>

\* dbDegisti is set before the first ALTER: it may be applied in part.
Hostlar ==
    /\ adim = "hostlar"
    /\ \/ /\ dbDegisti' = TRUE /\ sira' = 1 /\ adim' = "alter"
          /\ UNCHANGED <<redisDegist, ekDegisen, eksik, planVars, yon, ekKalan, kod, vuran>>
       \/ Bozulur("alter") /\ GeriAl("hata")
    /\ UNCHANGED <<disVars, dosyaVars>>

DbParola == IF yon = "ileri" THEN yeniEnv["db"] ELSE eski["db"]

\* Mutant of Alter: the entries are counted from zero.
AlterBirFazla ==
    /\ adim = "alter" /\ sira \in 1 .. HostSayisi + 1
    /\ db' = [h \in Host |-> IF h = sira THEN DbParola ELSE db[h]]
    /\ sira' = sira + 1
    /\ UNCHANGED <<vk, vkKayit, dosyaVars, geriVars, planVars, adim, yon, ekKalan, kod,
                   vuran>>

\* Mutant of Alter: only the entry the DSN is matched with gets the new password.
AlterTekHost ==
    /\ adim = "alter" /\ sira \in Host
    /\ db' = [db EXCEPT ![DsnHost] = DbParola]
    /\ sira' = sira + 1
    /\ UNCHANGED <<vk, vkKayit, dosyaVars, geriVars, planVars, adim, yon, ekKalan, kod,
                   vuran>>

\* ParolaAyarla, one ALTER USER at a time.
Alter ==
    /\ adim = "alter" /\ sira \in Host
    /\ db' = [db EXCEPT ![sira] = DbParola]
    /\ sira' = sira + 1
    /\ UNCHANGED <<vk, vkKayit, dosyaVars, geriVars, planVars, adim, yon, ekKalan, kod,
                   vuran>>

AlterBitti ==
    /\ adim = "alter" /\ sira = HostSayisi + 1
    /\ \/ yon = "ileri" /\ adim' = "dbDogrula" /\ UNCHANGED dbDegisti
       \/ yon # "ileri" /\ adim' = GeriSonu(yon) /\ dbDegisti' = FALSE
    /\ UNCHANGED <<disVars, dosyaVars, redisDegist, ekDegisen, eksik, planVars, yon, sira,
                   ekKalan, kod, vuran>>

\* The mysql client fails before, between or after the statements.
AlterDustu ==
    /\ adim = "alter" /\ Bozulur("alter")
    /\ \/ yon = "ileri" /\ GeriAl("hata")
       \/ /\ yon # "ileri" /\ adim' = GeriSonu(yon)
          /\ UNCHANGED <<geriVars, planVars, yon, sira, ekKalan, kod>>
    /\ UNCHANGED <<disVars, dosyaVars>>

DbDogrula ==
    /\ adim = "dbDogrula"
    /\ \/ /\ DbKabul(yeniEnv["db"])
          /\ adim' = IF "redis" \in kume THEN "vkSet" ELSE "envYaz"
          /\ UNCHANGED <<geriVars, planVars, yon, sira, ekKalan, kod, vuran>>
       \/ /\ (~DbKabul(yeniEnv["db"]) /\ UNCHANGED vuran) \/ Bozulur("yoklama")
          /\ GeriAl("hata")
    /\ UNCHANGED <<disVars, dosyaVars>>

(***************************************************************************)
(* ParolaDegistir on Valkey: AUTH and ACL SETUSER, then ACL SAVE; a SAVE   *)
(* that is refused undoes the change in memory.                            *)
(***************************************************************************)
VkEski == IF yon = "ileri" THEN eski["redis"] ELSE yeniEnv["redis"]
VkYeni == IF yon = "ileri" THEN yeniEnv["redis"] ELSE eski["redis"]

\* It returned an error: redisDegist stays as it was.
VkDustu ==
    \/ yon = "ileri" /\ GeriAl("hata")
    \/ /\ yon # "ileri" /\ sira' = 1 /\ adim' = DbGeriAdimi(yon)
       /\ UNCHANGED <<geriVars, planVars, yon, ekKalan, kod>>

VkSet ==
    /\ adim = "vkSet"
    /\ \/ /\ ValkeyKabul(VkEski) /\ vk' = VkYeni
          /\ adim' = "vkSave"
          /\ UNCHANGED <<geriVars, planVars, yon, sira, ekKalan, kod, vuran>>
       \/ /\ (~ValkeyKabul(VkEski) /\ UNCHANGED vuran) \/ Bozulur("valkey")
          /\ VkDustu /\ UNCHANGED vk
       \/ /\ ValkeyKabul(VkEski) /\ Bozulur("yanit") /\ vk' = VkYeni
          /\ VkDustu
    /\ UNCHANGED <<db, vkKayit, dosyaVars>>

VkSave ==
    /\ adim = "vkSave"
    /\ \/ /\ vkKayit' = VkYeni /\ redisDegist' = (yon = "ileri")
          /\ \/ yon = "ileri" /\ adim' = "vkDogrula" /\ UNCHANGED sira
             \/ yon # "ileri" /\ adim' = DbGeriAdimi(yon) /\ sira' = 1
          /\ UNCHANGED <<vk, dbDegisti, ekDegisen, eksik, planVars, yon, ekKalan, kod, vuran>>
       \/ /\ Bozulur("valkey") /\ vk' = VkEski
          /\ VkDustu /\ UNCHANGED vkKayit
       \/ /\ Bozulur("yanit") /\ vkKayit' \in {vkKayit, VkYeni}
          /\ VkDustu /\ UNCHANGED vk
    /\ UNCHANGED <<db, dosyaVars>>

VkDogrula ==
    /\ adim = "vkDogrula"
    /\ \/ /\ ValkeyKabul(yeniEnv["redis"])
          /\ adim' = "envYaz"
          /\ UNCHANGED <<geriVars, planVars, yon, sira, ekKalan, kod, vuran>>
       \/ /\ (~ValkeyKabul(yeniEnv["redis"]) /\ UNCHANGED vuran) \/ Bozulur("yoklama")
          /\ GeriAl("hata")
    /\ UNCHANGED <<disVars, dosyaVars>>

EnvYaz ==
    /\ adim = "envYaz"
    /\ \/ /\ env' = yeniEnv
          /\ adim' = IF "db" \in kume THEN "hizala" ELSE "sil"
          /\ ekKalan' = IF "db" \in kume THEN Eklenti ELSE {}
          /\ UNCHANGED <<geriVars, planVars, yon, sira, kod, vuran>>
       \/ /\ Bozulur("dosya")
          /\ GeriAl("hata") /\ UNCHANGED env
    /\ UNCHANGED <<disVars, ek, bekleyen>>

\* eklentiDSNHizala: only a copy that is exactly the old DSN is rewritten; one
\* that cannot be written is a warning.
EkHizala(e) ==
    /\ adim = "hizala" /\ e \in ekKalan
    /\ ekKalan' = ekKalan \ {e}
    /\ \/ /\ ek[e] = eski["db"]
          /\ ek' = [ek EXCEPT ![e] = yeniEnv["db"]]
          /\ ekDegisen' = ekDegisen \cup {e} /\ UNCHANGED vuran
       \/ /\ (ek[e] # eski["db"] /\ UNCHANGED vuran) \/ Bozulur("dosya")
          /\ UNCHANGED <<ek, ekDegisen>>
    /\ UNCHANGED <<disVars, env, bekleyen, dbDegisti, redisDegist, eksik, planVars, adim, yon,
                   sira, kod>>

HizalaBitti ==
    /\ adim = "hizala" /\ ekKalan = {}
    /\ adim' = IF yon = "kurtar" THEN "kurtarSil" ELSE "sil"
    /\ UNCHANGED <<disVars, dosyaVars, geriVars, planVars, yon, sira, ekKalan, kod, vuran>>

\* A pending file that cannot be removed is a warning here.
Sil ==
    /\ adim = "sil"
    /\ \/ bekleyen' = BekleyenYok /\ UNCHANGED vuran
       \/ Bozulur("dosya") /\ UNCHANGED bekleyen
    /\ adim' = "yenilendi"
    /\ UNCHANGED <<disVars, env, ek, geriVars, planVars, yon, sira, ekKalan, kod>>

\* The end of basarisiz; an error of the removal is ignored.
GeriSil ==
    /\ adim = "geriSil"
    /\ \/ bekleyen' = BekleyenYok /\ UNCHANGED vuran
       \/ Bozulur("dosya") /\ UNCHANGED bekleyen
    /\ Bitir("basarisiz")
    /\ UNCHANGED <<disVars, env, ek>>

-----------------------------------------------------------------------------
(***************************************************************************)
(* sirYenileCLI after a rotation: restart the panel and watch its health,  *)
(* which needs a connection with the DSN in env; GeriDon when it is bad.   *)
(***************************************************************************)
\* No restart was asked for, or the panel is up on the new secrets.
Yenilendi ==
    /\ adim = "yenilendi"
    /\ Bitir("tamam")
    /\ UNCHANGED <<disVars, dosyaVars, vuran>>

SagliksizPanel ==
    /\ adim = "yenilendi"
    /\ ~DbKabul(env["db"]) \/ "saglik" \in Ariza
    /\ GeriAl("geridon")
    /\ UNCHANGED <<disVars, dosyaVars, vuran>>

\* Mutant of GeriEnv: the add-ons' files are forgotten.
GeriEnvEksiz ==
    /\ adim = "geriEnv"
    /\ \/ env' = eski /\ UNCHANGED <<eksik, vuran>>
       \/ Bozulur("dosya") /\ eksik' = TRUE /\ UNCHANGED env
    /\ adim' = "geriEk" /\ ekKalan' = {}
    /\ UNCHANGED <<disVars, ek, bekleyen, dbDegisti, redisDegist, ekDegisen, planVars, yon, sira,
                   kod>>

GeriEnv ==
    /\ adim = "geriEnv"
    /\ \/ env' = eski /\ UNCHANGED <<eksik, vuran>>
       \/ Bozulur("dosya") /\ eksik' = TRUE /\ UNCHANGED env
    /\ adim' = "geriEk" /\ ekKalan' = ekDegisen
    /\ UNCHANGED <<disVars, ek, bekleyen, dbDegisti, redisDegist, ekDegisen, planVars, yon, sira,
                   kod>>

GeriEk(e) ==
    /\ adim = "geriEk" /\ e \in ekKalan
    /\ ekKalan' = ekKalan \ {e}
    /\ \/ ek' = [ek EXCEPT ![e] = eski["db"]] /\ UNCHANGED <<eksik, vuran>>
       \/ Bozulur("dosya") /\ eksik' = TRUE /\ UNCHANGED ek
    /\ UNCHANGED <<disVars, env, bekleyen, dbDegisti, redisDegist, ekDegisen, planVars, adim, yon,
                   sira, kod>>

\* GeriDon reports what is incomplete; the panel is restarted and watched again.
GeriSaglik ==
    /\ adim = "geriEk" /\ ekKalan = {}
    /\ \/ /\ ~redisDegist /\ ~dbDegisti /\ ~eksik /\ DbKabul(env["db"])
          /\ Bitir("basarisiz")
       \/ /\ \/ redisDegist \/ dbDegisti \/ eksik
             \/ ~DbKabul(env["db"]) \/ "saglik" \in Ariza
          /\ Bitir("kritik")
    /\ UNCHANGED <<disVars, dosyaVars, vuran>>

Next ==
    \/ \E a \in {"yenile", "kurtar"}, k \in SUBSET Hedef : Basla(a, k)
    \/ Oldu \/ ValkeyYenidenBasla
    \/ KurtarOku \/ KurtarDb \/ KurtarRedis \/ KurtarEnv \/ KurtarSil
    \/ Hazirla \/ BekleyenYaz
    \/ Hostlar \/ Alter \/ AlterBitti \/ AlterDustu \/ DbDogrula
    \/ VkSet \/ VkSave \/ VkDogrula
    \/ EnvYaz \/ Sil \/ GeriSil
    \/ HizalaBitti \/ \E e \in Eklenti : EkHizala(e) \/ GeriEk(e)
    \/ Yenilendi \/ SagliksizPanel \/ GeriEnv \/ GeriSaglik

Spec == Init /\ [][Next]_vars

-----------------------------------------------------------------------------
(***************************************************************************)
(* What a rotation promises.  MariaDB's side survives everything but a     *)
(* rollback that fails itself; Valkey's side also needs that no reply was  *)
(* lost and that Valkey did not restart.                                   *)
(***************************************************************************)
DbTarafi == "geri" \notin vuran
ValkeyTarafi == vuran = {}

Gecerli(s) == (DbTarafi => DbKabul(s["db"])) /\ (ValkeyTarafi => ValkeyKabul(s["redis"]))

\* Nobody is locked out: when no command runs and no rotation is left half
\* done, MariaDB and Valkey accept what env says, whatever failed or died
\* between the calls ("kilitlenme yok", sirrota.go's header).
KilitlenmeYok == adim = "bos" /\ ~BekleyenVar => Gecerli(env)

\* As long as the pending file is there, one of the three values Kurtar tries
\* is in force, so that a later sir kurtar can get through.
Denenen(h) == {env[h], bekleyen.eski[h], bekleyen.yeni[h]}

Kurtarilabilir ==
    /\ DbTarafi /\ "db" \in bekleyen.hedef => db[DsnHost] \in Denenen("db")
    /\ ValkeyTarafi /\ "redis" \in bekleyen.hedef => vk \in Denenen("redis")

\* A rotation that ends with exit code 1 after it began to change something
\* leaves the old secrets in place ("1 failed (old secrets still in place)",
\* sir.go's usage text): env and the add-ons' files are what they were, and
\* the outside systems accept them.
BasarisizBiter == yon \in {"hata", "geridon"} /\ adim' = "bos" /\ kod' = "basarisiz"
DosyalarEski == env' = eski /\ \A e \in ekDegisen : ek'[e] = eski["db"]

EskidenKal == [][BasarisizBiter => DosyalarEski /\ Gecerli(env)']_vars

\* A rotation that ends with exit code 0 has put its targets' old secrets out of
\* use ("rotated: ...", sir.go): every host entry of MariaDB, the ones the
\* verification does not go through as well, Valkey's memory, its ACL file and env
\* hold the secret it has generated.  No fault is excepted.  Targets that were
\* left out, and what a panel that is not restarted still has in memory, are not
\* spoken of.
TamamBiter == adim # "bos" /\ adim' = "bos" /\ kod' = "tamam"

EskiGecmez ==
    [][TamamBiter =>
        /\ \A h \in kume : env'[h] = nesil
        /\ "db" \in kume => \A h \in Host : db'[h] = nesil
        /\ "redis" \in kume => vk' = nesil /\ vkKayit' = nesil]_vars
=============================================================================
