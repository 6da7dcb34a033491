# A verification development for girginos/gpanel

GirginOSPanel is a hosting control panel: one Go server process (`cmd/server`) with a MariaDB
database, a React frontend, and a family of helper processes. This directory holds TLA+ models of
the parts of it where a mistake is expensive and a test hardly reaches: steps of several actors
over shared state, crashes between two steps, and calls to the outside world that fail half way.

Five parts are modelled:

* the **off-site copies of backups** (`internal/backups/uzak` and what it touches): it deletes
  things for good, in two places, on its own, while requests, backup runs and restores use the same
  files and rows;
* the **backups of deleted accounts** (`internal/backups/silinen.go`): rows that outlive their
  account, are deleted by a nightly sweep or by hand, remote copies included, and are bound to a
  later account of the same customer, all without a lock that spans two statements;
* the **rotation of secrets** (`internal/sirrota`): passwords that live in four places which cannot
  be changed together, with a rollback and a recovery;
* the **migration queue** (`internal/tasima`): one slot, a dispatcher without a loop of its own,
  cancellations at any time;
* the **database governor** (`internal/dbgovernor`) against the plan (`internal/kaynaklimit`): two
  writers of one limit.

Contents: [inventory](#inventory) - [hard behaviours](#hard-behaviours) - [modules](#modules) -
[correspondence](#correspondence-with-the-code) - [runs](#runs) -
[disagreements](#disagreements-with-the-code) - [fairness](#fairness) - [proofs](#proofs) -
[abstractions](#abstractions-and-limits) - [not modelled](#not-modelled) - [plan](#plan) - [how to run](#how-to-run)

## Inventory

| Part (`src/...`) | State it keeps | Operations | Interacts with | What makes it correct |
|---|---|---|---|---|
| **Off-site copy queue and worker** `internal/backups/uzak/{kuyruk,isci}.go` | table `backup_uzak_kopyalar` (one row per backup and target: state, attempts, next attempt, remote name); in memory the running job and its cancellation | queue, retry, cancel; the worker: claim, encrypt, upload, verify, manifest, 'tamam', retention, outcome; start-up clean-up | Drive, local archives, requests, retention, local deletion | 'tamam' means a copy that can be restored, under the name the row records; cancellation is final; every row is decided; nothing stays half done |
| **Retention on Drive** `uzak/saklama.go` | rows 'tamam', 'siliniyor', 'silindi' | list candidates, delete data then manifest, purge old rows | worker, Drive | never the newest copy; 'silindi' leaves nothing under the name the row records |
| **Settings, bulk queueing, keys** `uzak/{ayar,otomatik,anahtar}.go` | one settings row; encryption keys | save, bulk queue, create/confirm/import a key | queue, worker | order of bulk queueing suits retention |
| **Local deletion** `uzak/yerelsil.go` | the archives on disk, `backups.yerel_yok`, `yerelSilMu` | classify, check use, check Drive, rename, re-check, remove, mark | worker, request, restores, backup runs | no archive goes without its copy; none goes while in use |
| **Local backups and schedules** `internal/backups/{backups,schedule,ilerleme}.go` | archives, `backups` rows, `yedekAktif`, progress records | create, delete, prune, scheduled runs, close hung jobs | all of the above | one run per domain; the record shows what runs |
| **Backups of deleted accounts** `internal/backups/silinen.go`, `domains/yik.go`, `domains.Create` | columns `silinme`, `iz_id`, `son_kullanma`, `alan_adi`, `domain_id` of `backups`; snapshots of targets (`backup_yetim_hedefler`); in memory the register of running deletions | mark at deletion, separate remnants from a new account, mark rows without an owner, sweep, delete by hand, bind | account deletion and creation, backup runs, remote targets | a live backup keeps its copies; nobody gets another customer's; the sweep takes only what is past its term; remote copies and passwords do not stay behind |
| **Restore, jobs** `internal/backups/{restore,jobs}.go` | `backup_jobs` rows, `calisanIsler` | restore one, restore many, stop | archives, progress records | an archive found stays until the restore ends; who closes a row |
| **Copy targets** `internal/backups/hedef`, `hedef/gdrive` | objects on Drive | upload in parts that can be resumed, list, download, delete | worker, retention, local deletion | one object per name; an answer says what happened |
| **Secret rotation** `internal/sirrota`, `cmd/server/sir.go` | a password per host entry in MariaDB; Valkey's in memory and in its ACL file; env; the add-ons' copies of the DSN; a pending file; a lock file | `sir yenile`, `sir kurtar`: generate, change, verify, write, roll back, watch the panel's health, go back, measure | MariaDB, Valkey, systemd | nobody is locked out after any failure or crash; recovery can measure; a failure means the old secrets |
| **Migration queue** `internal/tasima` | `tasima_isleri`, `tasima_kalemleri`; in memory the one slot (`aktifIsID`), `baslatMu`, `kilit` | start, cancel, cancel many, dispatch, run, release, clean up | source servers, sources' settings, accounts of resellers | one job at a time, one open job per owner; credentials go with the job; the queue moves |
| **Database governor** `internal/dbgovernor` | `db_cpu_kisit`; in memory `aktif`, `planAnlik`; MAX_USER_CONNECTIONS in MariaDB | measure, restrict, climb, verify, release, recover | MariaDB, plan requests through a hook | every restricted limit has a row, every row an owner; afterwards the plan is in force |
| **Support agent and hub** `internal/destek`, `cmd/destek-*` | connections, job orders, seen numbers | sign, check, run, revoke | hub, panel | an order runs at most once and never after revocation |
| **Reseller pools** `internal/bayikaynak` | systemd slices | reconcile, clean up | systemd | slices follow the database |
| **Transfer of accounts** `internal/toplu` | domains and owners | one transaction, then best effort | MySQL, files | ownership moves as a whole |
| **Port changes** `internal/portyonetim` | panel ports | change with verification and rollback | nginx, systemd | the panel stays reachable |
| **Scanners** `internal/{websec,antivirus,avmotor}`, `cmd/gosp-av*` | small queues in memory, findings | scan, quarantine | files | each site is scanned once per request |
| **Sessions and limits** `internal/{auth,middleware}` | maps in memory | log in, count, expire | requests | limits hold |
| **Provisioner, domains, subdomains, hosted applications, DNS, WordPress, Laravel, PHP, optimisation** | generated files | render, reload | external tools | the file matches the row |
| **Plans, quotas, limits** | configuration rows | arithmetic | provisioner | limits add up |
| **Frontend, WHMCS plug-in, installers** | - | user interface, scripts | HTTP interface | - |

`PROJECT.json` lists every part with its status and the reason when it is not modelled.

## Hard behaviours

* **Two locks for one fact.** The worker holds `Isci.mu`; local deletion holds `yerelSilMu`. The
  worker takes both one inside the other, the administrator's one-off cleaning only the second.
* **Check, then act.** Every condition of a local deletion is read before the rename; two of them
  (use, and the state of the file) are read again.
* **Status writes that may be lost.** Most `UPDATE`s of the worker are ignored or only logged when
  they fail; only the one to 'tamam' is an error of the job.
* **Half-applied calls.** An upload reported as failed may have replaced the object; a deletion may
  have been applied and reported as failed. A context may be cancelled at any step.
* **Crash at any point.** Rows, objects and renamed archives survive, goroutines and locks do not.
* **Two orders.** Backups have one order, queue rows another; retention uses the second.
* **Places that cannot change together.** A secret's value is in a service (once per host entry), in
  a service's own file, in env and in copies of env. Between any two writes the process may die.
* **Identity that is reused.** A row that outlives its account is known by an id, and the database
  gives the ids of deleted accounts out again after a restart; late backups are written under an id
  whose account may be gone or another's.
* **A register beside row locks.** Deleting an orphan talks to a remote store, so it cannot hold a
  row lock; a register in memory and the binding's row locks have to order the two.
* **Undoing.** A rollback runs over the same calls that have just failed.
* **A dispatcher that must be called.** Nobody polls the migration queue: each release, start and
  request has to call `dagit`, and a call that finds the slot taken does nothing.
* **Two writers of one value.** The plan and the governor both write a user's limit. A hook tells
  the plan's request what the governor wants, but the value is written after the hook returned.
* **Shared records.** One progress record per domain is opened and closed by restores and by
  manual backups, after a look at it and without a lock; a job is known by a row, by a map and by a
  goroutine, which do not change together.
* **A name per attempt.** The name of an object on Drive is made of the folder in the settings of the
  attempt; the row records one name.
* **Uploads nobody waits for.** A backup's upload to its remote target runs on for up to half an hour
  after its row was written, whatever becomes of the row.

Each of them is listed at its line under `hazards` in `PROJECT.json`, with the properties that
would catch it, or with the reason why none does yet.

## Modules

| Module | What it is |
|---|---|
| `UzakKopya` | Queue, worker, retention, requests, settings with the folder on Drive, crash and restart, for one domain and one Drive target. |
| `YerelSil` | Extends `UzakKopya`: the two cleaners and everything that uses a local archive (backup runs, restore requests, a restore job). `UzakKopya`'s actions are used unchanged; the moves of local archives it leaves open (`YerelDegisir`) are made by the cleaner. |
| `YedekSozlesme` | The abstract specification: where each backup is kept ("yerel", "drive"), which of them somebody has asked to delete, and which steps may empty which place. `YerelSil` implements it through the refinement mapping `Sozlesme`. |
| `MCUzakKopya`, `MCYerelSil` | The settings records the runs use. |
| `UzakKopyaKanit` | The proofs about `UzakKopya`. |
| `YerelSilKanit` | The proofs about `YerelSil`, over those of `UzakKopyaKanit`. |
| `SilinenYedek` | The backups of deleted accounts: one system user whose account is deleted, created again and bound to; backup runs, the separation of remnants, the marking turn, the sweep, the administrator's deletion; uploads under way; failed calls and restarts. |
| `SilinenYedekKanit` | The proofs about it. |
| `SirYenile` | Secret rotation: one command at a time over MariaDB, Valkey and the files, with a set of faults (`Ariza`) that may strike at each call. |
| `SirYenileKanit` | The proofs about it. |
| `TasimaKuyruk` | The migration queue: requests, cancellations, dispatcher, job goroutines, crash and start-up. |
| `KuyrukSozlesme` | The abstract specification of a queue with one slot: oldest first, one job per owner, and what has left never comes back. `TasimaKuyruk` implements it through the refinement mapping `Sozlesme`. |
| `TasimaKuyrukKanit` | The proofs about `TasimaKuyruk`. |
| `DbKisici` | One database user's restriction: the governor's turns, step by step, the plan's request and its hook, failed calls, crash and recovery. |
| `DbKisiciKanit` | The proofs about it. |

`SirYenile`, `TasimaKuyruk` and `DbKisici` share nothing with each other or with the backups but the
process they run in, so they are not composed. `SilinenYedek` deletes on the customer's or the
general target through `destination.go` and never looks at the off-site queue; what it shares with
`YerelSil` is the archive on the disk, which it takes only from rows no account has any more, while
local deletion takes it only from rows of live accounts.

## Correspondence with the code

State of `UzakKopya`:

| Variable | In the code |
|---|---|
| `durum`, `isNo`, `deneme`, `geriCekilen`, `uzakAd`, `manifestAd` | columns `durum`, `id`, `deneme`, `sonraki_deneme` (in the future or not), `uzak_ad` and `manifest_ad` (the folder in each, or empty) of `backup_uzak_kopyalar`; the unique key (backup, target) lets the backup name the row |
| `sonIs` | the table's AUTO_INCREMENT |
| `ayar`, `isAyar` | the settings row, and the copy `Bir` read before the job |
| `yedek`, `dosya` | the `backups` row; the archive at its own name |
| `silIstek` | the deletions of backups under way, between `yedekKaydiniYokEt`'s call of the remote targets and its `os.Remove` |
| `veri`, `manifest` | the two objects on Drive under each name, a pair of backup and folder (`UzakAdUret`); "saglam" is the object that passes verification |
| `adim`, `is`, `hata`, `adaylar`, `aday` | where the worker goroutine stands between two steps others can see, and its local variables |
| `calisan`, `iptalIst` | `Isci.calisanID`, `Isci.iptalIst` (the cancelled context) |
| `cokme`, `istek` | bounds |

Actions follow the code's order. `IsAl` is `Bir` up to the claim, `Basla` publishes the job,
`Sifrele`, `Yukle`, `Dogrula`, `ManifestYaz` and `Tamamla` are the stages of `isle`,
`SaklaListele`, `SaklaSec`, `SaklaVeriSil`, `SaklaManifestSil` and `SaklamaSon` are `SaklamaUygula`,
`Sonuclandir` is the end of `Bir` with `durumYaz` and `basarisiz`, `Acilis` is
`YarimlariSifirla`. A step ends where another actor, the database, Drive or a crash can come
between. Requests: `KuyrugaAl` (the hook after a backup, `SimdiGonder`, `TopluKuyrugaAl`),
`YenidenDene`, `IptalEt`, `AyarDegistir`, `SilIste` and `KayitSil` (the two halves of
`yedekKaydiniYokEt`). `IsAdi` is the name of an attempt, with the folder of the settings `Bir` read
(`isci.go:420`); `UzakAdi` is the name the row records, which may be an earlier attempt's when the
write of `isci.go:441` was lost.

`YerelSil` adds the cleaners as a function `temiz` from cleaner to step, cached list, cached rank
result and settings; `kilit` is `yerelSilMu`; `silinecek` are the archives under their
".silinecek-" name; `uretim`, `ilerleme`, `geri`, `isGeri`, `isSatir`, `isKayit` and `isIptal` are
`yedekAktif`, the progress record, the restore requests, the restore job's goroutine, its row, its
entry in `calisanIsler` and its context. A restore request looks at the progress record (`GeriBasla`),
opens it in a step of its own (`GeriAc`: `restore.go:314-319` takes no lock), finds the archive
(`GeriBulur`), closes the record when it has read it (`GeriOkudu`) and closes it once more in its
deferred function (`GeriBiter`), whoever's it is by then. `Sec`, `UzakDogrula`, `Tasi`, `Yokla`, `Kaldir` and
`Isaretle` are `yerelSilBir`; `Listele` is `yerelKayitlari` with `siniflandir`.

`SilinenYedek`:

| Variable | In the code |
|---|---|
| `domain`, `sonKimlik` | the `domains` table, by id, and its AUTO_INCREMENT, which a restart may set back to the greatest id in use |
| `durum`, `kimlik`, `iz`, `sahip`, `sure` | `silinme` (NULL or not), `domain_id`, `iz_id`, `alan_adi` with `reseller_id`, `son_kullanma` of a `backups` row |
| `dosya`, `uzak`, `yukleme` | the archive on the disk, its remote copy, its upload under way |
| `anlik` | `backup_yetim_hedefler` by `iz_id`: order, old id, whose target was copied |
| `sil` | `HostingYik` with its `SilinenIz` |
| `uretim`, `kal`, `isaret` | a backup run; `YetimKalintilariniAyir` in `domains.Create`; `SilinenSahipsizIsaretle` with its map from old id to mark |
| `silici` | `SilinenSupur` and `SilinenSil`: the list read, the row in work, the target found, the marks whose target could not be reached |
| `bag` | `yetimleriBaglaBir`'s transaction and what follows it |
| `asil`, `kalan`, `onayli`, `goruntulu`, `listedeyken`, `gec`, `yuklenirken` | history for the properties |

`YedekBasla` and `YedekKaydet` are a backup run up to its row; `YedekKaydet` starts the upload and
`YuklemeBiter` ends it, with the copy there or not (`pushToDestination`, in a goroutine from
`jobs.go:127`, in the request's own slot from `backups.go:356-365`; nothing that deletes waits for it).
`SilHazirla`, `SilDomain`, `SilAnlik` and `SilYaz` are `SilinenIzHazirla`, the DELETE in `HostingYik`
and the two halves of `SilinenIz.yaz`. `YeniDomain`, `KalListele`, `KalIz`, `KalYaz` and `KalDevral`
are `domains.Create` from its INSERT on. `IsaretAcilis`, `IsaretIz` and `IsaretYaz` are the turn.
`SupurIsaretle` and `SupurListele` are the head of `SilinenSupur`, `UcBasla` that of `SilinenSil`; both
then take row after row through `Sec`, `Dogrula`, `UzakSil`, `SatirSil` and `Bitir`
(`yetimYedegiSil`), with the register (`Defter`) holding the row from `Sec` to `Bitir`. `BagBasla`,
`BagKilitle`, `BagDefter`, `BagYaz` and `BagBitir` are a binding: lock the account and the orphans,
read the register, UPDATE and commit, drop the snapshots nobody needs. `BagKilit` is what the
transaction's row locks keep from the others: `Dogrula` and `SatirSil` wait for it.

`SirYenile`:

| Variable | In the code |
|---|---|
| `db`, `vk`, `vkKayit`, `env`, `ek` | the password of each host entry, Valkey's in memory and in the ACL file, `/etc/girginospanel/env`, the DSN in the add-ons' env files; a secret is the number of the rotation that made it |
| `bekleyen` | the pending file (`bekleyenKayit`) |
| `adim`, `amac`, `yon` | where the command stands; `sir yenile` or `sir kurtar`; forwards, `geriAlDis` after a failure, or `GeriDon` |
| `eski`, `yeniEnv`, `kume` | `envEski`, env with `degisim`, the chosen targets |
| `dbDegisti`, `redisDegist`, `ekDegisen`, `eksik` | `geriBilgi` |
| `kod`, `vuran` | how the last command ended; history of the faults the code does not provide for |

`KurtarOku` to `KurtarSil` are `Kurtar` (which `sir yenile` runs first as well), `Hazirla` to `Sil`
are `Yenile`, `GeriAl` and what follows it is `geriAlDis`, `GeriEnv`/`GeriEk` are `GeriDon`,
`Yenilendi`, `SagliksizPanel` and `GeriSaglik` are `sirYenileCLI` after it. The rollback uses the
same actions `VkSet`, `VkSave` and `Alter` as the rotation, with `yon` telling them apart.

`TasimaKuyruk`: `durum`, `sahip`, `kimlik` and `bekleyen` are columns of `tasima_isleri` and the
count of its waiting items; `istek` and `baslatMu` the requests in `Baslat`; `cagri` and `dagitan`
the calls of `dagit` waiting for and holding `kilit`; `aktif` and `iptalli` are `aktifIsID` and the
cancelled contexts; `iptalci` the requests in `Iptal` that found the job not running and have not
yet written; `is` the goroutine of each job. `Baslat` to `BaslatBitir` are `Handlers.Baslat` from
the lock on, `Iptal` and `IptalYaz` the two halves of a cancellation, `TopluIptal` the two
statements of `ayar.go`, `DagitBasla`, `DagitSec` and `DagitAl` are `dagit`, `Yukle`, `Dongu`,
`Aktar`, `Panik`, `YuvaBirak` and `KimlikSil` are `isYurut`, `calistir` and `yuvaBirak`,
`AcilisKes` and `AcilisTemizle` are `AcilistaTemizle`.

`DbKisici`: `sinir` is MAX_USER_CONNECTIONS per host entry, `kayit` the open row, `aktif` and
`planAnlik` the governor's maps, `plan` what `PlanBaglanti` resolves, `uyg` the plan's request.
`Tirman` to `KisitBitti` are `kullaniciKisitla`, `Seviye3*` `seviye3Sinir`, `Dogrula*`
`dogrulaPass`, `BirakSec` `birakPass`, `Birak` to `Kapat` `birak`, `TurBitti` `yazPass`, `UygSor`
the hook and `UygYaz` the ALTER of `MySQLLimitUygula`. `AlterDongu` is the loop over host entries
the four passes share. `kisitli`, `guncel` and `vuran` are history: which entries hold a
restriction's value, whether the plan was applied since it changed, and what struck that the code
makes no provision for.

## Runs

All runs but `tasima` and `silinen` check for deadlock: the migration queue may really stop, with
every job ended and no more jobs or crashes allowed, and so may `silinen`, with both backups deleted,
no account left and nothing for a sweep to do. Bounds are constants of the modules and appear in the guards of the
actions they bound.

| Run | Bounds | Distinct states | Shows |
|---|---|---|---|
| `kuyruk` | 2 backups, 2 folders on Drive, 2 attempts, 2 row numbers, 1 crash, 1 request (a manual retry, the deletion of one of the backups or a change of the folder); sending stays on, one copy kept and none past the age limit; no lost writes; nothing moves archives | 1.3 M | `TypeOK`, `TamamSaglam`, `TamamBulunur`, `SilindiTemiz`, `TekKosan`, `IptalKesin`, and under fairness `KuyrukIlerler` |
| `yerelsil` | 2 backups, one of which may lose its archive by request or to the cleaner, 1 folder, 1 attempt, 1 crash, 2 row numbers, the worker's cleaner, system backup runs; 1 request (the deletion or a manual retry); local deletion stays on, one copy kept on Drive and none past the age limit; lost writes | 1.6 M | `YTypeOK`, `TamamSaglam`, `SonKopyaKorunur`, `YerelKopyasizSilinmez`, and `SozlesmeyeUyar`: the system implements `YedekSozlesme` |
| `yerelgeri` | 1 backup, 2 attempts, both cleaners, 1 restore request at a time and 1 restore job, 1 stop request, 1 deletion of the backup or manual retry, system backup runs, 1 crash; no lost writes | 2.4 M | `OkunanSilinmez`, `IsOkunanSilinmez` |
| `silinen` | 2 backups, one there at the start; 1 id, 2 marks, 2 customers of whom one has a target of its own, 1 fault of any kind or restart, 2 things under way at a time beside the uploads, 1 request | 1.4 M | `TypeOK`, `BaskasinaVerilmez`, `CanliKopyaKorunur`, `SupurYalnizDolan`, `UzakKopyaSilinir`, and under fairness `ParolaKalmaz`, `SahipsizIsaretlenir` |
| `sir_yenile` | 2 host entries, the DSN matched with the second, 1 add-on, 2 rotations of any targets, every fault at any call any number of times | 0.9 M | `TypeOK`, `KilitlenmeYok`, `Kurtarilabilir`, `EskidenKal`, `EskiGecmez` |
| `tasima` | 2 jobs, 2 owners, 2 requests at once, 1 item per job, 3 tries, 1 crash | 0.4 M | `TypeOK`, `TekYuva`, `SahipTekAcik`, `SahipsizYok`, `KimlikKalmaz`, `UyandirmaKaybolmaz`, `BitenBaslamaz`, under fairness `KuyrukIlerler`, and `SozlesmeyeUyar`: the queue implements `KuyrukSozlesme` |
| `dbkisici` | 2 host entries, plans of 1 and 5 connections around a restriction of 2, 2 faults, 1 change of plan | 2.5 M | `TypeOK`, `KisitKayitli`, `KayitSahipli`, `PlanGecerli`, and under fairness `KalintiKalkar` |
| `saklama_yeni`, `yerel_yaris`, `yerel_okuma`, `is_durdur`, `dbkisici_plan` | small | - | the five disagreements below |

Why these bounds are enough. Two backups are the fewest for which "newest", "older" and "the queue
behind" mean something; row numbers let either be queued first. Two attempts give a retry that keeps
its row and a last attempt that closes it; two folders and one change of the folder give attempts of
one row under two names, the change before, between or during them. `kuyruk`
checks the queue by itself (`KuyrukSpec`), in which no archive is moved: a job may fail at its first step
anyhow, and archives that the cleaner moves are what `yerelsil` is for, which in turn has one folder. One crash
reaches every point between two steps and lets recovery meet each half-done state; further crashes
start from states one crash already reaches, and the proofs have no bound at all. A safety property
that held only because of the bounds of a run would differ from its theorem, which holds for every
value of the constants; every safety and action property of the passing runs has one.

In `silinen`, one id is enough for its reuse: the account is deleted, the panel restarts (or has just
started with the row gone) and a customer, the same or another, gets the id. Two marks let a deletion
and a turn make one each. The second backup is the one that is taken late or bound beside the first.
Two things under way at a time meet in every pair. The threshold of the marking turn
(`sahipsizEsikAdet`) is above two rows and so never stops the turn here; where it does, nothing is
promised. The safety properties were also explored, without a violation, over the first 14.6
million states of a larger instance (2 ids, 3 marks, 2 faults, 2 requests), which was not exhausted; the
theorems have no bounds.

In `sir_yenile`, two host entries give a loop that breaks half way, and the second of two rotations
starts from what the first left, a pending file of a dead command included. In `tasima`, two jobs
are the fewest of which one can wait for the other's slot; a third row cancelled under the
dispatcher would only be another `vazgecti`. A job the dispatcher has chosen is overtaken, in a model that chooses
without order, as soon as two wait, so the two jobs are enough for `SozlesmeyeUyar` too. In `dbkisici`, one plan lies below the restriction and
one above; two faults reach a release that fails and is interrupted.

`yerelgeri` leaves out the manual backup run and a second restore request beside the first, each of
which breaks `OkunanSilinmez` (run `yerel_okuma`, disagreement 3). A restore job is protected by its
open row only: `IsOkunanSilinmez` speaks of jobs whose row is open, and that a stop request can close
the row of a job still at work is shown by `is_durdur`. `yerelsil` leaves out the second cleaner (run
`yerel_yaris`). What holds is therefore stated for the system without them, and what fails is shown.

Each property of a passing run has a mutant: a plausible mistake in the code (trusting the upload,
ignoring a failed deletion, a name kept from an earlier attempt, an age rule that takes the newest copy,
a deletion of the whole directory, a restart that forgets a state, an attempt that is not counted, a missing second look) under which
the run finds the property violated. The mutants are the definitions marked "Mutant of".

## Disagreements with the code

1. **Retention ranks by queue row** (`uzak/saklama.go:40`; run `saklama_yeni`). An older backup
   queued after a newer one has the newer row. With one copy to keep, retention deletes the newest
   backup's copy. `uzak/otomatik.go:234-235` says bulk queueing is ordered so that retention keeps
   the newest backups, and the settings page says the newest copy of each domain is kept. What does
   hold, and is proved, is `SonKopyaKorunur`: the copy with the newest *row* stays.
2. **Two locks** (`uzak/yerelsil.go:448`; run `yerel_yaris`). The administrator's cleaning run has
   seen the copy on Drive; before it removes the archive, the worker's retention deletes that copy.
   Both copies of the backup are gone, against rules 1 and 8 at the head of `yerelsil.go`. The
   worker alone cannot do this (run `yerelsil`): it cleans between its jobs.
3. **One progress record for several operations** (`backups.go:277`; run `yerel_okuma`). A manual
   backup started during a restore replaces the restore's record; when the backup ends, the record
   is closed and the domain counts as unused while the restore still opens the archive by name.
   Rule 7 of `yerelsil.go` says an archive in use is not deleted. Two restore requests of one domain
   do the same without any backup: `restore.go:314-319` looks at the record and opens it without a
   lock, so both get in; they share one record, and the first to end closes it (its deferred function
   does not know whose it is) while the other still reads. `yerelgeri` with two
   requests in `GeriIstek` finds the property violated in the same way.
4. **A job stopped twice** (`jobs.go:561`; run `is_durdur`). The first stop request forgets the job,
   the second takes it for a hung one and closes its row, which the comment above says only the
   goroutine does for a live job.
5. **The hook's answer is written late** (`kaynaklimit/kaynaklimit.go:688`; run `dbkisici_plan`).
   A request that applies the plan asks the hook while the restriction is in force and is told the
   restriction's value. The governor then releases: it writes the plan's value and closes the row.
   Now the request's ALTER lands, with the restriction's value, and nothing will ever raise it
   again but the next application of the plan. No call fails on the way.
   `dbgovernor/inceleme_test.go:115-116` says a plan applied during a release must not leave the
   low limit; the test covers the order in which the hook is asked after the release began.

Met while modelling, and kept as provisos of the properties rather than runs of their own:

* The folder on Drive is read for each attempt (`isci.go:420`). When it is changed between two
  attempts, what the earlier one uploaded, object or manifest, stays in the old folder, and
  no row records its name any more: retention never finds it, whatever becomes of the row. `SilindiTemiz`
  is therefore stated for the name the row records.
* The write that records the name is one of those whose error is ignored (`isci.go:441`). When it is
  lost, the row becomes 'tamam' with the name of an earlier attempt, or with none: the copy is there and
  verified, but a restore looks elsewhere (`coz.go`), and retention and local deletion, which compare the two
  names, leave the row alone. `TamamBulunur` is stated for a database that does not lose writes.
* A cancellation lives in memory until the job ends. One that was accepted and then lost in a crash is
  forgotten: the start puts the row back into the queue (`IptalKesin` says what holds while the panel
  lives).
* A reply of Valkey that is lost (`sirrota.go:349`) leaves Valkey with the new password while
  `Yenile` returns an error; the rollback skips Valkey and removes the pending file. The comment at
  `sirrota.go:232-233` says the services are in their old state when it returns an error. Valkey's
  side of `KilitlenmeYok`, `Kurtarilabilir` and `EskidenKal` is stated for `vuran = {}`, and MariaDB's side for `"geri" \notin
  vuran`: a rollback that fails itself also removes the pending file (`sirrota.go:316-320`), although the
  message of exit code 3 (`sir.go:250`) sends the administrator to `sir kurtar`.
* A crash between env and the add-ons' files is recovered without them (`sirrota.go:515-529`).
* `dagit` that meets a database error gives up, and nobody calls it again before the next job
  (`tasima/kuyruk.go:54`): the exception in `KuyrukIlerler`.
* Backups of deleted accounts. The marking turn marks row by row, and `yetimHedefBittiyse`
  (`silinen.go:726`) does not look, as the nightly clean-up does (`silinen.go:743`), whether unmarked
  rows of the account still wait for the snapshot: it may go with the first row, and the later ones
  are marked without it. The turn may also come between the DELETE of an account and its snapshot,
  with the same result. `UzakKopyaSilinir` is therefore stated for rows whose target was copied.
* No deletion waits for an upload (`destination.go:610`), which may take 30 minutes. A backup that
  becomes an orphan while its upload runs can be deleted by an administrator at once: the remote copy is
  deleted, then the upload ends, and the copy stays with no row that names it (exception
  `yuklenirken`, which only the administrator's deletion has: the sweep's rows are past a term of
  whole days).
* The sweep's list may be 20 minutes old and `yetimHalaYetim` does not look at the term: a row bound
  and orphaned again meanwhile is deleted with its new term unexpired (exception `listedeyken`).
* A binding's UPDATE takes every row that matches at that moment, also rows that became orphans after
  it had locked its rows and read the register, although a deletion may be at their remote copy
  (exception `gec`; `silinen.go:61-63` names only the two other orders).
* When separating the remnants of an earlier account fails (`silinen.go:498-547`), they stay with the
  new account (exception `kalan`).
* `birak` writes back twice and no more (`eylem.go:463`); an unreadable plan counts as none
  (`eylem.go:410`); a row that cannot be closed after nothing was applied keeps its user from being
  restricted until the next start (`eylem.go:284`).

## Fairness

`UzakKopya`: only `KuyrukIlerler` needs fairness, and `AdilSpec` (over `KuyrukSpec`) states what the scheduling gives:
`WF_vars(Bir)` - the worker's loop runs on a thread of its own and looks at the queue at least every
30 seconds (`Calistir`), and a step of a job ends because it runs under a timeout; `WF_vars(Acilis)` -
systemd restarts the panel; `WF_vars(SureDoldu(b))` - time passes the next attempt. Nothing is
assumed of requests, of settings, or of a step's success. Settings that switch sending off stop the
queue by design, so the run keeps them on. Retries are bounded, because a user who retries for ever
keeps a row waiting for ever.

`SilinenYedek`: `AdilSpec` lets every request, turn and deletion that has started go on (goroutines
under a time limit per call), and gives strong fairness to the start of the nightly sweep: the
scheduler calls it every night, and only the bound on what is under way at a time could keep it away
in the model. No other start, no success of a call and no end of faults is assumed; faults are bounded.

`TasimaKuyruk`: `AdilSpec` lets the panel be restarted, requests inside `Baslat` and goroutines run
on, and gives strong fairness to whoever waits for `kilit` (`DagitBasla`, `YuvaBirak`), since a
`sync.Mutex` hands itself to a waiter that has starved for a millisecond. Nothing is assumed of
cancellations, of the success of a statement, or of how a job ends; that a transfer ends is the
time limit of each of its steps.

`DbKisici`: restart of the panel and the governor's goroutine (`WF_vars(Motor)`), each of whose
calls has a time limit. Faults are not assumed to stop, they are bounded; the plan's requests need
no fairness.

## Proofs

`UzakKopyaKanit` proves, for every number of backups, every set of settings, every number of
attempts and every bound:

| Theorem | States |
|---|---|
| `TipDogru` | `Spec => []TypeOK` |
| `TamamSaglamDogru` | `Spec => []TamamSaglam` |
| `TamamBulunurDogru` | `Spec => []TamamBulunur`, assuming `DbHatasi = FALSE` |
| `SilindiTemizDogru` | `Spec => []SilindiTemiz` |
| `SonKopyaKorunurDogru` | `Spec => SonKopyaKorunur` |
| `IptalKesinDogru` | `Spec => IptalKesin` |
| `TekKosanDogru` | `Spec => []TekKosan`, assuming `DbHatasi = FALSE` |

They rest on the named assumptions about the constants in `UzakKopya` (numbers are natural, the
sets of backups are subsets of `Yedek`, settings are records in their ranges) and nothing else.

`Spec` is the queue beside something that may move archives at any time; the queue by itself, which
`kuyruk` checks, implements it (`KuyrukUygular`).

The argument is a chain of inductive invariants.

* `TipInv` is `TypeOK` with "the worker holds a job exactly between claim and outcome"
  (`IsTutulur`). `TypeOK` alone is not inductive: the outcome step writes to the row of `is`, which
  must be a backup.
* `KopyaInv` adds what each step of the job knows of its row (`IsDurumu`: half done until 'tamam',
  verified before the manifest, manifest before 'tamam', half done at the end exactly when the job
  failed) and what retention knows of the copy it deletes (`SaklamaDurumu`). The upload overwrites
  an object, so `TamamSaglam` needs to know that the row it overwrites is not 'tamam'.
* `SaklamaInv` adds that rows have distinct numbers (`NoTekil`) and that, beside the candidates
  still to visit, the newest 'tamam' row is not among them (`KalanKopya`). Candidates are a cached
  list, so the property of one step needs this memory. Two lemmas carry it: a nonempty set of
  backups has one with the largest row number (`EnBuyuk`), and that one is never a candidate
  (`EnYeniAdayDegil`).
* `TekInv` is `KopyaInv` with `TekKosan`, for a database that does not lose writes.
* `BulunurInv` is `KopyaInv` with `TamamBulunur` and with what carries it (`AdYazili`): once the job has
  encrypted the archive, its row records the name of this attempt, whatever folder the settings name by
  now, until 'tamam' puts the manifest's name beside it.

An object's name has the backup in it, so two rows never share one; that a row's own attempts may use
several is why `IsDurumu` speaks of the name of the attempt (`IsAdi`) and `SaklamaDurumu` of the
recorded one (`UzakAdi`).

The invariants were checked with TLC on the instance of `kuyruk` as well.

`YerelSilKanit` proves, for every number of backups, every set of settings and every bound:

| Theorem | States | Assuming |
|---|---|---|
| `YerelKuyruguUygular` | `YSpec => Spec`: the system with both cleaners, restores and backup runs is still the queue of `UzakKopya` | - |
| `KuyrukSozuYerelde` | `YSpec => []TamamSaglam /\ []SilindiTemiz /\ SonKopyaKorunur /\ IptalKesin`, under lost writes too | - |
| `YTipDogru` | `YSpec => []YTypeOK` | - |
| `YerelKopyasizSilinmezDogru` | `YSpec => YerelKopyasizSilinmez` | `Temizleyici \subseteq {"isci"}` |
| `IsOkunanSilinmezDogru` | `YSpec => IsOkunanSilinmez` | - |
| `OkunanSilinmezDogru` | `YSpec => OkunanSilinmez` | `"manuel" \notin Uretici` and `\A r, s \in GeriIstek : r = s` |
| `SozlesmeyeUyarDogru` | `YSpec => SozlesmeyeUyar` | `Temizleyici \subseteq {"isci"}` |

The assumptions are those under which the properties hold of the code at all: with the administrator's
cleaning run `YerelKopyasizSilinmez` and `SozlesmeyeUyar` fail (run `yerel_yaris`); with a manual backup
run (run `yerel_okuma`) or a second restore request `OkunanSilinmez` does. They are hypotheses of the
theorems, not of the module.

* `YerelKuyruguUygular` is a refinement without a mapping: `YerelSil` keeps all of `UzakKopya`'s
  variables, and each of its steps is one of `UzakKopya`'s or leaves them alone. So whatever is proved
  of the queue holds here, and `SaklamaInv` may be used as an invariant below.
* `YInv` adds `TemizDurumu` (only the holder of `yerelSilMu` is at work, on an archive it has chosen;
  between its two renames the archive is under its second name) and `DosyaDurumu` (an archive has one
  name, and only a backup that was taken has an archive or a queue row). `YTypeOK` is not inductive
  without the first.
* `IsciTemizDurumu` is what makes the cached answers of the cleaner good: while the worker cleans it
  does nothing else, so the rows it found 'tamam' stay so until the removal, four steps later. A copy
  of such a row is verified (`TamamSaglam`), which gives `YerelKopyasizSilinmez`.
* `IsOkumaDurumu` and `OkumaDurumu` are the argument for the second look: whoever reads the archive has
  an open row, or has opened the domain's progress record; the archive was already under its other name
  when the cleaner looked again, so who comes later does not find it. That the record stays open while
  the request reads (`KayitAcik`) is what the two hypotheses of `OkunanSilinmezDogru` are for.
* For the refinement, each step is shown to be `Olustur`, `Gonder`, `YerelBosalt`, `DriveBosalt`,
  `Iste`, `KullaniciSil` or `Unut`, or to change none of the three mapped variables. The contract lets an
  archive go in two ways only: the cleaner's, with the copy on Drive, and that of a deletion somebody
  has asked for, of that backup alone and once per request. The step of
  retention needs `KalanKopya`, that of the cleaner `IsciTemizDurumu`; an upload
  changes nothing, because a backup is on Drive, in the mapping, from the moment its row is 'tamam'.

`SirYenileKanit` proves, for every number of host entries, set of add-ons, set of faults and number
of rotations:

| Theorem | States |
|---|---|
| `TipDogru` | `Spec => []TypeOK` |
| `KilitlenmeYokDogru` | `Spec => []KilitlenmeYok` |
| `KurtarilabilirDogru` | `Spec => []Kurtarilabilir` |
| `EskidenKalDogru` | `Spec => EskidenKal` |
| `EskiGecmezDogru` | `Spec => EskiGecmez` |

Its inductive invariant `SirInv` says, for every point of the command, what each place holds. Without
it nothing can be proved: the promises speak of the idle command and of the pending file, and what
makes them true happens in between.

* `YapiInv` ties `yon`, the targets, the files, the flags of `geriBilgi` and the add-ons' files to
  the point the command has reached: for example, env is still `eski` until `EnvYaz`, and from
  `BekleyenYaz` until the file is removed the pending file holds `eski` and `yeniEnv`.
* `DbDurumu` says which host entries hold which password: before `dbDegisti` all accept `eski`,
  during the loop those below `sira` have the value being written, after it the DSN's entry accepts
  it. It is stated under `DbTarafi`, that is unless a rollback has failed.
* `VkDurumu` says of Valkey's password in force which of the two it is, under `ValkeyTarafi`.
* `YeniDurumu` is for `EskiGecmez`, the promise that needs no proviso: going forwards, the host entries
  the loop has passed hold the new password, after it all of them, and after ACL SAVE both of Valkey's
  copies, so that a restart of Valkey changes nothing. A fault cannot break this, it turns the command
  round.

`TasimaKuyrukKanit` proves, for every set of owners and requests and every bound:

| Theorem | States |
|---|---|
| `TipDogru` | `Spec => []TypeOK` |
| `TekYuvaDogru` | `Spec => []TekYuva` |
| `SahipTekAcikDogru` | `Spec => []SahipTekAcik` |
| `SahipsizYokDogru` | `Spec => []SahipsizYok` |
| `KimlikKalmazDogru` | `Spec => []KimlikKalmaz` |
| `BitenBaslamazDogru` | `Spec => BitenBaslamaz` |
| `UyandirmaKaybolmazDogru` | `Spec => []UyandirmaKaybolmaz` |
| `SozlesmeyeUyarDogru` | `Spec => SozlesmeyeUyar` |

The inductive invariant adds to the properties: only the holder of `baslatMu` is inside `Baslat`, and
the owner it has counted has no open job; rows beyond the AUTO_INCREMENT do not exist; a goroutine
stands only on a row that was claimed, while the panel is up, and before its end its row is
'calisiyor'; a panel that is down has nothing in memory. `SahipTekAcik` needs the second of these (the
count is cached between two statements), `TekYuva` that `dagit` holding `kilit` found the slot free
and that nobody but `dagit` takes it.

`UyandirmaKaybolmaz` is the safety half of `KuyrukIlerler`: while a job waits, a call of `dagit` is on
its way or under way, a request is about to make one, or a goroutine has not ended. It needs `YuvaDolu`
(a slot that is taken belongs to a goroutine that will give it back), because a call that finds the slot
taken just returns. `SozlesmeyeUyar` needs `SiraliDagit`: the job `dagit` has chosen is not younger than
any that waits, until its UPDATE, because what enters the queue meanwhile has a larger number. Each step
is then shown to be an entry, a start, an end or a withdrawal of `KuyrukSozlesme`, or to change none of
the mapped sets; that a start finds nobody running is `SahipsizYok` with `TekYuva`, and that an entry
finds no open job of its owner is `EkleDurumu`. `SiraliDagit` and `YuvaDolu` were checked with TLC on
the instance of `tasima`.

`DbKisiciKanit` proves, for every number of host entries, every set of plan limits, every limit of a
restriction and every set and number of faults:

| Theorem | States |
|---|---|
| `TipDogru` | `Spec => []TypeOK` |
| `KayitSahipliDogru` | `Spec => []KayitSahipli` |
| `KisitKayitliDogru` | `Spec => []KisitKayitli` |
| `PlanGecerliDogru` | `Spec => []PlanGecerli` |

The provisos are those of the properties, and nothing is assumed beside the named assumptions about the
constants. The inductive invariants say, for each point of a turn, what of row, memory and limits has
been written:

* `Tip` is `TypeOK` with its sets named.
* `YerDurumu`: the record in memory never says more than the row, and which of the two there is at each
  point of a turn.
* `SahipDurumu`: an open row is held in memory but at two named moments, before the start has read the
  rows and while a new restriction's first ALTERs are under way.
* `KisitDurumu`: a restricted limit belongs to a row marked as applied; while a release writes, what is
  still restricted is as it was read, and what counts as set back is not restricted. The last two are
  needed because `birak` does not write the entries whose limit, as it was read, is already the value
  to write.
* `PlanDurumu`: what the hook noted is the plan, from the moment the request writes its first entry.
* `SinirDurumu`: an entry to which the present plan was written has the plan's limit whenever no
  restriction is in force (`Serbest`), and during a release entry by entry: those before the loop's
  position have the value written, those after it are as they were read.

They were checked with TLC on the instance of `dbkisici` and on one with two changes of the plan.

`SilinenYedekKanit` proves, for every number of backups, ids, marks, faults, requests and things under
way at a time, every set of customers and of customers with a target of their own:

| Theorem | States |
|---|---|
| `SilinenTip` | `Spec => []TypeOK` |
| `SilinenCanliKorunur` | `Spec => CanliKopyaKorunur` |
| `SilinenSupurYalnizDolan` | `Spec => SupurYalnizDolan` |
| `SilinenUzakKopya` | `Spec => UzakKopyaSilinir` |
| `SilinenBaskasinaVerilmez` | `Spec => []BaskasinaVerilmez` |

Three inductive invariants, each over the one before:

* `YapiInv`: the types, with what the columns of a row say together and what a record of a goroutine
  holds at each of its points. `TypeOK` needs it, because rows are written with ids and marks that
  goroutines have carried since an earlier statement.
* `SilmeInv` is about deletions against bindings. `ListeDurumu`: what is on a deletion's list is as it
  was read, or deleted, or was bound since. `UzakDurumu`: a row at its remote delete is no live row,
  because a binding that is about to write has either seen it in the register or keeps it locked;
  this is the argument of `silinen.go:55-63`, and `CanliKopyaKorunur` is not inductive without it.
  `HazirlikDurumu`, `GoruntuDurumu` and `HedefDurumu` follow the snapshot from its writing to its use:
  it stays as long as one of its rows, so the deletion has the right target. `DefterDurumu` (the register
  lets nobody delete a row twice at a time) keeps one deletion's remote call from being answered by
  another's, and `YuklemeDurumu` (an upload is over before its row's term) keeps uploads from the
  sweep's rows; between the remote delete and the row's, `HedefDurumu` says that no copy is there and
  none is on its way, but for the two exceptions of `UzakKopyaSilinir`.
* `AitInv` is about identity. `KimlikDurumu`: ids are not given out again while the panel runs, so what
  a goroutine has read of an account is true or the account is gone. `AitDurumu`: a live row outside
  the separation of remnants is its account's customer's, and so is whatever a running deletion, a
  late backup or a mark will say of it. A mark that no row, snapshot or goroutine holds (`BosIz`)
  exists or the step waits; that a set of marks has a least one is proved from well-founded induction.

All were checked with TLC on the instance of `silinen` first.

Only model-checked: the liveness properties (`KuyrukIlerler` twice, `KalintiKalkar`, `ParolaKalmaz`,
`SahipsizIsaretlenir`), because fairness needs `ENABLED`, which is out of the proof system's reach. Every
other property of a passing run is a theorem. What fails (the five violations) is shown by TLC alone.

## Abstractions and limits

* One domain and one target, with as many folders as the settings name (two in `kuyruk`). Retention
  ranks per domain, and the worker has one queue for all; with several domains a job only waits longer.
  The target itself is the row's (`hedef_id`) and does not change.
* A database statement takes effect and is reported, or neither, except where the worker ignores
  the error. `DbHatasi` says whether such ignored writes may be lost.
* A step's failure is "gecici" or "kalici"; which error is which is left open.
* `AyarOku`, the queue query and the claim are one step (only the worker claims). The four reads of
  `kullanimda` are one step. `SaklaSec` reads, looks for the manifest and marks in one step: no
  other actor changes a row in 'tamam' or 'siliniyor'.
* An age limit is a row number at or below which copies are old: creation times follow the numbers.
* A purge removes any rows 'silindi' (those past 90 days). A cached list of candidates never
  meets a purged row, because a run is bounded by a day.
* Nobody else deletes objects on Drive.
* `KayitSil` is the end of a deletion in one step, the archive's removal and the row's DELETE, of which
  each may fail without the other; the deletion may be asked for again.
* `yerelSilBir` classifies again only with what it looks at again, the file; rank and Drive copy are
  the cached ones, as in the code.
* Not modelled: encryption, key life cycle, progress display, temporary files, bandwidth, the wire
  protocol of Drive, the contents of archives, the waiting line of manual backups.

In the other models:

* `SilinenYedek`: one system user, and at most one live account of it, as the panel enforces. A mark is
  random and only compared. A remote copy is there or not; a deletion on the wrong target leaves it.
  Terms expire between requests, never within one, nor during the row's upload (a term is a whole number of
  days, an upload at most half an hour). The sweep's batches are
  one list, which it may give up at any row (its time limit). The hour of grace before a snapshot
  without rows is cleaned ends with the deletion that wrote it. An account is not deleted in the moment
  of its creation. Uploads do not count as things under way at a time. A live account's own backups are not deleted or pruned.
* `SirYenile`: `VkSave` is the refused SAVE with its undoing in one step: when undoing SETUSER fails as
  well, what is left is what a lost reply leaves, and the same promises are off. `EskiGecmez` speaks of the
  services and files of the targets that were rotated: a target that was left out keeps its secret, and a
  panel that is not restarted (`--yeniden-baslatma-yok`) keeps its old JWT key in memory. A secret is a number; rewriting env, building the DSN and parsing the ACL reply are
  left out. The refusal of `sir yenile` on an unhealthy panel before it begins is left open. A
  `mysql` client that outlives the killed command is not modelled. A restart of Valkey in the middle
  of a conversation is a lost reply and then a restart. `env` is written by nobody else (scripts that
  do so without the lock exist). Recovery verifies the DSN's host entry; the others may stay mixed.
* `TasimaKuyruk`: a transfer is a step that ends well, badly, without quota or by cancellation. Items
  are a number. The saved sessions ('oturum') and the discovery rows are other rows of the table.
  Failed statements are modelled in `Baslat` and `dagit`; the other writes of the job succeed.
  The dispatcher's delay after a start is left to the interleaving.
* `DbKisici`: one user, whose host entries do not change. Measurement, cool-down, thresholds and
  suspension are choices, restricted by what excludes each other in one turn. At most one request
  applies a plan at a time. Killing queries, notices and history rows are left out.

## Not modelled

The wire protocols and the file generators (provisioner, domains, DNS, PHP, WordPress and Laravel
tools, port changes, reseller slices) are pure input and output with little state of their own: a
model would be the code once more. Limits, quotas and plans are arithmetic, covered by unit tests.
The support agent (`internal/destek`) has a protocol worth modelling; it is left for later.
Of the backups of deleted accounts: listing, downloading and restoring an orphan, the settings page,
demonstration accounts, the orphans of a deleted reseller (whose `reseller_id` is set to 0), and rows
whose system user cannot be derived. Requests, views, the user interface, the billing plug-in and the installers keep no state that
several actors share beyond single rows.

The lines the modules stand for are a small share of the repository for this reason: most of its
code writes configuration files and answers requests.

## Plan

1. More abstract specifications, each with its proof: what a rotation promises of a secret, seen from
   outside the command, and what an account's deletion promises of its backups.
2. Lemmas towards liveness that need no fairness, in the way `UyandirmaKaybolmaz` is one of
   `KuyrukIlerler`: for `KalintiKalkar`, that a start always finds the row a crash left.
3. Support agent (`internal/destek/ajan`): orders against revocation, the repeated order.
4. A second target for retention.

## How to run

    tlc -workers 2 -config Kuyruk.cfg MCUzakKopya
    tlc -workers 2 -config YerelSil.cfg MCYerelSil
    tlc -workers 2 -config SilinenYedek.cfg SilinenYedek
    tlc -workers 2 -config SirYenile.cfg SirYenile
    tlc -workers 2 -config Tasima.cfg TasimaKuyruk
    tlc -workers 2 -config DbKisici.cfg DbKisici
    for m in UzakKopya YerelSil SilinenYedek SirYenile TasimaKuyruk DbKisici
    do tlapm ${m}Kanit.tla; done

`Kuyruk.cfg` and `SaklamaYeni.cfg` belong to `MCUzakKopya`; `YerelSil.cfg`,
`YerelGeri.cfg`, `YerelYaris.cfg`, `YerelOkuma.cfg` and `IsDurdur.cfg` to `MCYerelSil`;
`DbKisiciPlan.cfg` to `DbKisici`. Each takes at most about two and a half minutes; the proofs of a
module take at most about three minutes.
