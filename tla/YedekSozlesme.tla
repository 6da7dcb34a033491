---------------------------- MODULE YedekSozlesme ----------------------------
(***************************************************************************)
(* What the panel promises about the places a domain's backups are kept    *)
(* in: the local disk and Drive.  Only a deletion somebody asked for may   *)
(* take the last copy; what the panel does on its own moves copies without *)
(* losing them.                                                            *)
(***************************************************************************)
CONSTANT Yedek

VARIABLES
    alinan,   \* backups that were ever taken
    istenen,  \* backups somebody has asked to delete
    yer       \* where each backup is kept

Yerler == {"yerel", "drive"}
sozlesmeVars == <<alinan, istenen, yer>>

SozlesmeInit ==
    /\ alinan = {}
    /\ istenen = {}
    /\ yer = [b \in Yedek |-> {}]

Olustur(b) ==
    /\ b \notin alinan
    /\ alinan' = alinan \cup {b}
    /\ yer' = [yer EXCEPT ![b] = {"yerel"}]
    /\ UNCHANGED istenen

\* A verified copy of the backup is on Drive.
Gonder(b) ==
    /\ b \in alinan
    /\ yer' = [yer EXCEPT ![b] = @ \cup {"drive"}]
    /\ UNCHANGED <<alinan, istenen>>

\* "Delete the local copy once it is on Drive".
YerelBosalt(b) ==
    /\ "drive" \in yer[b]
    /\ yer' = [yer EXCEPT ![b] = @ \ {"yerel"}]
    /\ UNCHANGED <<alinan, istenen>>

\* Retention on Drive never empties Drive.
DriveBosalt(b) ==
    /\ \E c \in Yedek \ {b} : "drive" \in yer[c]
    /\ yer' = [yer EXCEPT ![b] = @ \ {"drive"}]
    /\ UNCHANGED <<alinan, istenen>>

\* The user, or the pruning the user configured, asks for a backup to go.
Iste(b) ==
    /\ b \in alinan
    /\ istenen' = istenen \cup {b}
    /\ UNCHANGED <<alinan, yer>>

\* That backup's local archive, and no other, goes or fails to; it takes a new
\* request to try again.
KullaniciSil(b) ==
    /\ b \in istenen
    /\ istenen' = istenen \ {b}
    /\ \/ yer' = [yer EXCEPT ![b] = @ \ {"yerel"}]
       \/ UNCHANGED yer
    /\ UNCHANGED alinan

\* A crash forgets what was asked and takes nothing.
Unut ==
    /\ istenen' = {}
    /\ UNCHANGED <<alinan, yer>>

SozlesmeNext ==
    \/ \E b \in Yedek :
          \/ Olustur(b) \/ Gonder(b) \/ YerelBosalt(b) \/ DriveBosalt(b)
          \/ Iste(b) \/ KullaniciSil(b)
    \/ Unut

SozlesmeSpec == SozlesmeInit /\ [][SozlesmeNext]_sozlesmeVars
=============================================================================
