--------------------------- MODULE KuyrukSozlesme ---------------------------
(***************************************************************************)
(* What the migration queue promises to those who stand in it: jobs are    *)
(* taken one at a time, the oldest first, each owner has one job in it,    *)
(* and a job that has left it never comes back.                            *)
(***************************************************************************)
EXTENDS Integers

CONSTANTS
    Sahip,     \* owners of jobs
    Is         \* job numbers, given out in order

VARIABLES
    sahibi,    \* the owner of each job
    bekler,    \* jobs that wait
    kosan,     \* the job that runs, if any
    biten      \* jobs that have left the queue, however they ended

sozlesmeVars == <<sahibi, bekler, kosan, biten>>

Giren == bekler \cup kosan \cup biten

SozlesmeInit == bekler = {} /\ kosan = {} /\ biten = {} /\ sahibi \in [Is -> Sahip]

Gir(j, o) ==
    /\ \A k \in Giren : k < j
    /\ \A k \in bekler \cup kosan : sahibi[k] # o
    /\ bekler' = bekler \cup {j} /\ sahibi' = [sahibi EXCEPT ![j] = o]
    /\ UNCHANGED <<kosan, biten>>

\* The slot is free, and nobody has waited longer.
Basla(j) ==
    /\ kosan = {} /\ j \in bekler /\ \A k \in bekler : j <= k
    /\ kosan' = {j} /\ bekler' = bekler \ {j}
    /\ UNCHANGED <<sahibi, biten>>

\* Done, failed, cancelled, or cut off by a restart.
Bit == kosan' = {} /\ biten' = biten \cup kosan /\ UNCHANGED <<sahibi, bekler>>

\* Cancelled or deleted while they wait.
Cekil(js) ==
    /\ js \subseteq bekler
    /\ bekler' = bekler \ js /\ biten' = biten \cup js
    /\ UNCHANGED <<sahibi, kosan>>

SozlesmeNext ==
    \/ \E j \in Is : Basla(j) \/ \E o \in Sahip : Gir(j, o)
    \/ Bit
    \/ \E js \in SUBSET Is : Cekil(js)

SozlesmeSpec == SozlesmeInit /\ [][SozlesmeNext]_sozlesmeVars
=============================================================================
