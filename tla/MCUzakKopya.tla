---------------------------- MODULE MCUzakKopya ----------------------------
(* Settings records for the model checking of UzakKopya. *)
EXTENDS UzakKopya

MCAyar(aktif, k, n, gun) ==
    [aktif |-> aktif, yerelSil |-> FALSE, klasor |-> k, saklamaN |-> n, saklamaGun |-> gun,
     yerelTut |-> 0]

\* Sending on or off, one copy kept.
MCTekKopya == {MCAyar(a, "gpanel", 1, FALSE) : a \in BOOLEAN}

\* Always on, either folder, one copy kept and none past the age limit.
MCAcikAyar == {MCAyar(TRUE, k, 1, TRUE) : k \in Klasor}
MCIlkAyar == {MCAyar(TRUE, "gpanel", 1, TRUE)}
=============================================================================
