----------------------------- MODULE MCYerelSil -----------------------------
(* Settings records for the model checking of YerelSil. *)
EXTENDS YerelSil

\* Sending and local deletion on, either folder, one copy kept on Drive, none
\* kept locally.
MCSilenAyar ==
    {[aktif |-> TRUE, yerelSil |-> TRUE, klasor |-> k, saklamaN |-> 1, saklamaGun |-> FALSE,
      yerelTut |-> 0] : k \in Klasor}

\* The same, and no copy kept past the age limit.
MCYasliAyar == {[a EXCEPT !.saklamaGun = TRUE] : a \in MCSilenAyar}
=============================================================================
