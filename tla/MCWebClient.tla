----------------------------- MODULE MCWebClient -----------------------------
(* Instances of WebClient for TLC. *)
EXTENDS WebClient

CONSTANTS alice, bob, c1, c2, k1

TwoUsers == {alice, bob}
OneCall == {c1}
TwoCalls == {c1, c2}
OneClick == {k1}

\* The first upload is polled again while it is not final, the second is not.
TwoThenOne == <<2, 1>>
JustOne == <<1>>
=============================================================================
