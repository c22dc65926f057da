------------------------------ MODULE MCHttpApi ------------------------------
(* Instances of HttpApi for TLC. *)
EXTENDS HttpApi, TLC

CONSTANTS c1, c2, v1, v2

TwoCalls == {c1, c2}

\* One user in a page of an allowed origin, another without a page, and the
\* first again in a page of an origin that is not allowed.
ThreeClients ==
    {[user |-> "ann", origin |-> "http://app"], [user |-> "bob", origin |-> NoOrigin],
     [user |-> "ann", origin |-> "http://other"]}
OneOrigin == {"http://app"}

TwoVariants == {v1, v2}
Symmetry == Permutations(TwoCalls) \cup Permutations(TwoVariants)
=============================================================================
