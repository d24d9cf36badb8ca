----------------------------- MODULE MCManifest -----------------------------
(***************************************************************************)
(* Three names, 1 to 3, and every directory of up to three manifests:      *)
(* independent ones, chains, diamonds, cycles, self-dependencies, names    *)
(* used twice, dependencies listed twice or absent (9), and alternatives   *)
(* of a slot with equal and different scores, one with a changed artifact. *)
(***************************************************************************)
EXTENDS Manifest

M(name, deps, s, score) ==
    [name |-> name, dependencies |-> deps, slot |-> s, score |-> score,
     architecture |-> "", major |-> 1, minor |-> 0, intact |-> TRUE]

Manifests ==
    {M(1, deps, "gnss", 1) : deps \in {<< >>, <<2>>, <<2, 3>>, <<2, 2>>, <<9>>}}
    \cup {M(2, deps, "gnss", 1) : deps \in {<< >>, <<1>>, <<3>>, <<2>>}}
    \cup {M(3, deps, "gnss", 0) : deps \in {<< >>, <<1>>, <<9>>}}
    \cup {M(3, << >>, "", 0), M(2, << >>, "imu", 2)}
    \cup {[M(2, << >>, "gnss", 2) EXCEPT !.architecture = "host"],
          [M(2, << >>, "gnss", 0) EXCEPT !.architecture = "other"],
          [M(3, << >>, "gnss", 0) EXCEPT !.major = 2],
          [M(3, << >>, "gnss", 0) EXCEPT !.intact = FALSE],
          [M(1, << >>, "gnss", 2) EXCEPT !.minor = 1]}

Files ==
    {[problems |-> {}, manifest |-> m] : m \in Manifests}
    \cup {[problems |-> P, manifest |-> M(1, << >>, "", 0)] : P \in {{2, 5}, {4}, {5, 10}}}

Requests == {<<1>>, <<2>>, <<3>>, <<9>>, <<2, 1>>, <<3, 3>>}
=============================================================================
