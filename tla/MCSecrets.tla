---------------------------- MODULE MCSecrets ----------------------------
(***************************************************************************)
(* Secrets with one business client and one channel with a client secret.  *)
(***************************************************************************)
EXTENDS Secrets, TLC

CONSTANTS c1

OneClient == [b \in PublicKeys |-> c1]

(***************************************************************************)
(* Bound: a behaviour is about the access keys or about the other records  *)
(* and the client secrets.  Processes meet in the tokens only, so that one *)
(* of them is enough for the others.                                       *)
(***************************************************************************)
Untouched(p) ==
    /\ DOMAIN cache[p].answers = {}
    /\ \A n \in Records : cache[p].records[n] = 0

OneThingAtATime ==
    LET touched == {p \in Procs : ~Untouched(p)}
    IN  /\ Cardinality(touched) <= 1
        /\ touched # {} \/ (\E n \in Records : latest[n] > 0) => made <= 1 /\ changes <= 3

AnySymmetry == Permutations(Procs) \cup Permutations(Passwords)
=============================================================================
