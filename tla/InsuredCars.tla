----------------------------- MODULE InsuredCars -----------------------------
(***************************************************************************)
(* What the ledger promises the parties about an insured car, with no      *)
(* flows, vaults or notary: for every CarState ever issued there is one    *)
(* current version, and it changes in two ways only.  A new policy leaves  *)
(* the findings alone, a new assessment leaves the policy alone, fraud is  *)
(* forgotten by InsureMe only and accidents by nobody.                     *)
(***************************************************************************)

CONSTANTS Cars, Insurers, InsureMe, Vins, Terms

VARIABLE registry       \* registry[id]: the current version of CarState id

Version == [car: Cars, vin: Vins, insurer: Insurers, terms: Terms, details: Terms,
            state: {"VALID", "FRAUD"}, accident: {"NO", "ONE", "MORE_THAN_ONE"}]

\* One accident more.
Worse(accident) == IF accident = "NO" THEN "ONE" ELSE "MORE_THAN_ONE"

Init == registry = [id \in {} |-> {}]

\* A car is insured: exactly one id appears, with a clean record.
Issue ==
    \E id \in DOMAIN registry' \ DOMAIN registry, v \in Version :
        /\ v.state = "VALID" /\ v.accident = "NO"
        /\ registry' = [i \in DOMAIN registry \cup {id} |->
                          IF i = id THEN v ELSE registry[i]]

\* The policy of a car is replaced.
Repolicy ==
    \E id \in DOMAIN registry, i \in Insurers, t \in Terms, d \in Terms :
        registry' = [registry EXCEPT ![id] = [@ EXCEPT !.insurer = i, !.terms = t, !.details = d]]

\* The car is assessed anew after an event.
Reassess ==
    \E id \in DOMAIN registry, s \in {"VALID", "FRAUD"},
       a \in {"NO", "ONE", "MORE_THAN_ONE"}, d \in Terms :
        LET u == registry[id] IN
        /\ IF u.insurer = InsureMe THEN s = "VALID"
           ELSE u.state = "FRAUD" => s = "FRAUD"
        /\ a \in {u.accident, Worse(u.accident)}
        /\ registry' = [registry EXCEPT ![id] = [@ EXCEPT !.state = s, !.accident = a, !.details = d]]

Next == Issue \/ Repolicy \/ Reassess

Spec == Init /\ [][Next]_registry

=============================================================================
