----------------------------- MODULE MCCarLedger -----------------------------
(***************************************************************************)
(* CarLedger with the sets TLC needs: one car, two insurers, two threads.  *)
(***************************************************************************)
EXTENDS CarLedger, TLC

CONSTANTS red, axa, insureMe, r1, r2, vinRed, vinOther, t1, t2

MCCars == {red}
MCInsurers == {axa, insureMe}
CarAndInsurer == {red, axa}
OneRequest == {r1}
TwoRequests == {r1, r2}
MCVins == {vinRed, vinOther}
MCTerms == {t1, t2}

\* Posts that only tell mileages apart.
EventPost(v, m, a) == [vin |-> v, mileage |-> m, accident |-> a]
MileagePosts == {EventPost(vinRed, m, FALSE) : m \in 1..2}

\* Posts with accidents, and one under the vin of another car.
AllPosts == {EventPost(vinRed, m, a) : m \in 1..2, a \in BOOLEAN}
              \cup {EventPost(vinOther, 1, FALSE)}

PolicyPost(i, t) == [vin |-> vinRed, insurer |-> i, terms |-> t]
OnePolicy == {PolicyPost(axa, t1)}
TwoPolicies == {PolicyPost(axa, t1), PolicyPost(axa, t2)}
EitherInsurer == {PolicyPost(axa, t1), PolicyPost(insureMe, t1)}
AllPolicies == TwoPolicies \cup EitherInsurer

\* The threads are interchangeable.
RequestSymmetry == Permutations(TwoRequests)

=============================================================================
