------------------------------ MODULE MCDigest ------------------------------
(* Small instances of Digest.  A day has two or three minutes: that of the *)
(* message and that of its retry, and one in which neither is due.         *)
EXTENDS Digest, TLC

MCKinds == {"TELEGRAM", "ADMIN", "REFUND"}

Bot(ready, sendAt, weekdays) == [ready |-> ready, sendAt |-> sendAt, weekdays |-> weekdays]
EveryDay == {Bot(TRUE, 0, Days)}
OnAndOff == {Bot(TRUE, 0, Days), Bot(FALSE, 0, Days)}

NewsOnly == {{"news"}}
Changing == {{"portfolio"}, {"news"}}
PortfolioOnly == {{"portfolio"}}

RunSymmetry == Permutations(Runs)
=============================================================================
