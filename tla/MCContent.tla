------------------------------ MODULE MCContent ------------------------------
(* A small instance of Content: three jobs, two days, and groups of jobs   *)
(* that touch the same rows.                                               *)
EXTENDS Content, TLC

Answer(usd, gold) == [usd |-> usd, gold |-> gold]
MCQuoted == {Answer(1, 1), Answer(2, Unset), Answer(Unset, 1), Answer(Unset, Unset)}

MCScenes ==
    { "spot" :> 1 @@ "index" :> 1,
      "manual" :> 1 @@ "index" :> 1,
      "spot" :> 3,
      "manual" :> 1 @@ "macro" :> 1,
      "spot" :> 1 @@ "macro" :> 1,
      "world" :> 2 @@ "backfill" :> 1,
      "catchUp" :> 1 @@ "backfill" :> 2,
      "world" :> 1 @@ "pdf" :> 1,
      "newsTick" :> 3,
      "newsTick" :> 1 @@ "newsForce" :> 2,
      "pdf" :> 2 @@ "lesson" :> 1,
      "lesson" :> 2 @@ "unlesson" :> 1,
      "upload" :> 2 @@ "unreport" :> 1,
      "upload" :> 1 @@ "define" :> 1,
      "forex" :> 3 }
JobSymmetry == Permutations(Jobs)
=============================================================================
