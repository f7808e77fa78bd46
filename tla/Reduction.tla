------------------------------ MODULE Reduction ------------------------------
(***************************************************************************)
(* internal/optimizer/optimizer.go: optimizeInner, one pass over a list of *)
(* operations that makes at most one reduction, and Optimize, the passes   *)
(* until one makes none.                                                   *)
(***************************************************************************)
EXTENDS Operations

First(S) == {i \in S : \A k \in S : i <= k}

(* The first operation after i that i is replaced together with, if any.   *)
Partner(ops, i) == First({j \in (i + 1)..Len(ops) : Replacement(ops[i], ops[j]) # {}})

(* Operation i moves right to j when it passes through all between, j      *)
(* moves left to i when all between let it through.                        *)
MovesRight(ops, i, j) == \A k \in (i + 1)..(j - 1) : Through(ops[i], ops[k])
MovesLeftAnyway(ops, i, j) == TRUE   \* mutant
MovesLeft(ops, i, j) == \A k \in (i + 1)..(j - 1) : Through(ops[k], ops[j])

Reducible(ops) ==
    {i \in DOMAIN ops : \E j \in Partner(ops, i) : MovesRight(ops, i, j) \/ MovesLeft(ops, i, j)}

(* ops with the pair i, j replaced by result.                              *)
Replaced(ops, i, j, result) ==
    LET between == SubSeq(ops, i + 1, j - 1)
    IN  SubSeq(ops, 1, i - 1)
          \o (IF MovesRight(ops, i, j) THEN between \o result ELSE result \o between)
          \o SubSeq(ops, j + 1, Len(ops))

(* The list a pass returns when it reduces anything, and none otherwise.   *)
optimizeInner(ops) ==
    UNION {UNION {{Replaced(ops, i, j, result) : result \in Replacement(ops[i], ops[j])}
                    : j \in Partner(ops, i)}
             : i \in First(Reducible(ops))}

(* Optimize: a pass shortens the list or moves an alteration behind a      *)
(* rename, so the square of the length bounds their number.                *)
OptimizedOps(ops) ==
    LET after[n \in Nat] ==
            IF n = 0 THEN ops
            ELSE LET before == after[n - 1]
                     pass   == optimizeInner(before)
                 IN  IF pass = {} THEN before ELSE CHOOSE l \in pass : TRUE
    IN  after[Len(ops) * Len(ops)]
=============================================================================
