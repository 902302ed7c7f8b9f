---------------------------- MODULE PythonBuiltins ----------------------------
(* What Python's round(), sum(), sorted() and comprehensions do to numbers and *)
(* lists that scores, frames, mentions and instructions are made of.  A sort *)
(* or a filter is given by the places it is about, so that all of them can   *)
(* be reasoned about as one rearrangement.                                   *)
EXTENDS Naturals, Sequences, FiniteSetsExt

(* round(n / d): halves go to the even neighbour.                            *)
Rounded(n, d) ==
  LET up == (2 * n + d) \div (2 * d)
  IN IF (2 * n + d) % (2 * d) = 0 /\ up % 2 = 1 THEN up - 1 ELSE up

(* sum() of what a function makes of the members of a finite set.            *)
SumOf(f) == MapThenSumSet(LAMBDA k : f[k], DOMAIN f)

(* Tuples compare by the first component in which they differ.               *)
Earlier(k, l) ==
  \E i \in DOMAIN k : k[i] < l[i] /\ \A j \in 1 .. i - 1 : k[j] = l[j]

(* The values at those places of a sequence that ahead is about, each after  *)
(* as many as there are places ahead of its own.                             *)
Arranged(s, ahead) ==
  <<>> \o [n \in 1 .. Cardinality(DOMAIN ahead) |->
             s[CHOOSE k \in DOMAIN ahead : Cardinality(ahead[k]) = n - 1]]

(* A comprehension keeps the order; sorted() goes by a key, and keeps the    *)
(* order where keys are equal.                                               *)
Where(s, places) == Arranged(s, [k \in places |-> {j \in places : j < k}])
SortedBy(s, keys) ==
  Arranged(s, [k \in DOMAIN s |->
                 {j \in DOMAIN s : \/ Earlier(keys[j], keys[k])
                                   \/ keys[j] = keys[k] /\ j < k}])
=============================================================================
