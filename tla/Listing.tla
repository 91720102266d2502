------------------------------- MODULE Listing -------------------------------
(* Lists, and what a comprehension over one leaves in. *)
EXTENDS Naturals, Sequences, FiniteSets

Elements(s) == {s[i] : i \in DOMAIN s}

\* What s has at the places F, in its order.
Selection(s, F) ==
  LET upto[n \in 0..Len(s)] ==
        IF n = 0 THEN <<>>
        ELSE IF n \in F THEN Append(upto[n - 1], s[n]) ELSE upto[n - 1]
  IN upto[Len(s)]

\* The elements of s that are in S.
Only(s, S) == Selection(s, {i \in DOMAIN s : s[i] \in S})

\* The first of each element that is there more than once.
Once(s) == Selection(s, {i \in DOMAIN s : \A j \in DOMAIN s : j < i => s[j] # s[i]})

\* The lists that name each of S once.
Orders(S) ==
  {s \in [1..Cardinality(S) -> S] : \A i, j \in DOMAIN s : i # j => s[i] # s[j]}

\* One list after the other.
Concat(seqs) ==
  LET upto[n \in 0..Len(seqs)] == IF n = 0 THEN <<>> ELSE upto[n - 1] \o seqs[n]
  IN upto[Len(seqs)]

=============================================================================
