--------------------------- MODULE MCProjectPage ---------------------------
(* A small library, with a page of its own or with clients of the API. *)
EXTENDS ProjectPage, References, TLC

CONSTANTS p1, p2, s1, s2, s3, u1, u2, u3, h1, h2

MCMaxCount == [image |-> 2, video |-> 2, audio |-> 1]
MCSymmetry == Permutations({p1, p2}) \cup Permutations({s1, s2, s3}) \cup
              Permutations({u1, u2, u3})
=============================================================================
