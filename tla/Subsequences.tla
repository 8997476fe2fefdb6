---------------------------- MODULE Subsequences ----------------------------
(***************************************************************************)
(* Parts of sequences.  Unlike SelectSeq, Only has a definition that can   *)
(* be reasoned about.                                                      *)
(***************************************************************************)
EXTENDS Naturals, Sequences

(* The members of seq that are in kept, in their order. *)
Only(seq, kept) ==
    LET only[i \in 0 .. Len(seq)] ==
            IF i = 0 THEN <<>>
            ELSE IF seq[i] \in kept THEN Append(only[i - 1], seq[i])
            ELSE only[i - 1]
    IN  only[Len(seq)]
=============================================================================
