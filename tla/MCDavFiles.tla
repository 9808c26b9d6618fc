----------------------------- MODULE MCDavFiles -----------------------------
(***************************************************************************)
(* A bridge on a that reads b's f1 while it writes it.                      *)
(***************************************************************************)
EXTENDS DavFiles, TLC

CONSTANTS a, b, t1, t2, f1, f2, x, y

MCJob ==
    t1 :> [kind |-> "download", by |-> a, with |-> b, local |-> f1, remote |-> f1]
      @@ t2 :> [kind |-> "write", by |-> a, with |-> b, local |-> f1, remote |-> f1]

MCInitialDisks ==
    {a :> (f1 :> None @@ f2 :> None) @@ b :> (f1 :> f @@ f2 :> None) : f \in {<<>>, <<x>>}}

MCWritten == t1 :> <<>> @@ t2 :> <<y>>

=============================================================================
