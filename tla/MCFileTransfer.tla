--------------------------- MODULE MCFileTransfer ---------------------------
(***************************************************************************)
(* Small instances of FileTransfer for TLC.                                *)
(***************************************************************************)
EXTENDS FileTransfer, TLC

CONSTANTS a, b, t1, t2, f1, f2, x, y

\* a uploads its f1 over b's f1 while it downloads b's f1: the two share a file
\* on the serving side.
MCJob ==
    t1 :> [kind |-> "upload", by |-> a, with |-> b, local |-> f1, remote |-> f1]
      @@ t2 :> [kind |-> "download", by |-> a, with |-> b, local |-> f1, remote |-> f1]

\* The uploaded file is longer or shorter than the one it replaces, and either
\* may be empty or missing.
MCFiles == ({None, <<>>, <<x>>} \X {None, <<>>, <<y, y>>}) \cup {<< <<x, y>>, <<y>> >>}

MCInitialDisks ==
    {a :> (f1 :> fg[1] @@ f2 :> None) @@ b :> (f1 :> fg[2] @@ f2 :> None) : fg \in MCFiles}

=============================================================================
