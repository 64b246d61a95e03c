------------------------------ MODULE MCFileStore ------------------------------
(* Instances of FileStore for TLC. *)
EXTENDS FileStore, TLC

CONSTANTS ca, cb, oe, or, ia, ib, d1, d2

(* Each user edits another owner. *)
MCApart == (ca :> {oe}) @@ (cb :> {or})

(* Two files. *)
MCDigestOf == (ia :> d1) @@ (ib :> d2)

(* Both owners have the one as an attachment, one has the other too. *)
MCFirst == <<<<oe, ia>>, <<or, ia>>, <<or, ib>>>>
=============================================================================
