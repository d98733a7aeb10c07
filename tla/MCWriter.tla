------------------------------ MODULE MCWriter ------------------------------
(***************************************************************************)
(* Model-checking instance of Writer: four writes, so that one goes to     *)
(* _write and those buffered behind it to _writev together, the last one   *)
(* not an UpdateRequest so that a _writev can fail part way, one other     *)
(* client's commit and one rejected request.                               *)
(***************************************************************************)
EXTENDS Writer

MCNumRequests == 4
MCInvalid == {4}
MCStartIndex == 1
MCMaxOther == 1
MCMaxFailures == 1
=============================================================================
