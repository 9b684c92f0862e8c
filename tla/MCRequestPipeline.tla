------------------------ MODULE MCRequestPipeline ------------------------
(***************************************************************************)
(* RequestPipeline for TLC.                                                 *)
(***************************************************************************)
EXTENDS RequestPipeline

\* What the handlers under internal/ do, and the panic any handler may meet.
PlainOps == {"WriteHeader", "Write", "Panic"}
FinalCodes == {404}

\* Everything the ResponseWriter offers, with an informational status and one
\* that net/http rejects.
AnyCode == {99, 103, 200, 404}
==========================================================================
