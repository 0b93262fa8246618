------------------------------ MODULE MCFraming ------------------------------
(* Three messages with payloads of one to three bytes.                      *)
EXTENDS Framing

Sizes == <<2, 1, 3>>
=============================================================================
