-------------------------- MODULE MCDocumentPipeline --------------------------
(* DocumentPipeline with two file names, one that tells a letter of credit and *)
(* one that tells nothing.                                                     *)
EXTENDS DocumentPipeline

MCHintOf == [n \in Names |-> IF n = "lc_1.pdf" THEN "letter_of_credit" ELSE "UNKNOWN"]
MCTextOf == [c \in Contents |-> IF c = "invoice" THEN "other" ELSE "UNKNOWN"]

Instructing == {"notes"}
===============================================================================
