------------------------------ MODULE MCBubble ------------------------------
(* Two users built from documents with two of the four names, which the code *)
(* treats alike; the strings are "" and a URL.                               *)
EXTENDS Bubble
=============================================================================
