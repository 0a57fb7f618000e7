----------------------------- MODULE MCPasteTab -----------------------------
(* Constants for model checking PasteTab. *)
EXTENDS PasteTab

CONSTANTS empty, words, pw, plain, guarded, misread, id1

Form(text, pass, options) == [text |-> text, pass |-> pass, options |-> options]
Drafts == {Form(empty, NoPass, plain), Form(empty, pw, misread),
           Form(words, NoPass, guarded), Form(words, pw, plain)}
MCBlank == Form(empty, NoPass, plain)
=============================================================================
