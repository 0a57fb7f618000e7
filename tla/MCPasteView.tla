----------------------------- MODULE MCPasteView -----------------------------
(* Constants for model checking PasteView. *)
EXTENDS PasteView, TLC

CONSTANTS right, wrong, js, text, mermaidJs, x, y, t1, t2

Paste(content, key, lang) == [text |-> content, key |-> key, lang |-> lang]
Empty == << >>
Words == <<x, y>>
MCTexts == {Empty, Words}
Pages == {Paste(Words, right, js), Paste(Empty, right, js), Paste(Words, NoPass, js),
          Paste(Words, right, mermaidJs)}

AttemptSymmetry == Permutations(Attempts)
=============================================================================
