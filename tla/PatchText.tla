------------------------------ MODULE PatchText ------------------------------
(***************************************************************************)
(* The helpers customizeBuildroot edits Kconfig and make files with        *)
(* (util.py).  A text is the sequence of its lines, blank ones left out;   *)
(* a line, or several which always stay together, is a string.             *)
(***************************************************************************)
EXTENDS Naturals, Sequences, FiniteSets, SequencesExt

\* What an operator returns that raises SystemExit.
SystemExit == <<"SystemExit">>

\* The lines of block stand together in text.
Holds(text, block) == block \in SubSeqs(text)

\* text.replace(old, new, 1), an error when there is no such block.
Replaced(text, old, new) ==
    IF Holds(text, old) THEN ReplaceFirstSubSeq(new, old, text) ELSE SystemExit

\* The same unless the line marker says that it has been done before.
Unless(marker, text, old, new) ==
    IF Contains(text, marker) THEN text ELSE Replaced(text, old, new)

\* The next of several edits; an error ends them all.
Then(text, Edit(_)) == IF text = SystemExit THEN SystemExit ELSE Edit(text)

\* block stands before line i.
InsertBlock(text, i, block) ==
    SubSeq(text, 1, i - 1) \o block \o SubSeq(text, i, Len(text))

\* The texts a write of text may leave when it is interrupted or the volume is
\* full: the file is truncated, then filled from the start.
Torn(text) == {SubSeq(text, 1, n) : n \in 0..(Len(text) - 1)}

Count(text, line) == Cardinality({i \in DOMAIN text : text[i] = line})

-----------------------------------------------------------------------------
insert_kconfig_after_if(text, if_line, symbol, block) ==
    Unless(symbol, text, <<if_line>>, <<if_line>> \o block)

\* Mutant of append_kconfig_if_block: it does not look for the symbol.
AppendAlways(text, if_line, symbol, block) == text \o <<if_line>> \o block \o <<"endif">>

append_kconfig_if_block(text, if_line, symbol, block) ==
    IF Contains(text, symbol) THEN text
    ELSE text \o <<if_line>> \o block \o <<"endif">>

MESON_PACKAGE_EVAL == "$(eval $(meson-package))"

insert_before_meson_eval(text, tail, already) ==
    Unless(already, text, <<MESON_PACKAGE_EVAL>>, tail \o <<MESON_PACKAGE_EVAL>>)

\* line by line
drop_br_no_check_hash_for(text, line) ==
    LET kept[n \in 0..Len(text)] ==
            IF n = 0 THEN <<>>
            ELSE IF text[n] = line THEN kept[n - 1] ELSE Append(kept[n - 1], text[n])
    IN  kept[Len(text)]
==============================================================================
