------------------------------ MODULE MCChunking ------------------------------
(* Small texts for Chunking: sentences below, at and beyond the two sizes.      *)
EXTENDS Chunking

CONSTANT Sentences   \* lengths of sentences

Lens(things) == [i \in DOMAIN things |-> things[i].len]

MkPara(ss)    == [len |-> Sum(ss) + Len(ss) - 1, chars |-> Sum(ss), sentences |-> ss]
MkSection(ps) == [len |-> Sum(Lens(ps)) + 2 * (Len(ps) - 1),
                  chars |-> Sum(Chars(ps)), paras |-> ps]

UpTo(n, S)  == UNION {[1 .. m -> S] : m \in 1 .. n}
Paras       == {MkPara(ss) : ss \in UpTo(2, Sentences)}
Sections(n) == {MkSection(ps) : ps \in UpTo(n, Paras)}

\* Three paragraphs in one section, or one in each of two.
MCTexts == {<<s>> : s \in Sections(3)} \cup {<<s, t>> : s, t \in Sections(1)}
=============================================================================
