------------------------------- MODULE Chunking -------------------------------
(***************************************************************************)
(* The packing of a text into chunks (app/chunk.py, chunk_text): sections  *)
(* at structural boundaries, each packed by _split_to_size paragraph by    *)
(* paragraph, an oversized paragraph by _split_sentences sentence by       *)
(* sentence, with a hard cut at its end.                                   *)
(*                                                                         *)
(* Text is abstracted to counts of characters.  "len" is a length as       *)
(* Python's len() sees it, "chars" what is left of it without the white    *)
(* space between sentences and paragraphs, and "parts" how many sentences  *)
(* or paragraphs a piece joins.                                            *)
(***************************************************************************)
EXTENDS Naturals, Sequences

CONSTANTS
  Texts,        \* documents, as sequences of sections
  TargetChars,  \* TARGET_CHARS
  MaxChars      \* MAX_CHARS

\* The sums of the first entries of a sequence, and of all of them.
SumTo(s) == LET upTo[n \in 0 .. Len(s)] == IF n = 0 THEN 0 ELSE upTo[n - 1] + s[n] IN upTo
Sum(s)   == SumTo(s)[Len(s)]

Chars(things) == [i \in DOMAIN things |-> things[i].chars]

Length  == Nat \ {0}
Para    == {p \in [len : Length, chars : Length, sentences : Seq(Length)] :
              p.chars = Sum(p.sentences)}
Section == {s \in [len : Length, chars : Length, paras : Seq(Para)] :
              s.chars = Sum(Chars(s.paras))}

ASSUME SizeAssumption == TargetChars \in Length /\ MaxChars \in Nat /\ TargetChars <= MaxChars
ASSUME TextAssumption == Texts \subseteq Seq(Section)

VARIABLES
  text,    \* the document
  sect,    \* the section being split
  para,    \* the paragraph reached in it, 0 before it is looked into
  sent,    \* the sentence reached in that, 0 while paragraphs are packed
  buf,     \* the piece being filled
  pieces   \* the chunks so far; the place of a chunk is its index

vars == <<text, sect, para, sent, buf, pieces>>

Piece   == [len : Nat, chars : Nat, parts : Nat]
Nothing == [len |-> 0, chars |-> 0, parts |-> 0]

Init ==
  /\ text \in Texts
  /\ sect = 1 /\ para = 0 /\ sent = 0
  /\ buf = Nothing
  /\ pieces = <<>>

Done       == sect > Len(text)
Sect       == text[sect]
AtPara     == ~Done /\ para \in 1 .. Len(Sect.paras)
ThePara    == Sect.paras[para]
AtSentence == AtPara /\ sent \in 1 .. Len(ThePara.sentences)
PastLast   == AtPara /\ sent = Len(ThePara.sentences) + 1

Flushed == IF buf = Nothing THEN pieces ELSE Append(pieces, buf)

\* Adds a part to the piece being filled, or starts a new piece with it, when the part
\* and the separator before it would take the piece over TargetChars.
Pack(len, chars, separator) ==
  IF buf # Nothing /\ buf.len + len + separator > TargetChars
    THEN /\ pieces' = Append(pieces, buf)
         /\ buf' = [len |-> len, chars |-> chars, parts |-> 1]
    ELSE /\ UNCHANGED pieces
         /\ buf' = [len   |-> buf.len + len + (IF buf = Nothing THEN 0 ELSE separator),
                    chars |-> buf.chars + chars,
                    parts |-> buf.parts + 1]

\* A section that fits is a chunk as it is.
KeepSection ==
  /\ ~Done /\ para = 0
  /\ Sect.len <= MaxChars
  /\ pieces' = Append(pieces, [len |-> Sect.len, chars |-> Sect.chars, parts |-> 1])
  /\ sect' = sect + 1
  /\ UNCHANGED <<text, para, sent, buf>>

OpenSection ==
  /\ ~Done /\ para = 0
  /\ Sect.len > MaxChars
  /\ para' = 1
  /\ UNCHANGED <<text, sect, sent, buf, pieces>>

\* Mutation: every paragraph is packed, the oversized ones too.
PackAnyPara ==
  /\ AtPara /\ sent = 0
  /\ Pack(ThePara.len, ThePara.chars, 2)
  /\ para' = para + 1
  /\ UNCHANGED <<text, sect, sent>>

PackPara ==
  /\ AtPara /\ sent = 0
  /\ ThePara.len <= MaxChars
  /\ Pack(ThePara.len, ThePara.chars, 2)
  /\ para' = para + 1
  /\ UNCHANGED <<text, sect, sent>>

\* Mutation: the paragraphs packed so far are forgotten.
OpenParaDropping ==
  /\ AtPara /\ sent = 0
  /\ ThePara.len > MaxChars
  /\ buf' = Nothing
  /\ sent' = 1
  /\ UNCHANGED <<text, sect, para, pieces>>

OpenPara ==
  /\ AtPara /\ sent = 0
  /\ ThePara.len > MaxChars
  /\ pieces' = Flushed
  /\ buf' = Nothing
  /\ sent' = 1
  /\ UNCHANGED <<text, sect, para>>

PackSentence ==
  /\ AtSentence
  /\ LET n == ThePara.sentences[sent] IN Pack(n, n, 1)
  /\ sent' = sent + 1
  /\ UNCHANGED <<text, sect, para>>

Cut ==
  /\ pieces' = Append(pieces, [len |-> MaxChars, chars |-> MaxChars, parts |-> 1])
  /\ buf' = [len |-> buf.len - MaxChars, chars |-> buf.chars - MaxChars, parts |-> 1]
  /\ UNCHANGED <<text, sect, para, sent>>

\* Mutation: the rest is cut off but not cut down.
HardCutKeeping ==
  /\ PastLast /\ buf.len > MaxChars
  /\ pieces' = Append(pieces, [len |-> MaxChars, chars |-> MaxChars, parts |-> 1])
  /\ UNCHANGED <<text, sect, para, sent, buf>>

\* Only what is left after the last sentence is cut.
HardCut == PastLast /\ buf.len > MaxChars /\ Cut

EndPara ==
  /\ PastLast /\ buf.len <= MaxChars
  /\ pieces' = Flushed
  /\ buf' = Nothing
  /\ sent' = 0 /\ para' = para + 1
  /\ UNCHANGED <<text, sect>>

EndSection ==
  /\ ~Done /\ para > Len(Sect.paras)
  /\ pieces' = Flushed
  /\ buf' = Nothing
  /\ para' = 0 /\ sect' = sect + 1
  /\ UNCHANGED <<text, sent>>

Split ==
  \/ KeepSection \/ OpenSection
  \/ PackPara \/ OpenPara
  \/ PackSentence \/ HardCut \/ EndPara
  \/ EndSection

Next == Split \/ (Done /\ UNCHANGED vars)

Spec == Init /\ [][Next]_vars

-----------------------------------------------------------------------------
SentencesFit ==
  \A s \in 1 .. Len(text) : \A p \in 1 .. Len(text[s].paras) :
    \A q \in 1 .. Len(text[s].paras[p].sentences) : text[s].paras[p].sentences[q] <= MaxChars

\* "so each piece <= MAX_CHARS" (_split_to_size).
PiecesFit == \A i \in 1 .. Len(pieces) : pieces[i].len <= MaxChars

\* Packing joins parts only up to TargetChars, whatever the text; it never yields an empty
\* chunk, which the embedder would be asked to embed; and PiecesFit holds of every text whose
\* sentences fit (_split_to_size(), _split_sentences()).
SizesAreKept ==
  /\ \A i \in 1 .. Len(pieces) :
       pieces[i].len > 0 /\ (pieces[i].parts > 1 => pieces[i].len <= TargetChars)
  /\ SentencesFit => PiecesFit

\* No text is lost and none is repeated: at the end the chunks hold, separators apart,
\* as many characters as the document.
NothingLost == Done => Sum(Chars(pieces)) = Sum(Chars(text))

\* Each round of the nested loops gets on: to a later section, to a later paragraph of the
\* section, to a later sentence of the paragraph, or, at the hard cut, to a shorter rest.  None
\* runs past its end, so that every text is split in finitely many rounds.
Advances ==
  /\ ~Done /\ text' = text /\ sect' \in sect .. Len(text) + 1
  /\ \/ sect' > sect
     \/ /\ sect' = sect /\ para' \in para .. Len(Sect.paras) + 1
        /\ \/ para' > para
           \/ /\ para' = para /\ sent' \in sent .. Len(ThePara.sentences) + 1
              /\ sent' > sent \/ buf'.len \in 0 .. buf.len - 1
RoundsAdvance == [][Advances]_vars
=============================================================================
