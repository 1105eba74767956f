---------------------------- MODULE ChunkingProofs ----------------------------
(***************************************************************************)
(* That chunk_text() loses no text and keeps its sizes, for texts of any   *)
(* length and structure and for any two sizes.                             *)
(*                                                                         *)
(* What is lost is a matter of sums along sequences, which are recursive   *)
(* functions.  Induction comes from the library's fact that the order of   *)
(* the naturals is well founded: a set of numbers that has 0, and each     *)
(* number whose predecessor it has, has all of them (Induction).           *)
(***************************************************************************)
EXTENDS Chunking, Integers, WellFoundedInduction, TLAPS

\* A set of naturals that is not empty has a least member.
LEMMA Least == ASSUME NEW S \in SUBSET Nat, S # {} PROVE \E m \in S : \A n \in S : m <= n
<1>1. PICK R : IsWellFoundedOn(R, Nat) /\ \A x, y \in Nat : <<y, x>> \in R <=> y < x
  <2>1. IsWellFoundedOn(OpToRel(<, Nat), Nat)
    BY NatLessThanWellFounded
  <2>2. \A x, y \in Nat : <<y, x>> \in OpToRel(<, Nat) <=> y < x
    BY DEF OpToRel
  <2>3. QED
    BY <2>1, <2>2
<1>2. PICK x \in S : \A y \in S : ~(<<y, x>> \in R)
  BY <1>1, WFMin
<1>3. \A y \in S : ~(y < x)
  BY <1>1, <1>2
<1>4. QED
  BY <1>2, <1>3

\* Induction, for a property given as the set of the numbers that have it.
LEMMA Induction ==
  ASSUME NEW N \in Nat, NEW G, 0 \in G, \A n \in 1 .. N : n - 1 \in G => n \in G
  PROVE  \A n \in 0 .. N : n \in G
<1> DEFINE B == {n \in 0 .. N : n \notin G}
<1> SUFFICES ASSUME B # {} PROVE FALSE
  OBVIOUS
<1>1. PICK m \in B : \A n \in B : m <= n
  <2>1. B \in SUBSET Nat
    OBVIOUS
  <2> HIDE DEF B
  <2>2. QED
    BY <2>1, Least
<1>2. m \in 1 .. N /\ m - 1 \in 0 .. N /\ m - 1 < m
  BY <1>1
<1>3. m - 1 \in G
  BY <1>1, <1>2
<1>4. QED
  BY <1>1, <1>2, <1>3

-----------------------------------------------------------------------------
(* Sums along sequences. *)

\* The recursive definition of the sums has a solution, ...
LEMMA SumToExists ==
  ASSUME NEW s \in Seq(Int)
  PROVE  \E f : f = [n \in 0 .. Len(s) |-> IF n = 0 THEN 0 ELSE f[n - 1] + s[n]]
<1> DEFINE G == {N \in 0 .. Len(s) : \E f : f = [n \in 0 .. N |-> IF n = 0 THEN 0 ELSE f[n - 1] + s[n]]}
<1>1. 0 \in G
  <2> DEFINE f == [n \in 0 .. 0 |-> 0]
  <2>1. f = [n \in 0 .. 0 |-> IF n = 0 THEN 0 ELSE f[n - 1] + s[n]]
    OBVIOUS
  <2> HIDE DEF f
  <2>2. QED
    BY <2>1
<1>2. ASSUME NEW m \in 1 .. Len(s), m - 1 \in G PROVE m \in G
  <2>1. PICK f : f = [n \in 0 .. m - 1 |-> IF n = 0 THEN 0 ELSE f[n - 1] + s[n]]
    BY <1>2
  <2> DEFINE g == [n \in 0 .. m |-> IF n = m THEN f[m - 1] + s[m] ELSE f[n]]
  <2>2. ASSUME NEW n \in 0 .. m PROVE g[n] = IF n = 0 THEN 0 ELSE g[n - 1] + s[n]
    <3>1. CASE n = m
      BY <3>1
    <3>2. CASE n # m
      <4>1. n \in 0 .. m - 1 /\ (n # 0 => n - 1 \in 0 .. m /\ n - 1 # m)
        BY <3>2
      <4>2. f[n] = IF n = 0 THEN 0 ELSE f[n - 1] + s[n]
        BY <2>1, <4>1
      <4>3. QED
        BY <3>2, <4>1, <4>2
    <3>3. QED
      BY <3>1, <3>2
  <2>3. g = [n \in 0 .. m |-> IF n = 0 THEN 0 ELSE g[n - 1] + s[n]]
    BY <2>2
  <2> HIDE DEF g
  <2>4. QED
    BY <2>3
<1>3. Len(s) \in Nat /\ Len(s) \in 0 .. Len(s)
  OBVIOUS
<1>4. Len(s) \in G
  <2> HIDE DEF G
  <2>1. QED
    BY <1>1, <1>2, <1>3, Induction
<1>5. QED
  BY <1>4

\* ... which is what SumTo is, and whose values are integers.
LEMMA SumToDef ==
  ASSUME NEW s \in Seq(Int)
  PROVE  /\ SumTo(s) = [n \in 0 .. Len(s) |-> IF n = 0 THEN 0 ELSE SumTo(s)[n - 1] + s[n]]
         /\ SumTo(s)[0] = 0
         /\ \A n \in 1 .. Len(s) : SumTo(s)[n] = SumTo(s)[n - 1] + s[n]
         /\ \A n \in 0 .. Len(s) : SumTo(s)[n] \in Int
<1>1. SumTo(s) = [n \in 0 .. Len(s) |-> IF n = 0 THEN 0 ELSE SumTo(s)[n - 1] + s[n]]
  BY SumToExists DEF SumTo
<1>2. Len(s) \in Nat
  OBVIOUS
<1>3. \A n \in 0 .. Len(s) : SumTo(s)[n] = IF n = 0 THEN 0 ELSE SumTo(s)[n - 1] + s[n]
  BY <1>1
<1>4. SumTo(s)[0] = 0 /\ \A n \in 1 .. Len(s) : SumTo(s)[n] = SumTo(s)[n - 1] + s[n]
  BY <1>2, <1>3
<1>5. \A n \in 0 .. Len(s) : SumTo(s)[n] \in Int
  <2> DEFINE G == {n \in 0 .. Len(s) : SumTo(s)[n] \in Int}
  <2>1. 0 \in G
    BY <1>2, <1>4
  <2>2. \A n \in 1 .. Len(s) : n - 1 \in G => n \in G
    BY <1>2, <1>4
  <2>3. \A n \in 0 .. Len(s) : n \in G
    <3> HIDE DEF G
    <3>1. QED
      BY <1>2, <2>1, <2>2, Induction
  <2>4. QED
    BY <2>3
<1>6. QED
  BY <1>1, <1>4, <1>5

\* Sums depend on the entries they add up alone.
LEMMA SumToAgree ==
  ASSUME NEW s \in Seq(Int), NEW t \in Seq(Int), Len(s) <= Len(t),
         \A n \in 1 .. Len(s) : s[n] = t[n]
  PROVE  \A n \in 0 .. Len(s) : SumTo(s)[n] = SumTo(t)[n]
<1> DEFINE G == {n \in 0 .. Len(s) : SumTo(s)[n] = SumTo(t)[n]}
<1>1. 0 \in G
  BY SumToDef
<1>2. ASSUME NEW n \in 1 .. Len(s), n - 1 \in G PROVE n \in G
  <2>1. n \in 1 .. Len(t)
    OBVIOUS
  <2>2. SumTo(s)[n] = SumTo(s)[n - 1] + s[n] /\ SumTo(t)[n] = SumTo(t)[n - 1] + t[n]
    BY <2>1, SumToDef
  <2>3. QED
    BY <1>2, <2>2
<1>3. \A n \in 0 .. Len(s) : n \in G
  <2> HIDE DEF G
  <2>1. Len(s) \in Nat
    OBVIOUS
  <2>2. QED
    BY <1>1, <1>2, <2>1, Induction
<1>4. QED
  BY <1>3

\* One more entry is one more term.
LEMMA SumAppend ==
  ASSUME NEW s \in Seq(Int), NEW x \in Int
  PROVE  Sum(Append(s, x)) = Sum(s) + x
<1>1. Append(s, x) \in Seq(Int) /\ Len(Append(s, x)) = Len(s) + 1 /\ Append(s, x)[Len(s) + 1] = x
      /\ \A n \in 1 .. Len(s) : Append(s, x)[n] = s[n]
  OBVIOUS
<1> DEFINE t == Append(s, x)
<1> HIDE DEF t
<1>2. Len(s) \in Nat
  OBVIOUS
<1>3. t \in Seq(Int) /\ Len(t) = Len(s) + 1 /\ t[Len(s) + 1] = x /\ \A n \in 1 .. Len(s) : s[n] = t[n]
  BY <1>1 DEF t
<1>4. SumTo(t)[Len(s)] = SumTo(s)[Len(s)]
  BY <1>2, <1>3, SumToAgree
<1>5. SumTo(t)[Len(s) + 1] = SumTo(t)[Len(s)] + x
  <2>1. Len(s) + 1 \in 1 .. Len(t) /\ Len(s) + 1 - 1 = Len(s)
    BY <1>2, <1>3
  <2>2. \A n \in 1 .. Len(t) : SumTo(t)[n] = SumTo(t)[n - 1] + t[n]
    BY <1>3, SumToDef
  <2>3. QED
    BY <1>3, <2>1, <2>2
<1>6. QED
  BY <1>3, <1>4, <1>5 DEF Sum, t

-----------------------------------------------------------------------------
(* The sizes. *)

\* Where the splitting is, and what the piece being filled is like there.
Shape ==
  /\ text \in Seq(Section)
  /\ sect \in 1 .. Len(text) + 1 /\ para \in Nat /\ sent \in Nat
  /\ para # 0 => ~Done /\ para <= Len(Sect.paras) + 1
  /\ sent # 0 => AtPara /\ sent <= Len(ThePara.sentences) + 1
  /\ buf \in Piece /\ pieces \in Seq(Piece)
  /\ para = 0 => buf = Nothing

\* A piece that may be kept: not empty, joined only up to the target, and nothing but one
\* sentence if it is one part of a long paragraph.
Sized(p) == p.len > 0 /\ p.parts > 0 /\ (p.parts > 1 => p.len <= TargetChars)

Sizes ==
  /\ buf = Nothing \/ Sized(buf)
  /\ sent # 0 /\ buf.parts = 1 => buf.chars = buf.len
  /\ \A i \in 1 .. Len(pieces) : Sized(pieces[i])
  /\ SentencesFit => buf.len <= MaxChars /\ PiecesFit

\* The characters before a place in a text.
Consumed(t, s, p, q) ==
  SumTo(Chars(t))[s - 1]
    + (IF p = 0 THEN 0 ELSE SumTo(Chars(t[s].paras))[p - 1])
    + (IF q = 0 THEN 0 ELSE SumTo(t[s].paras[p].sentences)[q - 1])

\* What has been read is in the pieces or in the buffer.
Conserved == Sum(Chars(pieces)) + buf.chars = Consumed(text, sect, para, sent)

-----------------------------------------------------------------------------
\* The characters of the things of a sequence.
LEMMA CharsOf ==
  ASSUME NEW T, NEW things \in Seq(T), \A t \in T : t.chars \in Int
  PROVE  /\ Chars(things) \in Seq(Int)
         /\ Len(Chars(things)) = Len(things)
         /\ \A i \in 1 .. Len(things) : Chars(things)[i] = things[i].chars
<1>1. DOMAIN things = 1 .. Len(things) /\ Len(things) \in Nat
      /\ \A i \in 1 .. Len(things) : things[i] \in T
  OBVIOUS
<1>2. Chars(things) \in [1 .. Len(things) -> Int]
  BY <1>1 DEF Chars
<1>3. QED
  BY <1>1, <1>2 DEF Chars

\* One more piece.
LEMMA AppendPiece ==
  ASSUME NEW ps \in Seq(Piece), NEW p \in Piece
  PROVE  /\ Append(ps, p) \in Seq(Piece)
         /\ \A i \in 1 .. Len(Append(ps, p)) :
              \/ i \in 1 .. Len(ps) /\ Append(ps, p)[i] = ps[i]
              \/ Append(ps, p)[i] = p
         /\ Sum(Chars(ps)) \in Int
         /\ Sum(Chars(Append(ps, p))) = Sum(Chars(ps)) + p.chars
<1>1. \A t \in Piece : t.chars \in Int
  BY DEF Piece
<1>2. /\ Append(ps, p) \in Seq(Piece) /\ Len(Append(ps, p)) = Len(ps) + 1 /\ Len(ps) \in Nat
      /\ \A i \in 1 .. Len(ps) : Append(ps, p)[i] = ps[i]
      /\ Append(ps, p)[Len(ps) + 1] = p
  OBVIOUS
<1>3. Chars(ps) \in Seq(Int) /\ Len(Chars(ps)) = Len(ps) /\ p.chars \in Int
      /\ \A i \in 1 .. Len(ps) : Chars(ps)[i] = ps[i].chars
  BY <1>1, CharsOf
<1>4. Chars(Append(ps, p)) = Append(Chars(ps), p.chars)
  <2> DEFINE a == Chars(Append(ps, p))
             b == Append(Chars(ps), p.chars)
  <2>1. a \in Seq(Int) /\ Len(a) = Len(ps) + 1
        /\ \A i \in 1 .. Len(ps) + 1 : a[i] = Append(ps, p)[i].chars
    BY <1>1, <1>2, CharsOf
  <2>2. b \in Seq(Int) /\ Len(b) = Len(ps) + 1 /\ b[Len(ps) + 1] = p.chars
        /\ \A i \in 1 .. Len(ps) : b[i] = Chars(ps)[i]
    BY <1>3
  <2> HIDE DEF a, b
  <2>3. \A i \in 1 .. Len(ps) + 1 : a[i] = b[i]
    BY <1>2, <1>3, <2>1, <2>2
  <2>4. a = b
    BY <2>1, <2>2, <2>3
  <2>5. QED
    BY <2>4 DEF a, b
<1>5. Sum(Chars(ps)) \in Int
  BY <1>3, SumToDef DEF Sum
<1>6. Sum(Chars(Append(ps, p))) = Sum(Chars(ps)) + p.chars
  BY <1>3, <1>4, SumAppend
<1>7. \A i \in 1 .. Len(Append(ps, p)) :
        (i \in 1 .. Len(ps) /\ Append(ps, p)[i] = ps[i]) \/ Append(ps, p)[i] = p
  BY <1>2
<1>8. QED
  BY <1>2, <1>5, <1>6, <1>7

\* What a sequence of pieces has to be for the sizes to be kept.
Kept(ps) ==
  /\ ps \in Seq(Piece)
  /\ \A i \in 1 .. Len(ps) : Sized(ps[i])
  /\ SentencesFit => \A i \in 1 .. Len(ps) : ps[i].len <= MaxChars

LEMMA AppendKept ==
  ASSUME NEW ps, NEW p \in Piece, Kept(ps), Sized(p), SentencesFit => p.len <= MaxChars
  PROVE  Kept(Append(ps, p)) /\ Sum(Chars(Append(ps, p))) = Sum(Chars(ps)) + p.chars
<1>1. /\ Append(ps, p) \in Seq(Piece)
      /\ \A i \in 1 .. Len(Append(ps, p)) :
           \/ i \in 1 .. Len(ps) /\ Append(ps, p)[i] = ps[i]
           \/ Append(ps, p)[i] = p
      /\ Sum(Chars(Append(ps, p))) = Sum(Chars(ps)) + p.chars
  BY AppendPiece DEF Kept
<1>2. \A i \in 1 .. Len(Append(ps, p)) :
        Sized(Append(ps, p)[i]) /\ (SentencesFit => Append(ps, p)[i].len <= MaxChars)
  BY <1>1 DEF Kept
<1>3. QED
  BY <1>1, <1>2 DEF Kept

\* Flushing the buffer moves its characters to the pieces.
LEMMA FlushKeeps ==
  ASSUME Shape, Sizes
  PROVE  Kept(Flushed) /\ Sum(Chars(Flushed)) = Sum(Chars(pieces)) + buf.chars
<1>1. Kept(pieces)
  BY DEF Shape, Sizes, Kept, PiecesFit
<1>2. Sum(Chars(pieces)) \in Int /\ buf \in Piece
  BY AppendPiece DEF Shape
<1>3. CASE buf = Nothing
  BY <1>1, <1>2, <1>3 DEF Flushed, Nothing
<1>4. CASE buf # Nothing
  BY <1>1, <1>2, <1>4, AppendKept DEF Flushed, Sizes
<1>5. QED
  BY <1>3, <1>4

\* Packing a part that fits keeps the sizes, and its characters.
LEMMA PackKeeps ==
  ASSUME Shape, Sizes, NEW len \in Length, NEW chars \in Length, NEW separator \in {1, 2},
         Pack(len, chars, separator), SentencesFit => len <= MaxChars
  PROVE  /\ Kept(pieces') /\ buf' \in Piece /\ Sized(buf')
         /\ SentencesFit => buf'.len <= MaxChars
         /\ buf'.parts = 1 => buf'.len = len /\ buf'.chars = chars
         /\ Sum(Chars(pieces')) + buf'.chars = Sum(Chars(pieces)) + buf.chars + chars
<1>1. Kept(pieces)
  BY DEF Shape, Sizes, Kept, PiecesFit
<1>2. Sum(Chars(pieces)) \in Int /\ buf \in Piece
  BY AppendPiece DEF Shape
<1>3. /\ buf.len \in Nat /\ buf.chars \in Nat /\ buf.parts \in Nat
      /\ len \in Nat /\ len > 0 /\ chars \in Nat
      /\ TargetChars \in Nat /\ MaxChars \in Nat /\ TargetChars <= MaxChars
  BY <1>2, SizeAssumption DEF Piece, Length
<1>4. CASE buf # Nothing /\ buf.len + len + separator > TargetChars
  <2>1. pieces' = Append(pieces, buf) /\ buf' = [len |-> len, chars |-> chars, parts |-> 1]
    BY <1>4 DEF Pack
  <2>2. Kept(pieces') /\ Sum(Chars(pieces')) = Sum(Chars(pieces)) + buf.chars
    BY <1>1, <1>2, <1>4, <2>1, AppendKept DEF Sizes
  <2>3. QED
    BY <1>2, <1>3, <2>1, <2>2 DEF Piece, Sized
<1>5. CASE ~(buf # Nothing /\ buf.len + len + separator > TargetChars)
  <2>1. pieces' = pieces
        /\ buf' = [len   |-> buf.len + len + (IF buf = Nothing THEN 0 ELSE separator),
                   chars |-> buf.chars + chars,
                   parts |-> buf.parts + 1]
    BY <1>5 DEF Pack
  <2>2. CASE buf = Nothing
    <3>1. buf' = [len |-> len, chars |-> chars, parts |-> 1] /\ buf.chars = 0
      BY <1>3, <2>1, <2>2 DEF Nothing
    <3>2. QED
      BY <1>1, <1>2, <1>3, <2>1, <3>1 DEF Piece, Sized
  <2>3. CASE buf # Nothing
    <3>1. Sized(buf)
      BY <2>3 DEF Sizes
    <3>2. buf'.len = buf.len + len + separator /\ buf'.chars = buf.chars + chars /\ buf'.parts = buf.parts + 1
      BY <2>1, <2>3
    <3>3. buf'.len <= TargetChars
      BY <1>3, <1>5, <2>3, <3>2
    <3>4. buf' \in Piece
      BY <1>3, <2>1, <2>3 DEF Piece
    <3>5. buf'.parts # 1 /\ Sized(buf') /\ buf'.len <= MaxChars
      BY <1>3, <3>1, <3>2, <3>3 DEF Sized
    <3>6. QED
      BY <1>1, <1>2, <1>3, <2>1, <3>2, <3>4, <3>5
  <2>4. QED
    BY <2>2, <2>3
<1>6. QED
  BY <1>4, <1>5

-----------------------------------------------------------------------------
(* The place in the text. *)

\* The parts of the text there are at a place, and their sums.
LEMMA TextParts ==
  ASSUME Shape
  PROVE  /\ text \in Seq(Section) /\ Len(text) \in Nat /\ sect \in Nat /\ para \in Nat /\ sent \in Nat
         /\ ~Done => /\ sect \in 1 .. Len(text)
                     /\ Sect.len \in Length /\ Sect.chars \in Length
                     /\ Sect.paras \in Seq(Para) /\ Len(Sect.paras) \in Nat
                     /\ Sect.chars = Sum(Chars(Sect.paras))
         /\ AtPara => /\ para \in 1 .. Len(Sect.paras)
                      /\ ThePara.len \in Length /\ ThePara.chars \in Length
                      /\ ThePara.sentences \in Seq(Length) /\ Len(ThePara.sentences) \in Nat
                      /\ ThePara.chars = Sum(ThePara.sentences)
<1>1. /\ text \in Seq(Section) /\ Len(text) \in Nat /\ sect \in Nat /\ para \in Nat /\ sent \in Nat
      /\ sect \in 1 .. Len(text) + 1
  BY DEF Shape
<1>2. ASSUME ~Done PROVE sect \in 1 .. Len(text) /\ Sect \in Section
  BY <1>1, <1>2 DEF Done, Sect
<1>3. ASSUME NEW s \in Section
      PROVE  /\ s.len \in Length /\ s.chars \in Length
             /\ s.paras \in Seq(Para) /\ Len(s.paras) \in Nat /\ s.chars = Sum(Chars(s.paras))
  BY DEF Section
<1>4. ASSUME AtPara PROVE para \in 1 .. Len(Sect.paras) /\ ThePara \in Para
  <2>1. Sect.paras \in Seq(Para) /\ para \in 1 .. Len(Sect.paras)
    BY <1>2, <1>3, <1>4 DEF AtPara
  <2>2. QED
    BY <2>1 DEF ThePara
<1>5. ASSUME NEW p \in Para
      PROVE  /\ p.len \in Length /\ p.chars \in Length
             /\ p.sentences \in Seq(Length) /\ Len(p.sentences) \in Nat /\ p.chars = Sum(p.sentences)
  BY DEF Para
<1>6. QED
  BY <1>1, <1>2, <1>3, <1>4, <1>5

\* How sums go along the sections of a text, the paragraphs of a section and the sentences
\* of a paragraph.
LEMMA CharsAdvance ==
  ASSUME NEW T, NEW things \in Seq(T), \A t \in T : t.chars \in Int
  PROVE  /\ SumTo(Chars(things))[0] = 0
         /\ \A n \in 1 .. Len(things) :
              SumTo(Chars(things))[n] = SumTo(Chars(things))[n - 1] + things[n].chars
         /\ \A n \in 0 .. Len(things) : SumTo(Chars(things))[n] \in Int
         /\ Sum(Chars(things)) = SumTo(Chars(things))[Len(things)]
<1>1. /\ Chars(things) \in Seq(Int) /\ Len(Chars(things)) = Len(things)
      /\ \A i \in 1 .. Len(things) : Chars(things)[i] = things[i].chars
  BY CharsOf
<1>2. QED
  BY <1>1, SumToDef DEF Sum

LEMMA PlaceAdvances ==
  ASSUME Shape
  PROVE  /\ SumTo(Chars(text))[0] = 0
         /\ ~Done => /\ SumTo(Chars(text))[sect] = SumTo(Chars(text))[sect - 1] + Sect.chars
                     /\ SumTo(Chars(text))[sect - 1] \in Int
                     /\ SumTo(Chars(Sect.paras))[0] = 0
                     /\ SumTo(Chars(Sect.paras))[Len(Sect.paras)] = Sect.chars
         /\ AtPara => /\ SumTo(Chars(Sect.paras))[para] = SumTo(Chars(Sect.paras))[para - 1] + ThePara.chars
                      /\ SumTo(Chars(Sect.paras))[para - 1] \in Int
                      /\ SumTo(ThePara.sentences)[0] = 0
                      /\ SumTo(ThePara.sentences)[Len(ThePara.sentences)] = ThePara.chars
         /\ AtSentence => /\ SumTo(ThePara.sentences)[sent] =
                                SumTo(ThePara.sentences)[sent - 1] + ThePara.sentences[sent]
                          /\ SumTo(ThePara.sentences)[sent - 1] \in Int
                          /\ ThePara.sentences[sent] \in Length
<1>1. (\A t \in Section : t.chars \in Int) /\ (\A t \in Para : t.chars \in Int)
  BY DEF Section, Para, Length
<1>2. SumTo(Chars(text))[0] = 0
  BY <1>1, TextParts, CharsAdvance
<1>3. ASSUME ~Done
      PROVE  /\ SumTo(Chars(text))[sect] = SumTo(Chars(text))[sect - 1] + Sect.chars
             /\ SumTo(Chars(text))[sect - 1] \in Int
  <2>1. sect \in 1 .. Len(text) /\ sect - 1 \in 0 .. Len(text) /\ text \in Seq(Section)
    BY <1>3, TextParts
  <2>2. QED
    BY <1>1, <2>1, CharsAdvance DEF Sect
<1>4. ASSUME ~Done
      PROVE  /\ SumTo(Chars(Sect.paras))[0] = 0
             /\ SumTo(Chars(Sect.paras))[Len(Sect.paras)] = Sect.chars
  <2>1. Sect.paras \in Seq(Para) /\ Sect.chars = Sum(Chars(Sect.paras))
    BY <1>4, TextParts
  <2>2. QED
    BY <1>1, <2>1, CharsAdvance
<1>5. ASSUME AtPara
      PROVE  /\ SumTo(Chars(Sect.paras))[para] = SumTo(Chars(Sect.paras))[para - 1] + ThePara.chars
             /\ SumTo(Chars(Sect.paras))[para - 1] \in Int
  <2>1. ~Done
    BY <1>5 DEF AtPara
  <2>2. Sect.paras \in Seq(Para) /\ para \in 1 .. Len(Sect.paras) /\ para - 1 \in 0 .. Len(Sect.paras)
    BY <1>5, <2>1, TextParts
  <2>3. QED
    BY <1>1, <2>2, CharsAdvance DEF ThePara
<1>6. ASSUME AtPara
      PROVE  /\ ThePara.sentences \in Seq(Int)
             /\ SumTo(ThePara.sentences)[0] = 0
             /\ SumTo(ThePara.sentences)[Len(ThePara.sentences)] = ThePara.chars
  <2>1. ThePara.sentences \in Seq(Length) /\ ThePara.chars = Sum(ThePara.sentences)
    BY <1>6, TextParts
  <2>2. ThePara.sentences \in Seq(Int)
    BY <2>1 DEF Length
  <2>3. QED
    BY <2>1, <2>2, SumToDef DEF Sum
<1>7. ASSUME AtSentence
      PROVE  /\ SumTo(ThePara.sentences)[sent] =
                   SumTo(ThePara.sentences)[sent - 1] + ThePara.sentences[sent]
             /\ SumTo(ThePara.sentences)[sent - 1] \in Int
             /\ ThePara.sentences[sent] \in Length
  <2>1. AtPara /\ sent \in 1 .. Len(ThePara.sentences)
    BY <1>7 DEF AtSentence
  <2>2. ThePara.sentences \in Seq(Length) /\ sent - 1 \in 0 .. Len(ThePara.sentences)
    BY <2>1, TextParts
  <2>3. QED
    BY <1>6, <2>1, <2>2, SumToDef
<1>8. QED
  BY <1>2, <1>3, <1>4, <1>5, <1>6, <1>7

-----------------------------------------------------------------------------
(* The steps. *)

Inv == Shape /\ Sizes /\ Conserved

\* What every step below has to show, once the place it moves to is known.
LEMMA InvFromParts ==
  ASSUME UNCHANGED text, Kept(pieces'), buf' \in Piece,
         sect' \in 1 .. Len(text) + 1, para' \in Nat, sent' \in Nat, Shape,
         para' # 0 => ~Done' /\ para' <= Len(Sect'.paras) + 1,
         sent' # 0 => AtPara' /\ sent' <= Len(ThePara'.sentences) + 1,
         para' = 0 => buf' = Nothing,
         buf' = Nothing \/ Sized(buf'),
         sent' # 0 /\ buf'.parts = 1 => buf'.chars = buf'.len,
         SentencesFit => buf'.len <= MaxChars,
         Sum(Chars(pieces')) + buf'.chars = Consumed(text, sect', para', sent')
  PROVE  Inv'
<1>1. Kept(pieces)' = Kept(pieces')
  BY DEF Kept, SentencesFit
<1>2. SentencesFit' = SentencesFit
  BY DEF SentencesFit
<1>3. Shape'
  BY DEF Shape, Kept
<1>4. Sizes'
  BY <1>2 DEF Sizes, Kept, PiecesFit
<1>5. QED
  BY <1>3, <1>4 DEF Inv, Conserved

LEMMA NothingIsSmall == Nothing \in Piece /\ Nothing.len = 0 /\ Nothing.len <= MaxChars
                          /\ Nothing.parts = 0 /\ Nothing.chars = 0
BY SizeAssumption DEF Nothing, Piece

LEMMA SectionStepsKeepInv ==
  ASSUME Inv, KeepSection \/ OpenSection \/ EndSection PROVE Inv'
<1> USE DEF Inv
<1>1. Kept(pieces)
  BY DEF Shape, Sizes, Kept, PiecesFit
<1>2. buf \in Piece /\ Sum(Chars(pieces)) \in Int
  BY AppendPiece DEF Shape
<1>3. CASE KeepSection
  <2> DEFINE p == [len |-> Sect.len, chars |-> Sect.chars, parts |-> 1]
  <2>1. ~Done /\ para = 0 /\ Sect.len <= MaxChars /\ sect' = sect + 1
        /\ UNCHANGED <<text, para, sent, buf>> /\ pieces' = Append(pieces, p)
    BY <1>3 DEF KeepSection
  <2>2. p \in Piece /\ Sized(p) /\ p.len <= MaxChars /\ p.chars = Sect.chars
    BY <2>1, TextParts DEF Piece, Sized, Length
  <2> HIDE DEF p
  <2>3. Kept(pieces') /\ Sum(Chars(pieces')) = Sum(Chars(pieces)) + Sect.chars
    BY <1>1, <2>1, <2>2, AppendKept
  <2>4. buf = Nothing /\ sent = 0
    BY <2>1 DEF Shape, AtPara
  <2>5. SumTo(Chars(text))[sect' - 1] = SumTo(Chars(text))[sect - 1] + Sect.chars
        /\ SumTo(Chars(text))[sect - 1] \in Int /\ Sect.chars \in Nat /\ sect' \in 1 .. Len(text) + 1
    <3>1. sect' - 1 = sect /\ sect' \in 1 .. Len(text) + 1
      BY <2>1, TextParts
    <3>2. QED
      BY <2>1, <3>1, PlaceAdvances, TextParts DEF Length
  <2>6. Sum(Chars(pieces')) + buf'.chars = Consumed(text, sect', para', sent')
    BY <1>2, <2>1, <2>3, <2>4, <2>5, NothingIsSmall DEF Conserved, Consumed
  <2>7. QED
    BY <1>2, <2>1, <2>3, <2>4, <2>5, <2>6, InvFromParts, NothingIsSmall, TextParts
<1>4. CASE OpenSection
  <2>1. ~Done /\ para = 0 /\ para' = 1 /\ UNCHANGED <<text, sect, sent, buf, pieces>>
    BY <1>4 DEF OpenSection
  <2>2. buf = Nothing /\ sent = 0
    BY <2>1 DEF Shape, AtPara
  <2>3. SumTo(Chars(Sect.paras))[para' - 1] = 0 /\ Len(Sect.paras) \in Nat
    BY <2>1, PlaceAdvances, TextParts
  <2>4. SumTo(Chars(text))[sect - 1] \in Int
    BY <2>1, PlaceAdvances
  <2>5. Sum(Chars(pieces')) + buf'.chars = Consumed(text, sect', para', sent')
    BY <1>2, <2>1, <2>2, <2>3, <2>4, NothingIsSmall DEF Conserved, Consumed, Sect
  <2>6. Done' = Done /\ Sect' = Sect
    BY <2>1 DEF Done, Sect
  <2>7. QED
    BY <1>1, <1>2, <2>1, <2>2, <2>3, <2>5, <2>6, InvFromParts, NothingIsSmall, TextParts
<1>5. CASE EndSection
  <2>1. ~Done /\ para > Len(Sect.paras) /\ pieces' = Flushed /\ buf' = Nothing /\ para' = 0
        /\ sect' = sect + 1 /\ UNCHANGED <<text, sent>>
    BY <1>5 DEF EndSection
  <2>2. Kept(pieces') /\ Sum(Chars(pieces')) = Sum(Chars(pieces)) + buf.chars
    BY <2>1, FlushKeeps
  <2>3. sent = 0 /\ para # 0 /\ para - 1 = Len(Sect.paras)
    BY <2>1, TextParts DEF Shape, AtPara
  <2>4. /\ SumTo(Chars(text))[sect' - 1] = SumTo(Chars(text))[sect - 1] + Sect.chars
        /\ SumTo(Chars(Sect.paras))[para - 1] = Sect.chars
        /\ SumTo(Chars(text))[sect - 1] \in Int /\ Sect.chars \in Nat /\ sect' \in 1 .. Len(text) + 1
    <3>1. sect' - 1 = sect /\ sect' \in 1 .. Len(text) + 1
      BY <2>1, TextParts
    <3>2. QED
      BY <2>1, <2>3, <3>1, PlaceAdvances, TextParts DEF Length
  <2>5. buf.chars \in Int
    BY <1>2 DEF Piece
  <2>6. Sum(Chars(pieces')) + buf'.chars = Consumed(text, sect', para', sent')
    BY <1>2, <2>1, <2>2, <2>3, <2>4, <2>5, NothingIsSmall DEF Conserved, Consumed, Sect
  <2>7. QED
    BY <2>1, <2>2, <2>3, <2>4, <2>6, InvFromParts, NothingIsSmall
<1>6. QED
  BY <1>3, <1>4, <1>5

LEMMA ParagraphStepsKeepInv ==
  ASSUME Inv, PackPara \/ OpenPara \/ EndPara PROVE Inv'
<1> USE DEF Inv
<1>1. Kept(pieces) /\ buf \in Piece /\ Sum(Chars(pieces)) \in Int /\ buf.chars \in Int
  BY AppendPiece DEF Shape, Sizes, Kept, PiecesFit, Piece
<1>2. AtPara /\ ~Done /\ para # 0
  BY DEF PackPara, OpenPara, EndPara, PastLast, AtPara
<1>3. /\ SumTo(Chars(text))[sect - 1] \in Int
      /\ SumTo(Chars(Sect.paras))[para - 1] \in Int
      /\ SumTo(Chars(Sect.paras))[para] = SumTo(Chars(Sect.paras))[para - 1] + ThePara.chars
      /\ SumTo(ThePara.sentences)[0] = 0
      /\ SumTo(ThePara.sentences)[Len(ThePara.sentences)] = ThePara.chars
      /\ ThePara.len \in Length /\ ThePara.chars \in Length /\ ThePara.chars \in Int
      /\ para + 1 \in Nat /\ para + 1 <= Len(Sect.paras) + 1 /\ para + 1 # 0 /\ para + 1 - 1 = para
      /\ Len(ThePara.sentences) \in Nat /\ sect \in 1 .. Len(text) + 1 /\ para \in Nat
  BY <1>2, PlaceAdvances, TextParts DEF Length, Shape
<1>4. Sum(Chars(pieces)) + buf.chars =
        SumTo(Chars(text))[sect - 1] + SumTo(Chars(Sect.paras))[para - 1]
          + (IF sent = 0 THEN 0 ELSE SumTo(ThePara.sentences)[sent - 1])
  BY <1>2 DEF Conserved, Consumed, Sect, ThePara
<1>5. CASE PackPara
  <2>1. /\ sent = 0 /\ ThePara.len <= MaxChars /\ Pack(ThePara.len, ThePara.chars, 2)
        /\ para' = para + 1 /\ UNCHANGED <<text, sect, sent>>
    BY <1>5 DEF PackPara
  <2>2. /\ Kept(pieces') /\ buf' \in Piece /\ Sized(buf')
        /\ SentencesFit => buf'.len <= MaxChars
        /\ Sum(Chars(pieces')) + buf'.chars = Sum(Chars(pieces)) + buf.chars + ThePara.chars
    BY <1>3, <2>1, PackKeeps
  <2>3. Sum(Chars(pieces')) + buf'.chars = Consumed(text, sect', para', sent')
    <3>1. Sum(Chars(pieces')) + buf'.chars =
            SumTo(Chars(text))[sect - 1] + SumTo(Chars(Sect.paras))[para' - 1]
      BY <1>1, <1>3, <1>4, <2>1, <2>2
    <3>2. QED
      BY <1>3, <2>1, <3>1 DEF Consumed, Sect
  <2>4. Done' = Done /\ Sect' = Sect
    BY <2>1 DEF Done, Sect
  <2>5. QED
    BY <1>2, <1>3, <2>1, <2>2, <2>3, <2>4, InvFromParts
<1>6. CASE OpenPara
  <2>1. /\ sent = 0 /\ pieces' = Flushed /\ buf' = Nothing /\ sent' = 1
        /\ UNCHANGED <<text, sect, para>>
    BY <1>6 DEF OpenPara
  <2>2. Kept(pieces') /\ Sum(Chars(pieces')) = Sum(Chars(pieces)) + buf.chars
    BY <2>1, FlushKeeps
  <2>3. Sum(Chars(pieces')) + buf'.chars = Consumed(text, sect', para', sent')
    <3>1. Sum(Chars(pieces')) + buf'.chars =
            SumTo(Chars(text))[sect - 1] + SumTo(Chars(Sect.paras))[para - 1]
      BY <1>1, <1>3, <1>4, <2>1, <2>2, NothingIsSmall
    <3>2. Consumed(text, sect', para', sent') =
            SumTo(Chars(text))[sect - 1] + SumTo(Chars(Sect.paras))[para - 1] + 0
      BY <1>2, <1>3, <2>1 DEF Consumed, Sect, ThePara
    <3>3. QED
      BY <1>3, <3>1, <3>2
  <2>4. Done' = Done /\ Sect' = Sect /\ ThePara' = ThePara /\ AtPara'
    BY <1>2, <2>1 DEF Done, Sect, ThePara, AtPara
  <2>5. QED
    BY <1>2, <1>3, <2>1, <2>2, <2>3, <2>4, InvFromParts, NothingIsSmall DEF Shape
<1>7. CASE EndPara
  <2>1. /\ sent = Len(ThePara.sentences) + 1 /\ pieces' = Flushed /\ buf' = Nothing /\ sent' = 0
        /\ para' = para + 1 /\ UNCHANGED <<text, sect>>
    BY <1>7 DEF EndPara, PastLast
  <2>2. Kept(pieces') /\ Sum(Chars(pieces')) = Sum(Chars(pieces)) + buf.chars
    BY <2>1, FlushKeeps
  <2>3. sent # 0 /\ sent - 1 = Len(ThePara.sentences)
    BY <1>3, <2>1
  <2>4. Sum(Chars(pieces')) + buf'.chars = Consumed(text, sect', para', sent')
    <3>1. Sum(Chars(pieces')) + buf'.chars =
            SumTo(Chars(text))[sect - 1] + SumTo(Chars(Sect.paras))[para' - 1]
      BY <1>1, <1>3, <1>4, <2>1, <2>2, <2>3, NothingIsSmall
    <3>2. QED
      BY <1>3, <2>1, <3>1 DEF Consumed, Sect
  <2>5. Done' = Done /\ Sect' = Sect
    BY <2>1 DEF Done, Sect
  <2>6. QED
    BY <1>2, <1>3, <2>1, <2>2, <2>4, <2>5, InvFromParts, NothingIsSmall
<1>8. QED
  BY <1>5, <1>6, <1>7

LEMMA SentenceStepsKeepInv ==
  ASSUME Inv, PackSentence \/ HardCut PROVE Inv'
<1> USE DEF Inv
<1>1. Kept(pieces) /\ buf \in Piece /\ Sum(Chars(pieces)) \in Int /\ buf.chars \in Int
  BY AppendPiece DEF Shape, Sizes, Kept, PiecesFit, Piece
<1>2. AtPara /\ ~Done /\ para # 0
  BY DEF PackSentence, HardCut, PastLast, AtSentence, AtPara
<1>3. /\ SumTo(Chars(text))[sect - 1] \in Int /\ SumTo(Chars(Sect.paras))[para - 1] \in Int
      /\ sect \in 1 .. Len(text) + 1 /\ para \in Nat /\ para <= Len(Sect.paras) + 1
      /\ sent \in Nat /\ Len(ThePara.sentences) \in Nat
  BY <1>2, PlaceAdvances, TextParts DEF Shape
<1>4. CASE PackSentence
  <2> DEFINE n == ThePara.sentences[sent]
  <2>1. AtSentence /\ Pack(n, n, 1) /\ sent' = sent + 1 /\ UNCHANGED <<text, sect, para>>
    BY <1>4 DEF PackSentence
  <2>2. /\ SumTo(ThePara.sentences)[sent] = SumTo(ThePara.sentences)[sent - 1] + n
        /\ SumTo(ThePara.sentences)[sent - 1] \in Int /\ n \in Length /\ n \in Int
    BY <2>1, PlaceAdvances DEF Length
  <2>3. sent \in 1 .. Len(ThePara.sentences) /\ sent # 0 /\ sent' # 0 /\ sent' \in Nat
        /\ sent' <= Len(ThePara.sentences) + 1 /\ sent' - 1 = sent
    BY <1>3, <2>1 DEF AtSentence
  <2>4. SentencesFit => n <= MaxChars
    <3>1. sect \in 1 .. Len(text) /\ para \in 1 .. Len(text[sect].paras)
          /\ sent \in 1 .. Len(text[sect].paras[para].sentences)
          /\ n = text[sect].paras[para].sentences[sent]
      BY <1>2, <2>3, TextParts DEF Sect, ThePara
    <3>2. QED
      BY <3>1 DEF SentencesFit
  <2> HIDE DEF n
  <2>5. /\ Kept(pieces') /\ buf' \in Piece /\ Sized(buf')
        /\ SentencesFit => buf'.len <= MaxChars
        /\ buf'.parts = 1 => buf'.len = n /\ buf'.chars = n
        /\ Sum(Chars(pieces')) + buf'.chars = Sum(Chars(pieces)) + buf.chars + n
    BY <2>1, <2>2, <2>4, PackKeeps
  <2>6. Sum(Chars(pieces)) + buf.chars =
          SumTo(Chars(text))[sect - 1] + SumTo(Chars(Sect.paras))[para - 1]
            + SumTo(ThePara.sentences)[sent - 1]
    BY <1>2, <2>3 DEF Conserved, Consumed, Sect, ThePara
  <2>7. Sum(Chars(pieces')) + buf'.chars = Consumed(text, sect', para', sent')
    <3>1. Sum(Chars(pieces')) + buf'.chars =
            SumTo(Chars(text))[sect - 1] + SumTo(Chars(Sect.paras))[para - 1]
              + SumTo(ThePara.sentences)[sent' - 1]
      <4>1. SumTo(ThePara.sentences)[sent' - 1] = SumTo(ThePara.sentences)[sent - 1] + n
        BY <2>2, <2>3
      <4>2. Sum(Chars(pieces')) + buf'.chars =
              SumTo(Chars(text))[sect - 1] + SumTo(Chars(Sect.paras))[para - 1]
                + (SumTo(ThePara.sentences)[sent - 1] + n)
        BY <1>3, <2>2, <2>5, <2>6
      <4>3. QED
        BY <4>1, <4>2
    <3>2. QED
      BY <1>2, <2>1, <2>3, <3>1 DEF Consumed, Sect, ThePara
  <2>8. Done' = Done /\ Sect' = Sect /\ ThePara' = ThePara /\ AtPara'
    BY <1>2, <2>1 DEF Done, Sect, ThePara, AtPara
  <2>9. QED
    BY <1>2, <1>3, <2>1, <2>3, <2>5, <2>7, <2>8, InvFromParts
<1>5. CASE HardCut
  <2> DEFINE p == [len |-> MaxChars, chars |-> MaxChars, parts |-> 1]
  <2>1. /\ sent = Len(ThePara.sentences) + 1 /\ buf.len > MaxChars /\ pieces' = Append(pieces, p)
        /\ buf' = [len |-> buf.len - MaxChars, chars |-> buf.chars - MaxChars, parts |-> 1]
        /\ UNCHANGED <<text, sect, para, sent>>
    BY <1>5 DEF HardCut, PastLast, Cut
  <2>2. /\ MaxChars \in Nat /\ MaxChars > 0 /\ TargetChars \in Nat /\ TargetChars <= MaxChars
        /\ buf.len \in Nat /\ buf.chars \in Nat /\ buf.parts \in Nat /\ sent # 0
    BY <1>1, <1>3, <2>1, SizeAssumption DEF Piece, Length
  <2>3. buf.parts = 1 /\ buf.chars = buf.len
    <3>1. Sized(buf)
      BY <2>1, <2>2, NothingIsSmall DEF Sizes
    <3>2. buf.parts = 1
      BY <2>1, <2>2, <3>1 DEF Sized
    <3>3. QED
      BY <2>2, <3>2 DEF Sizes
  <2>4. ~SentencesFit
    BY <2>1, <2>2 DEF Sizes
  <2>5. p \in Piece /\ Sized(p) /\ p.chars = MaxChars
    BY <2>2 DEF Piece, Sized
  <2> HIDE DEF p
  <2>6. Kept(pieces') /\ Sum(Chars(pieces')) = Sum(Chars(pieces)) + MaxChars
    BY <1>1, <2>1, <2>4, <2>5, AppendKept
  <2>7. /\ buf' \in Piece /\ Sized(buf') /\ buf'.parts = 1 /\ buf'.chars = buf'.len
        /\ buf'.chars = buf.chars - MaxChars
    BY <2>1, <2>2, <2>3 DEF Piece, Sized
  <2>8. Sum(Chars(pieces')) + buf'.chars = Consumed(text, sect', para', sent')
    <3>1. Sum(Chars(pieces')) + buf'.chars = Sum(Chars(pieces)) + buf.chars
      BY <1>1, <2>2, <2>6, <2>7
    <3>2. QED
      BY <2>1, <3>1 DEF Conserved
  <2>9. Done' = Done /\ Sect' = Sect /\ ThePara' = ThePara /\ AtPara'
    BY <1>2, <2>1 DEF Done, Sect, ThePara, AtPara
  <2>10. QED
    BY <1>2, <1>3, <2>1, <2>2, <2>4, <2>6, <2>7, <2>8, <2>9, InvFromParts
<1>6. QED
  BY <1>4, <1>5

LEMMA InvHolds == Spec => []Inv
<1>1. Init => Inv
  <2> SUFFICES ASSUME Init PROVE Inv
    OBVIOUS
  <2>1. text \in Seq(Section) /\ Len(text) \in Nat
    BY TextAssumption DEF Init
  <2>2. pieces = <<>> /\ pieces \in Seq(Piece) /\ Len(pieces) = 0
    BY DEF Init
  <2>3. Shape /\ Sizes
    BY <2>1, <2>2, NothingIsSmall, SizeAssumption DEF Init, Shape, Sizes, AtPara, PiecesFit
  <2>4. Sum(Chars(pieces)) = 0
    <3>0. \A t \in Piece : t.chars \in Int
      BY DEF Piece
    <3>1. Chars(pieces) \in Seq(Int) /\ Len(Chars(pieces)) = 0
      BY <2>2, <3>0, CharsOf
    <3>2. QED
      BY <3>1, SumToDef DEF Sum
  <2>5. Consumed(text, sect, para, sent) = 0 /\ buf.chars = 0
    BY <2>3, PlaceAdvances, NothingIsSmall DEF Init, Consumed
  <2>6. QED
    BY <2>3, <2>4, <2>5 DEF Inv, Conserved
<1>2. Inv /\ [Next]_vars => Inv'
  <2> SUFFICES ASSUME Inv, [Next]_vars PROVE Inv'
    OBVIOUS
  <2>1. CASE UNCHANGED vars
    BY <2>1 DEF vars, Inv, Shape, Sizes, Conserved, PiecesFit, SentencesFit, Done, Sect, AtPara, ThePara
  <2>2. QED
    BY <2>1, SectionStepsKeepInv, ParagraphStepsKeepInv, SentenceStepsKeepInv DEF Next, Split
<1>3. QED
  BY <1>1, <1>2, PTL DEF Spec

\* Packing joins parts only up to the target and yields no empty chunk, whatever the text;
\* and no chunk is over the limit if no sentence is.
THEOREM SizesAlwaysKept == Spec => []SizesAreKept
<1>1. Inv => SizesAreKept
  BY DEF Inv, Sizes, Sized, SizesAreKept
<1>2. QED
  BY <1>1, InvHolds, PTL

\* The chunks hold all characters of the document, separators apart, and none twice.
THEOREM TextIsConserved == Spec => []NothingLost
<1>1. Inv => NothingLost
  <2> SUFFICES ASSUME Inv, Done PROVE Sum(Chars(pieces)) = Sum(Chars(text))
    BY DEF NothingLost
  <2>1. para = 0 /\ sent = 0 /\ buf = Nothing
    BY DEF Inv, Shape, AtPara
  <2>2. sect - 1 = Len(text)
    BY TextParts DEF Inv, Shape, Done
  <2>3. /\ SumTo(Chars(text))[Len(text)] = Sum(Chars(text))
        /\ SumTo(Chars(text))[Len(text)] \in Int
    BY TextParts, CharsAdvance DEF Inv, Section, Length
  <2>4. Sum(Chars(pieces)) \in Int
    BY NothingIsSmall, AppendPiece DEF Inv, Shape
  <2>5. QED
    BY <2>1, <2>2, <2>3, <2>4, NothingIsSmall DEF Inv, Conserved, Consumed
<1>2. QED
  BY <1>1, InvHolds, PTL

-----------------------------------------------------------------------------
(* Progress. *)

LEMMA StepAdvances == ASSUME Inv, Split PROVE Advances
<1> USE DEF Inv, Shape
<1>0. ~Done
  BY DEF Split, KeepSection, OpenSection, PackPara, OpenPara, PackSentence, HardCut, EndPara,
         EndSection, AtSentence, PastLast, AtPara
<1>1. /\ ~Done /\ text' = text /\ sect \in 1 .. Len(text) + 1 /\ para \in Nat /\ sent \in Nat
      /\ Len(text) \in Nat /\ buf.len \in Nat /\ MaxChars \in Nat /\ MaxChars > 0
  BY <1>0, TextParts, SizeAssumption
  DEF Split, KeepSection, OpenSection, PackPara, OpenPara, PackSentence, HardCut, Cut, EndPara,
      EndSection, Piece, Length
<1>2. CASE KeepSection \/ EndSection
  BY <1>1, <1>2 DEF KeepSection, EndSection, Done, Advances
<1>3. CASE OpenSection
  <2>1. Len(Sect.paras) \in Nat
    BY <1>1, <1>3, TextParts DEF OpenSection
  <2>2. QED
    BY <1>1, <1>3, <2>1 DEF OpenSection, Advances
<1>4. CASE PackPara \/ EndPara
  <2>1. AtPara /\ para' = para + 1 /\ sect' = sect
    BY <1>4 DEF PackPara, EndPara, PastLast
  <2>2. QED
    BY <1>1, <2>1 DEF AtPara, Advances
<1>5. CASE OpenPara
  <2>1. AtPara /\ sent = 0 /\ sent' = 1 /\ para' = para /\ sect' = sect
    BY <1>5 DEF OpenPara
  <2>2. Len(ThePara.sentences) \in Nat
    BY <2>1, TextParts DEF AtPara
  <2>3. QED
    BY <1>1, <2>1, <2>2 DEF AtPara, Advances
<1>6. CASE PackSentence
  <2>1. AtSentence /\ sent' = sent + 1 /\ para' = para /\ sect' = sect
    BY <1>6 DEF PackSentence
  <2>2. QED
    BY <1>1, <2>1 DEF AtSentence, AtPara, Advances
<1>7. CASE HardCut
  <2>1. /\ PastLast /\ buf.len > MaxChars /\ buf'.len = buf.len - MaxChars
        /\ UNCHANGED <<sect, para, sent>>
    BY <1>7 DEF HardCut, Cut
  <2>2. buf'.len \in 0 .. buf.len - 1
    BY <1>1, <2>1
  <2>3. Len(ThePara.sentences) \in Nat
    BY <2>1, TextParts DEF PastLast, AtPara
  <2>4. QED
    BY <1>1, <2>1, <2>2, <2>3 DEF PastLast, AtPara, Advances
<1>8. QED
  BY <1>2, <1>3, <1>4, <1>5, <1>6, <1>7 DEF Split

\* No round of chunk_text()'s loops leaves everything as it was, for texts of any structure
\* and any sizes: the while of the hard cut shortens its rest each time.
THEOREM AlwaysAdvances == Spec => RoundsAdvance
<1>1. Inv /\ [Next]_vars => [Advances]_vars
  BY StepAdvances DEF Next
<1>2. QED
  BY <1>1, InvHolds, PTL DEF Spec, RoundsAdvance
=============================================================================
