------------------------------- MODULE Screen -------------------------------
(***************************************************************************)
(* The screen behind kout::print(): the frame buffer and its back buffer   *)
(* (frameBuffer.cpp), glyphs (psfRenderer.cpp, stringWriter.cpp) and the   *)
(* screenBuffer of console.cpp with its cursor.  Operators only: a screen  *)
(* is a record, and each operator gives the screen after a call.           *)
(***************************************************************************)
EXTENDS Integers, Sequences, FiniteSets, FiniteSetsExt, SequencesExt

CONSTANTS Width, Height,          \* of the frame buffer, in pixels
          FontWidth, FontHeight,
          ByteBits                \* pixels of one byte of a glyph

ASSUME ScreenConstants ==
  /\ {Width, Height, FontWidth, FontHeight, ByteBits} \subseteq Nat \ {0}
  /\ FontWidth <= Width /\ FontHeight <= Height

Pixels == (0 .. Width - 1) \X (0 .. Height - 1)
Black == <<>>

\* A glyph is an array of bits; a pixel shows one of them.  All bits of the
\* space are 0, the background.
Bit(ch, byte, bit) == IF ch = " " THEN Black ELSE <<ch, byte, bit>>

BytesPerLine(width) == (width + ByteBits - 1) \div ByteBits

\* clipRectangle(): the width and height that remain.
ClipRectangle(x, y, width, height) ==
  IF x >= Width THEN <<0, height>>
  ELSE IF y >= Height THEN <<width, 0>>
  ELSE <<Min({width, Width - x}), Min({height, Height - y})>>

\* The pixels of a clipped rectangle.
Rectangle(x, y, clip) == (x .. x + clip[1] - 1) \X (y .. y + clip[2] - 1)

\* writeBitmap(): lines of the bitmap are as long as the clipped width needs;
\* every pixel goes to the back buffer and from there to the screen.
WriteBitmap(s, x, y, width, height, ch) ==
  LET clip == ClipRectangle(x, y, width, height)
      pixel(p) == Bit(ch, (p[2] - y) * BytesPerLine(clip[1]) + (p[1] - x) \div ByteBits,
                      (p[1] - x) % ByteBits)
      drawn(old) == [p \in Pixels |-> IF p \in Rectangle(x, y, clip) THEN pixel(p) ELSE old[p]]
  IN  [s EXCEPT !.back = drawn(@), !.front = drawn(@)]

\* writeCharacter() and, with the space, removeCharacter().
WriteCharacter(s, x, y, ch) == WriteBitmap(s, x, y, FontWidth, FontHeight, ch)

CopyRegion(s, x, y, width, height, newX, newY) ==
  LET from == ClipRectangle(x, y, width, height)
      clip == ClipRectangle(newX, newY, from[1], from[2])
      copied(old) == [p \in Pixels |-> IF p \in Rectangle(newX, newY, clip)
                        THEN s.back[<<p[1] - newX + x, p[2] - newY + y>>] ELSE old[p]]
  IN  [s EXCEPT !.back = copied(s.back), !.front = copied(s.front)]
-----------------------------------------------------------------------------
Columns == Width \div FontWidth
Lines == Height \div FontHeight

\* initFrameBuffer(), and what the first print() sets up.  A line of the
\* screenBuffer is what stands before its terminating 0.
BlankScreen ==
  [line |-> 0, column |-> 0, text |-> [l \in 0 .. Lines - 1 |-> <<>>],
   back |-> [p \in Pixels |-> Black], front |-> [p \in Pixels |-> Black]]

RemoveCharacters(s, l, columns) ==
  FoldSet(LAMBDA i, t : WriteCharacter(t, i * FontWidth, l * FontHeight, " "), s, columns)

\* Line i moves up by one; the rest of a longer line above it is removed.
ScrollLine(s, i) ==
  LET length == Len(s.text[i])
      cut == RemoveCharacters(s, i - 1, length .. Len(s.text[i - 1]) - 1)
  IN  CopyRegion([cut EXCEPT !.text[i - 1] = s.text[i]],
                 0, i * FontHeight, length * FontWidth, FontHeight, 0, (i - 1) * FontHeight)

ScrollDown(s) ==
  LET moved == FoldLeft(ScrollLine, s, [i \in 1 .. Lines - 1 |-> i])
      last == Lines - 1
      cleared == RemoveCharacters(moved, last, 0 .. Len(moved.text[last]) - 1)
  IN  [cleared EXCEPT !.text[last] = <<>>]

NewLine(s) ==
  IF s.line < Lines - 1 THEN [s EXCEPT !.line = @ + 1, !.column = 0]
                        ELSE [ScrollDown(s) EXCEPT !.line = Lines - 1, !.column = 0]

\* One iteration of print()'s loop.
Put(s, ch) ==
  LET t == IF s.column >= Columns \/ ch = "\n" THEN NewLine(s) ELSE s
  IN  IF ch = "\n" THEN t
      ELSE [WriteCharacter(t, t.column * FontWidth, t.line * FontHeight, ch) EXCEPT
              !.text[t.line] = Append(SubSeq(@, 1, t.column), ch), !.column = @ + 1]
-----------------------------------------------------------------------------
(* The reference: a terminal shows the last rows of the wrapped text *)

Paragraphs(text) ==
  LET ends == {i \in 1 .. Len(text) : text[i] = "\n"} \cup {Len(text) + 1}
      cut[k \in 0 .. Cardinality(ends)] == IF k = 0 THEN 0 ELSE Min({i \in ends : i > cut[k - 1]})
  IN  [k \in 1 .. Cardinality(ends) |-> SubSeq(text, cut[k - 1] + 1, cut[k] - 1)]

Rows(paragraph) ==
  [k \in 1 .. Max({1, (Len(paragraph) + Columns - 1) \div Columns}) |->
     SubSeq(paragraph, (k - 1) * Columns + 1, Min({k * Columns, Len(paragraph)}))]

\* The rows a terminal has room for, as many as there are, top to bottom.
Terminal(text) ==
  LET paragraphs == Paragraphs(text)
      rows == FlattenSeq([k \in DOMAIN paragraphs |-> Rows(paragraphs[k])])
  IN  SubSeq(rows, Max({1, Len(rows) - Lines + 1}), Len(rows))

Shows(s, text) ==
  LET rows == Terminal(text)
  IN  /\ s.text = [l \in 0 .. Lines - 1 |-> IF l < Len(rows) THEN rows[l + 1] ELSE <<>>]
      /\ s.line = Len(rows) - 1 /\ s.column = Len(rows[Len(rows)])

\* The character of a pixel's cell in the screenBuffer.
CharacterAt(s, p) ==
  LET l == p[2] \div FontHeight
      c == p[1] \div FontWidth
  IN  IF l < Lines /\ c < Len(s.text[l]) THEN s.text[l][c + 1] ELSE " "

Drawn(s) ==
  [p \in Pixels |-> LET x == p[1] % FontWidth
                        y == p[2] % FontHeight
                    IN  Bit(CharacterAt(s, p), y * BytesPerLine(FontWidth) + x \div ByteBits, x % ByteBits)]
=============================================================================
