------------------------------- MODULE Image --------------------------------
(***************************************************************************)
(* The image benchmark (image.go).  The image of the object is composed    *)
(* anew on what the last call left: a pixel is the stack of the colours    *)
(* that show through it, draw.Src puts one in place of all, draw.Over one  *)
(* above them.  The JPEG encoder is a library.                             *)
(***************************************************************************)
EXTENDS Integers, Sequences

CONSTANTS Squares,  \* on a side of the chessboard (8 in the code)
          Square,   \* pixels on a side of a square (16)
          Wilson,   \* pixels on a side of the picture in the middle (120)
          Before,   \* the window goes from Before pixels before the corner of
          After     \* the picture (16) to After pixels after it (32)

\* IMG_W and IMG_H.
Side == Squares * Square

ImageAssumption ==
  \* The colours of a column begin anew when the number of squares is even.
  /\ Squares \in Nat \ {0} /\ Squares % 2 = 0 /\ Square \in Nat \ {0}
  /\ Wilson \in 1..Side /\ Before \in Nat /\ After \in Nat

VARIABLE b   \* the object: [pc, img, buf], loop variables x and ic of chessboard

Pixels == (0..Side - 1) \X (0..Side - 1)
Rect(x0, y0, x1, y1) == {p \in Pixels : p[1] >= x0 /\ p[1] < x1 /\ p[2] >= y0 /\ p[2] < y1}

\* draw.Draw with draw.Src, draw.DrawMask with draw.Over, clipped to the image.
Src(img, rect, colors) == [p \in Pixels |-> IF p \in rect THEN <<colors[p]>> ELSE img[p]]
Over(img, rect, color) == [p \in Pixels |-> IF p \in rect THEN Append(img[p], color) ELSE img[p]]

\* NewBenchImage.
Init == b = [pc |-> "idle", img |-> [p \in Pixels |-> <<>>], buf |-> <<>>, x |-> 0, ic |-> 0]

\* Run, chessboard.
Chessboard ==
  /\ b.pc = "idle"
  /\ b' = [b EXCEPT !.pc = "board", !.x = 0, !.ic = 0]

\* A turn of the outer loop: a column of squares whose colours alternate.
Column ==
  /\ b.pc = "board" /\ b.x < Squares
  /\ LET rect == Rect(b.x * Square, 0, b.x * Square + Square, Side)
     IN  b' = [b EXCEPT !.x = @ + 1, !.ic = (b.ic + Squares + 1) % 2,
                 !.img = Src(@, rect, [p \in Pixels |-> (b.ic + p[2] \div Square) % 2])]

\* compose: the picture in the middle, the transparent window over its corner.
Compose ==
  /\ b.pc = "board" /\ b.x = Squares
  /\ LET x == (Side - Wilson) \div 2
         placed == Src(b.img, Rect(x, x, x + Wilson, x + Wilson), [p \in Pixels |-> "wilson"])
     IN  b' = [b EXCEPT !.pc = "encode",
                 !.img = Over(placed, Rect(x - Before, x - Before, x + After, x + After), "black")]

\* generate: the encoder writes the image in buf, a bytes.Buffer, of which no write
\* fails ...
Encode ==
  /\ b.pc = "encode"
  /\ b' = [b EXCEPT !.pc = "end", !.buf = Append(@, b.img)]

\* Mutant: the buffer is left to the next call.
ResetNever == b.pc = "end" /\ b' = [b EXCEPT !.pc = "idle"]

\* ... which is reset.
Reset ==
  /\ b.pc = "end"
  /\ b' = [b EXCEPT !.pc = "idle", !.buf = <<>>]

Step == Chessboard \/ Column \/ Compose \/ Encode \/ Reset

\* What is encoded is one image, the same at every call: each pixel is that of
\* the picture or of the board, with at most one window over it.
Product ==
  b.pc = "end" =>
    LET x == (Side - Wilson) \div 2
        near(c, from, to) == c >= from /\ c < to
        base(p) == IF \A i \in {1, 2} : near(p[i], x, x + Wilson) THEN "wilson"
                   ELSE (p[1] \div Square + p[2] \div Square) % 2
        window(p) == IF \A i \in {1, 2} : near(p[i], x - Before, x + After) THEN <<"black">>
                     ELSE <<>>
    IN  b.buf = <<[p \in Pixels |-> <<base(p)>> \o window(p)]>>
=============================================================================
