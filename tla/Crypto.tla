------------------------------- MODULE Crypto -------------------------------
(***************************************************************************)
(* The crypto benchmark (crypto.go).  A byte knows the positions of the    *)
(* key stream that it is combined with: twice with the same one gives the  *)
(* byte back.  The buffer of the writer outlives a call.                   *)
(***************************************************************************)
EXTENDS Naturals, Sequences, FiniteSetsExt

CONSTANT Size   \* bytes of the input (6000 in the code)

CryptoAssumption == Size \in Nat \ {0}

VARIABLE b   \* the object: [pc, out1, out2, buf], pos of the key stream in use

Input == [k \in 1..Size |-> [of |-> k, by |-> {}]]

\* cipher.Stream: src combined with the key stream from a position on.
XORKeyStream(src, pos) == [k \in DOMAIN src |-> [src[k] EXCEPT !.by = SymDiff(@, {pos + k})]]

\* NewBenchCrypto.
Init == b = [pc |-> "idle", out1 |-> <<>>, out2 |-> <<>>, buf |-> <<>>, pos |-> 0]

\* CryptoStreamWriter.Write: the whole of the buffer is written, which must be
\* as long as what is encrypted, else io.Copy fails and encrypt panics.
Write(src) ==
  LET old == IF Len(b.buf) < Len(src) THEN src ELSE b.buf
      new == XORKeyStream(src, 0) \o SubSeq(old, Len(src) + 1, Len(old))
  IN  b' = [b EXCEPT !.pc = IF Len(new) = Len(src) THEN "decrypt" ELSE "fatal",
              !.out1 = @ \o new, !.buf = new, !.pos = 0]

\* Run, encrypt: io.Copy writes all of a bytes.Reader at once.
Encrypt == b.pc = "idle" /\ Write(Input)

\* decrypt: a new key stream; io.Copy reads pieces of any length, which drains
\* out1.
Read ==
  /\ b.pc = "decrypt"
  /\ \E n \in 1..Len(b.out1) :
       b' = [b EXCEPT !.out1 = SubSeq(@, n + 1, Len(@)), !.pos = @ + n,
               !.out2 = @ \o XORKeyStream(SubSeq(b.out1, 1, n), b.pos)]

\* What is decrypted must be the input.
Check ==
  /\ b.pc = "decrypt" /\ b.out1 = <<>>
  /\ b' = [b EXCEPT !.pc = IF b.out2 = Input THEN "end" ELSE "fatal"]

Reset ==
  /\ b.pc = "end"
  /\ b' = [b EXCEPT !.pc = "idle", !.out1 = <<>>, !.out2 = <<>>]

Step == Encrypt \/ Read \/ Check \/ Reset

\* What is between the two halves of a call: each byte of the input under its
\* own position of the key stream.
Product ==
  b.pc = "decrypt" /\ b.out2 = <<>> =>
    b.out1 = [k \in 1..Size |-> [of |-> k, by |-> {k}]]
=============================================================================
