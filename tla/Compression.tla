---------------------------- MODULE Compression -----------------------------
(***************************************************************************)
(* The compression benchmark (compression.go): the input goes from one     *)
(* buffer of the object to the other through zlib, base64 and back, then   *)
(* through hexa.  The codecs are libraries: a chunk of data knows the      *)
(* encodings it is under, and a decoder stops at the first chunk that it   *)
(* cannot decode, whose error the code does not look at.                   *)
(***************************************************************************)
EXTENDS Naturals, Sequences, SequencesExt

CONSTANT Input   \* the chunks of jsonPopulationB

CompressionAssumption == Input \in Seq(Range(Input)) /\ Input # <<>>

VARIABLE b   \* the object: [pc, buf1, buf2, w, r], the codecs kept between calls

Plain == [k \in DOMAIN Input |-> [of |-> Input[k], under |-> <<>>]]
Encoded(codec, s) == [k \in DOMAIN s |-> [s[k] EXCEPT !.under = <<codec>> \o @]]
Under(codec, chunk) == chunk.under # <<>> /\ Head(chunk.under) = codec
Decoded(codec, s) ==
  LET bad == SelectInSeq(s, LAMBDA chunk : ~Under(codec, chunk))
  IN  [k \in 1..(IF bad = 0 THEN Len(s) ELSE bad - 1) |-> [s[k] EXCEPT !.under = Tail(@)]]

\* NewBenchCompression.
Init == b = [pc |-> "idle", buf1 |-> <<>>, buf2 |-> <<>>, w |-> "none", r |-> "none"]

\* Mutant: the writer that an earlier call closed is not reset, and drops its data.
CompressClosed ==
  /\ b.pc = "idle"
  /\ b' = [b EXCEPT !.pc = "encode", !.w = "closed",
             !.buf1 = IF b.w = "none" THEN @ \o Encoded("zlib", Plain) ELSE @]

\* Run: a new writer, or the one of the last call reset, writes after what buf1
\* holds.
Compress ==
  /\ b.pc = "idle"
  /\ b' = [b EXCEPT !.pc = "encode", !.w = "closed", !.buf1 = @ \o Encoded("zlib", Plain)]

\* base64 of all that buf1 holds, after what buf2 holds.
Encode ==
  /\ b.pc = "encode"
  /\ b' = [b EXCEPT !.pc = "decode", !.buf2 = @ \o Encoded("base64", b.buf1)]

\* buf1 takes what buf2 decodes to; buf2 is reset.
Decode ==
  /\ b.pc = "decode"
  /\ b' = [b EXCEPT !.pc = "uncompress", !.buf1 = Decoded("base64", b.buf2), !.buf2 = <<>>]

\* A new reader, or the one of the last call reset, reads a header: log.Fatal
\* when there is none.  The copy drains buf1.
Uncompress ==
  /\ b.pc = "uncompress"
  /\ b' = IF b.buf1 # <<>> /\ Under("zlib", b.buf1[1])
            THEN [b EXCEPT !.pc = "verify", !.r = "closed",
                    !.buf1 = <<>>, !.buf2 = Decoded("zlib", b.buf1)]
            ELSE [b EXCEPT !.pc = "fatal"]

\* The hashes of the input and of buf2 are compared.
Verify ==
  /\ b.pc = "verify"
  /\ b' = [b EXCEPT !.pc = IF b.buf2 = Plain THEN "hexa" ELSE "fatal"]

\* The copy through hexa drains buf2.
Hexa ==
  /\ b.pc = "hexa"
  /\ b' = [b EXCEPT !.pc = "end", !.buf1 = Encoded("hexa", b.buf2), !.buf2 = <<>>]

Reset ==
  /\ b.pc = "end"
  /\ b' = [b EXCEPT !.pc = "idle", !.buf1 = <<>>, !.buf2 = <<>>]

Step == Compress \/ Encode \/ Decode \/ Uncompress \/ Verify \/ Hexa \/ Reset

\* What a call has made when it is about to reset its buffers: the whole input in hexa.
Product == b.pc = "end" => b.buf1 = Encoded("hexa", Plain) /\ b.buf2 = <<>>
=============================================================================
