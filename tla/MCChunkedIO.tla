------------------------------ MODULE MCChunkedIO ------------------------------
(* Instances of ChunkedIO for TLC. *)
EXTENDS ChunkedIO

\* The least message; the first length of two and of three bytes; a newline in
\* the first byte of two; a newline in the second of two and of three; more
\* than the buffer holds.
EdgeLens == {16, 256, 266, 2560, 5000, 65536, 68096}

\* Within and behind a prefix, behind the peeked bytes, behind the buffer.
EdgeCuts == {1, 2, 3, 9, 4500}
================================================================================
