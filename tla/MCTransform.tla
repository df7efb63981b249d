---------------------------- MODULE MCTransform ----------------------------
(* Bodies of a few bytes through pipes of two, buffers of six tokens and a  *)
(* transformer that keeps or doubles every byte.                            *)
EXTENDS Transform, TLC

Bytes(m, n) == [i \in 1..(n - m + 1) |-> Byte(m + i - 1)]

Plain(n, close) ==
  [stream |-> Bytes(1, n), declared |-> n, chunked |-> FALSE, close |-> close]

\* A body that ends where the server closes, one that is broken off, and one
\* that goes on behind its declared end.
Unsized == [Plain(2, TRUE) EXCEPT !.declared = 0]
Broken == [Plain(2, TRUE) EXCEPT !.declared = 3]
Overlong == [Plain(3, FALSE) EXCEPT !.declared = 2]

Chunked(s, close) ==
  [stream |-> s, declared |-> 0, chunked |-> TRUE, close |-> close]

ShortChunk == Chunk(Bytes(1, 1)) \o <<Last0>>
OneChunk == Chunk(Bytes(1, 2)) \o <<Last0>>
TwoChunks == Chunk(Bytes(1, 1)) \o Chunk(Bytes(2, 2)) \o <<Last0>>
EndInParts == Chunk(Bytes(1, 1)) \o <<Size(0), NL, NL>>

\* Bodies of every kind, through a transformer that keeps every byte, with
\* nothing that goes wrong or with all that may ...
Bodies ==
  {Plain(0, FALSE), Plain(2, FALSE), Unsized,
   Chunked(<<Last0>>, FALSE), Chunked(ShortChunk, TRUE)}

\* ... those with which it may go wrong of itself, and the client be idle too,
Odd == {Plain(2, TRUE), Broken, Overlong, Chunked(EndInParts, FALSE)}

\* ... and some through one that doubles them.
Doubled ==
  {Plain(2, FALSE), Plain(4, FALSE), Chunked(OneChunk, FALSE),
   Chunked(TwoChunks, FALSE)}

Exchanges ==
  Bodies \X {1} \X {{}, FaultKind} \union Odd \X {1} \X {{}, {"idle"}}
    \union Doubled \X {2} \X {{}}

\* More than the two pipes and the transformer hold, for the run that shows it.
TooMuch == {<<Plain(5, FALSE), 2, {}>>}
=============================================================================
