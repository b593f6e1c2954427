---------------------------- MODULE MCHkySockets ----------------------------
(* HkySockets with five chains for the stream: neighbours in memory around a  *)
(* special buffer, buffers in reverse order, a special buffer alone, one with  *)
(* a file, and one that needs more iovecs than a call has and ends in a bad    *)
(* buffer.  The chains of datagrams have messages of one and of several        *)
(* buffers, an end of its own in front and behind, one that never comes, files *)
(* and a bad buffer, and more iovecs than a datagram may have.                *)
EXTENDS HkySockets

Memory(pos, last) == [kind |-> "memory", pos |-> pos, last |-> last]
Other(kind) == [kind |-> kind, pos |-> 0, last |-> 0]
Free(last, end) == [last |-> last, end |-> end]

MCChains == {
    <<Memory(1, 3), Other("special"), Memory(3, 4), Memory(7, 8)>>,
    <<Other("special"), Memory(4, 6), Memory(1, 3), Other("special")>>,
    <<Other("special")>>,
    <<Memory(1, 3), Other("file")>>,
    <<Memory(1, 2), Memory(3, 4), Memory(5, 6), Other("bad")>> }

MCReadChains == {
    <<Free(1, 3), Free(3, 4), Free(8, 9)>>,
    <<Free(6, 7), Free(1, 4)>> }

Part(kind, pos, last, ends) == [kind |-> kind, pos |-> pos, last |-> last, ends |-> ends]
End == Part("special", 0, 0, TRUE)
Sync == Part("special", 0, 0, FALSE)

MCDatagramChains == {
    <<>>,
    <<Part("memory", 1, 3, FALSE), Part("memory", 5, 6, TRUE)>>,
    <<Part("memory", 1, 3, TRUE), Sync, Part("memory", 6, 7, FALSE),
      Part("memory", 7, 8, TRUE)>>,
    <<End, Part("memory", 1, 3, FALSE), End, Part("memory", 4, 5, TRUE), End,
      Part("memory", 7, 8, FALSE)>>,
    <<Part("memory", 1, 2, TRUE), Part("memory", 3, 4, FALSE), Part("file", 0, 0, TRUE)>>,
    <<Part("memory", 1, 2, TRUE), Part("memory", 3, 4, FALSE), Part("file", 0, 0, FALSE), End>>,
    <<Part("memory", 1, 2, TRUE), Part("bad", 0, 0, FALSE), End>>,
    <<Part("memory", 1, 2, TRUE), Part("memory", 3, 4, FALSE), Part("memory", 5, 6, FALSE),
      Part("memory", 7, 8, TRUE)>> }
=============================================================================
