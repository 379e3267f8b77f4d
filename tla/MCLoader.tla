------------------------------ MODULE MCLoader ------------------------------
(***************************************************************************)
(* Loader in an address space of 18 bytes: guest memory from 4 to 15 with  *)
(* a protected range in it, images that fit, touch, overlap or do not fit, *)
(* and a digest with collisions.                                           *)
(***************************************************************************)
EXTENDS Loader

MCProtected == {[start |-> 12, size |-> 2]}

\* 2 is the packaged payload.
MCByte == {0, 1, 2}
MCMemory == [a \in Memory |-> 2]

MCCrc(s) ==
    LET sum[n \in 0 .. Len(s)] == IF n = 0 THEN Len(s) ELSE sum[n - 1] + n * s[n]
    IN  sum[Len(s)] % 4

MCBundle(entry, count, flags, registers) ==
    [entry |-> entry, image_count |-> count, flags |-> flags, registers |-> registers]
MCImage(address, file_size, runtime_size, digest) ==
    [address |-> address, file_size |-> file_size, runtime_size |-> runtime_size,
     crc32 |-> digest, flags |-> 0]

\* One image, two images, an entry outside every image, an invalid one.
MCBundles == {MCBundle(4, 1, 1, 0), MCBundle(4, 2, 0, 7), MCBundle(8, 1, 0, 0),
              MCBundle(4, 1, 1, 7)}

\* Two that fit together, one in the tail of the first, one in the way of
\* the protected range, one that ends beyond 2^64.
MCImages == {MCImage(4, 4, 6, 2), MCImage(10, 1, 2, 2), MCImage(9, 1, 1, 2),
             MCImage(11, 1, 2, 2), MCImage(15, 1, 4, 2)}

MCChunks == {<<>>, <<1>>, <<0, 1>>, <<1, 1, 1>>}
=============================================================================
