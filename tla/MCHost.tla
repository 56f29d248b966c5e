------------------------------- MODULE MCHost -------------------------------
(* Guest RAM of 40 bytes: a framebuffer at 0, which a 2 by 2 mode keeps      *)
(* apart from the ring of four samples at 16, a 3 by 2 mode does not, and a  *)
(* 6 by 2 mode does not fit; buffers behind the ring.  Four block devices of *)
(* block sizes below, at and above the sector buffer, one of them with a bad *)
(* block.  Two timer slots for three tasks.                                  *)
EXTENDS EmulOps

MCHandles == <<[block |-> 4, blocks |-> 6, bad |-> {}],
               [block |-> 4, blocks |-> 5, bad |-> {3}],
               [block |-> 8, blocks |-> 3, bad |-> {}],
               [block |-> 16, blocks |-> 2, bad |-> {}]>>
MCModes == {<<2, 2>>, <<3, 2>>, <<6, 2>>}
MCVolumes == {[device |-> -1, base |-> 0, bytes |-> 0], [device |-> 0, base |-> 0, bytes |-> 10],
              [device |-> 1, base |-> 0, bytes |-> 10], [device |-> 1, base |-> 0, bytes |-> 7],
              [device |-> 1, base |-> 8, bytes |-> 10]}
MCBytes == {<<>>, <<5>>, <<6, 7>>, <<8, 9, 5, 6>>}
MCColours == {<<1, 2, 3, 0>>, <<4, 5, 6, 9>>}
MCStores == [battery |-> 2, scrap |-> 8, screen |-> 3, sound |-> 3]
MCSamples == {<<1, 2>>, <<3, 0>>}
=============================================================================
