--------------------------- MODULE MCNciCoreRecv ---------------------------
(* Instances of NciCoreRecv: the messages of the controller. *)
EXTENDS NciCoreRecv

(* Buffers are interchangeable. *)
BufferSymmetry == Permutations(Buffers)

Shape(h, segs) == [hdr |-> h, segs |-> segs]

(* A response, notifications, one with an empty segment, and data, the last one too long *)
MCShapes == {Shape("rsp", <<1>>), Shape("ntf", <<1, 1>>), Shape("ntf", <<1, 0, 1>>),
             Shape("data", <<1, 2, 1>>), Shape("data", <<2, 2, 2, 1>>)}

=============================================================================
