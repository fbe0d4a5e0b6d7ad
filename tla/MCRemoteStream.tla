--------------------------- MODULE MCRemoteStream ---------------------------
(* A small instance of RemoteStream, and the layouts it looks at: host and     *)
(* device arrays of up to two dimensions, with and without strides, and some   *)
(* of three.                                                                   *)
EXTENDS RemoteStream, TLC

Strided(shapes, strides) ==
    UNION {[cuda : BOOLEAN, unsupported : {FALSE}, itemsize : {1, 2}, shape : {s},
            strides : [DOMAIN s -> strides]] : s \in shapes}

Unstrided(shapes) ==
    [cuda : {TRUE}, unsupported : BOOLEAN, itemsize : {1, 2}, shape : shapes, strides : {NoStrides}]

MCExporters ==
    LET flat  == {<<>>} \cup [1..1 -> 0..3]
        plane == [1..2 -> 0..2]
        solid == [1..3 -> 1..2]
    IN Strided(flat \cup plane, {-1, 0, 1, 2, 4}) \cup Strided(solid, {1, 2, 4})
       \cup Unstrided(flat \cup plane \cup solid)
       \cup [cuda : {TRUE}, unsupported : {FALSE}, itemsize : {1}, shape : plane, strides : {<<1>>}]
=============================================================================
