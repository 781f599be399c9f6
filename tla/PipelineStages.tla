---------------------------- MODULE PipelineStages ----------------------------
(* What FilePipeline, where a file is a sequence of coded units, and Archive, *)
(* where it is coded as a whole, share: the stages execute_file_pipeline      *)
(* chooses, and coding as a layer that is put on and taken off.               *)
EXTENDS Integers, Sequences

Layer == [kind : {"codec", "xor"}, arg : Nat]

Pushed(u, l) == [u EXCEPT !.layers = <<l>> \o @]
Popped(u) == [u EXCEPT !.layers = Tail(@)]
Outermost(u, l) == u.layers # <<>> /\ Head(u.layers) = l

(* buffer[i] ^ key[key_index]: applying a key byte twice cancels it.          *)
XorUnit(u, k) ==
    LET l == [kind |-> "xor", arg |-> k]
    IN IF Outermost(u, l) THEN Popped(u) ELSE Pushed(u, l)

CodecLayer(alg) == [kind |-> "codec", arg |-> alg]

Operation == {"OP_COMPRESS", "OP_DECOMPRESS", "OP_ENCRYPT", "OP_DECRYPT"}

(* stages[0 .. stage_count-1], chosen from the operations requested.          *)
Stages(operations) ==
    IF {"OP_COMPRESS", "OP_ENCRYPT"} \subseteq operations
    THEN <<"STAGE_COMPRESS", "STAGE_ENCRYPT">>
    ELSE IF {"OP_DECRYPT", "OP_DECOMPRESS"} \subseteq operations
    THEN <<"STAGE_DECRYPT", "STAGE_DECOMPRESS">>
    ELSE IF "OP_COMPRESS" \in operations THEN <<"STAGE_COMPRESS">>
    ELSE IF "OP_DECOMPRESS" \in operations THEN <<"STAGE_DECOMPRESS">>
    ELSE IF "OP_ENCRYPT" \in operations THEN <<"STAGE_ENCRYPT">>
    ELSE IF "OP_DECRYPT" \in operations THEN <<"STAGE_DECRYPT">>
    ELSE <<"STAGE_COPY">>
==============================================================================
