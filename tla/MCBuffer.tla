----------------------------- MODULE MCBuffer ------------------------------
(* Bytes of two bits, integers of two bytes, blocks of two bytes.           *)
EXTENDS Stream

MCValues == [kind \in Kinds |->
    CASE kind = "byte" -> {}
      [] kind = "fixed" -> {6}
      [] kind = "varint" -> {}
      [] kind = "zigzag" -> {-8}
      [] kind = "string" -> {<<>>, <<1>>}]
=============================================================================
