------------------------------ MODULE MCByteNames ------------------------------
(* Paths of up to five components: names of one and of two bytes, library       *)
(* directories and marks, two suffixes, and the "@" of a resolved module.       *)
EXTENDS ByteNames, TLC

MCBytesOf ==
  "" :> << >> @@ "." :> <<".">> @@ ".." :> <<".", ".">>
  @@ "a" :> <<"a">> @@ "a.a" :> <<"a", ".", "a">>
  @@ "P" :> <<"P">> @@ "P_" :> <<"P", "_">>
  @@ "P_P_a.a" :> <<"P", "_", "P", "_", "a", ".", "a">>
  @@ "@a" :> <<"@", "a">>

MCComponents == DOMAIN MCBytesOf
MCBytes == {"/", ".", "a", "P", "_", "@"}
MCLength == [c \in MCComponents |-> Len(MCBytesOf[c])]
=============================================================================
