----------------------------- MODULE MCFileImage -----------------------------
(***************************************************************************)
(* FileImage for TLC.  No definition tells one content or one header from  *)
(* another.                                                                *)
(***************************************************************************)
EXTENDS FileImageProperties

LOCAL T == INSTANCE TLC

Alike == T!Permutations(Contents) \cup T!Permutations(Headers)
=============================================================================
