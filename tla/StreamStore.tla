---------------------------- MODULE StreamStore -----------------------------
(***************************************************************************)
(* What the library promises of its streams (README.md: create, write,     *)
(* append and read streams): a call on one stream leaves every other as it *)
(* is, and when a write returns, the stream holds the bytes the caller     *)
(* gave.  While a write runs, what its own stream holds is not promised:   *)
(* it counts as empty until the write returns.                             *)
(***************************************************************************)
EXTENDS Naturals

CONSTANT Names       \* the streams there can be

VARIABLES content,   \* what each existing stream holds
          writing    \* the write in progress, or NoWrite

NoWrite == [d |-> 0, buf |-> <<>>]
storeVars == <<content, writing>>

StoreInit ==
  /\ DOMAIN content = {}
  /\ writing = NoWrite

\* A stream that has been added is empty.
Create(d) ==
  /\ d \notin DOMAIN content
  /\ writing = NoWrite
  /\ content' = [e \in DOMAIN content \cup {d} |-> IF e = d THEN <<>> ELSE content[e]]
  /\ UNCHANGED writing

Begin(d) ==
  /\ writing = NoWrite
  /\ writing'.d = d
  /\ content' = [content EXCEPT ![d] = <<>>]

Finish ==
  /\ writing # NoWrite
  /\ writing' = NoWrite
  /\ content' = [content EXCEPT ![writing.d] = writing.buf]

StoreNext ==
  \/ \E d \in Names : Create(d)
  \/ \E d \in DOMAIN content : Begin(d)
  \/ Finish

StoreSpec == StoreInit /\ [][StoreNext]_storeVars
=============================================================================
