------------------------------- MODULE Folder -------------------------------
(***************************************************************************)
(* What storages promise, without entries, trees and sectors.  Each        *)
(* storage there is holds a set of names.  A call is given a name and is   *)
(* made on a storage: it adds or deletes that name there, or changes       *)
(* nothing, and says which; the other storages stay as they are.           *)
(***************************************************************************)
CONSTANTS
  Given,    \* the names a call can add
  Stored,   \* what each is stored as
  Top       \* the storage that there always is

VARIABLES
  kids,     \* of each storage there is, the names in it
  call      \* the last call: what it was asked, and whether it has done it

\* A document that is opened may have names in it already.
Init ==
  /\ kids \in [{Top} -> SUBSET {Stored[n] : n \in Given}]
  /\ ~call.done

\* Only a name that an ill-formed one is stored as can be in a storage twice.
MayBeTwice(x) == \E n \in Given : Stored[n] = x /\ Stored[n] # n

\* To the storage s comes a name.
Gains(s, x, old, new) == s \in DOMAIN old /\ new[s] = old[s] \cup {x}

\* The storages but s are in new, where they are in it, as they are in old.
OthersSame(s, old, new) == \A t \in (DOMAIN old \cap DOMAIN new) \ {s} : new[t] = old[t]

\* AddStream of the name n to s.
AddStream(s, n, old, new) ==
  /\ n \in Given /\ Gains(s, Stored[n], old, new) /\ OthersSame(s, old, new)
  /\ DOMAIN new = DOMAIN old
  /\ Stored[n] \in old[s] => MayBeTwice(Stored[n])

\* AddStorage of the name n, new in s: the storage added is empty.
AddStorage(s, n, old, new) ==
  /\ n \in Given /\ Gains(s, Stored[n], old, new) /\ OthersSame(s, old, new)
  /\ \E t \in DOMAIN new \ DOMAIN old : DOMAIN new = DOMAIN old \cup {t} /\ new[t] = {}
  /\ Stored[n] \notin old[s]

\* Delete of the name n from s, and with it, if it is a storage's, of that storage
\* and of those in it.  A name there twice stays.
Delete(s, n, old, new) ==
  /\ s \in DOMAIN old \cap DOMAIN new /\ n \in old[s] /\ OthersSame(s, old, new)
  /\ DOMAIN new \subseteq DOMAIN old
  /\ \/ new[s] = old[s] \ {n}
     \/ MayBeTwice(n) /\ new = old

\* What the call q makes of old.
Answer(q, old, new) ==
  IF q.done
  THEN \/ q.op = "AddStream" /\ AddStream(q.storage, q.name, old, new)
       \/ q.op = "AddStorage" /\ AddStorage(q.storage, q.name, old, new)
       \/ q.op = "Delete" /\ Delete(q.storage, q.name, old, new)
  ELSE new = old

Next == Answer(call', kids, kids')

Spec == Init /\ [][Next]_<<kids, call>>
=============================================================================
