------------------------------- MODULE NameMap --------------------------------
(***************************************************************************)
(* What the server needs of the hash map behind client_map: a dictionary   *)
(* from names to elements in which a name that is present is not put       *)
(* again, and changes one name at a time.                                  *)
(***************************************************************************)
CONSTANTS
  Keys,      \* the names
  Values,    \* the elements
  NULL       \* no element

VARIABLE dict

MapInit == dict = [k \in Keys |-> NULL]

Put(k, x) == dict[k] = NULL /\ dict' = [dict EXCEPT ![k] = x]

Remove(k) == dict[k] # NULL /\ dict' = [dict EXCEPT ![k] = NULL]

MapNext ==
  /\ dict' # dict
  /\ \E k \in Keys : Remove(k) \/ \E x \in Values : Put(k, x)

MapSpec == MapInit /\ [][MapNext]_dict

=============================================================================
