----------------------------- MODULE SymbolMap -----------------------------
(***************************************************************************)
(* What the symbol table promises, however it stores its entries: a map    *)
(* from names to types in which a name, once there, keeps its type.        *)
(***************************************************************************)
CONSTANTS Name, Type
VARIABLE map

Init == map = [name \in {} |-> {}]

Insert(name, type) ==
  /\ name \notin DOMAIN map
  /\ map' = [x \in DOMAIN map \cup {name} |-> IF x = name THEN type ELSE map[x]]

Next == \E name \in Name, type \in Type : Insert(name, type)
Spec == Init /\ [][Next]_map
============================================================================
