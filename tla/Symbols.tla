------------------------------ MODULE Symbols ------------------------------
(***************************************************************************)
(* The symbol table (src/src/symbols.c), a hash table with chained         *)
(* buckets, driven by semantic_check_program (src/src/semantics.c), which  *)
(* fills it, looks names up in it, and either hands it on or frees it.     *)
(*                                                                         *)
(* The program is reduced to what concerns the table: the identifiers of   *)
(* its declarations, each with the type of its declaration, and the        *)
(* identifiers its body uses.  Every allocation may fail.                  *)
(***************************************************************************)
EXTENDS Integers, Sequences, FiniteSets

CONSTANTS
  Name,
  bucket_count,  \* DEFAULT_BUCKET_COUNT
  symtable_hash, \* any function of a name: names may share a bucket
  Declared,      \* inputs: sequences of [name, type]
  Used,          \* inputs: sequences of names
  Failures       \* whether an allocation may fail

INT == "INT"
FLOAT == "FLOAT"
Type == {INT, FLOAT}
Entry == [name : Name, type : Type]

ASSUME BucketAssumption == bucket_count \in Nat \ {0} /\ symtable_hash \in [Name -> Nat]
ASSUME InputAssumption == Declared \subseteq Seq(Entry) /\ Used \subseteq Seq(Name)
ASSUME FailuresAssumption == Failures \subseteq BOOLEAN

VARIABLES
  declarations, body, \* the program
  buckets,     \* the chains of entries, the last inserted one first
  size,        \* the number of entries
  heap,        \* the number of blocks that are allocated
  error_count,
  pc,          \* the loop of semantic_check_program that runs
  pos          \* the element it looks at
vars == <<declarations, body, buckets, size, heap, error_count, pc, pos>>

Index == 0 .. bucket_count - 1
index(name) == symtable_hash[name] % bucket_count

----------------------------------------------------------------------------
\* symtable_find: the first entry of that name in the bucket of the name
Matches(table, name) == {k \in DOMAIN table[index(name)] : table[index(name)][k].name = name}
IsRegistered(table, name) == Matches(table, name) # {}
symtable_find(table, name) ==
  table[index(name)][CHOOSE k \in Matches(table, name) :
                       \A m \in Matches(table, name) : k <= m]

\* Faulty: the new entry replaces its chain
Linked_Replacing(table, entry) == [table EXCEPT ![index(entry.name)] = <<entry>>]

\* What symtable_insert does to the chains
Linked(table, entry) == [table EXCEPT ![index(entry.name)] = <<entry>> \o @]

Entries == UNION {{<<b, k>> : k \in DOMAIN buckets[b]} : b \in Index}

Input == UNCHANGED <<declarations, body>>
Table == UNCHANGED <<buckets, size>>
MayFail == TRUE \in Failures

Init ==
  /\ declarations \in Declared /\ body \in Used
  /\ buckets = [b \in Index |-> <<>>] /\ size = 0
  /\ heap = 0 /\ error_count = 0 /\ pc = "new" /\ pos = 1

\* new_symtable: the table and its array of buckets
New ==
  /\ pc = "new"
  /\ heap' = heap + 2 /\ pc' = "declare"
  /\ Table /\ Input /\ UNCHANGED <<error_count, pos>>
\* A table without an array is freed again
NewFails ==
  /\ pc = "new" /\ MayFail
  /\ error_count' = 1 /\ pc' = "failed"
  /\ Table /\ Input /\ UNCHANGED <<heap, pos>>

\* check_declarations
declaration == declarations[pos]
Declares == pc = "declare" /\ pos <= Len(declarations)
NextPos == pos' = pos + 1 /\ UNCHANGED pc

Redeclare ==
  /\ Declares /\ IsRegistered(buckets, declaration.name)
  /\ error_count' = error_count + 1
  /\ NextPos /\ Table /\ Input /\ UNCHANGED heap

\* Faulty: the name is not looked up first
Insert_Unchecked ==
  /\ Declares
  /\ buckets' = Linked(buckets, declaration) /\ size' = size + 1
  /\ heap' = heap + 2
  /\ NextPos /\ Input /\ UNCHANGED error_count

\* symtable_insert: an entry and a copy of the name
Insert ==
  /\ Declares /\ ~IsRegistered(buckets, declaration.name)
  /\ buckets' = Linked(buckets, declaration) /\ size' = size + 1
  /\ heap' = heap + 2
  /\ NextPos /\ Input /\ UNCHANGED error_count

\* Faulty: a failed insertion is no error
InsertFails_Silently ==
  /\ Declares /\ ~IsRegistered(buckets, declaration.name) /\ MayFail
  /\ NextPos /\ Table /\ Input /\ UNCHANGED <<heap, error_count>>

\* Faulty: the entry is linked before its name is copied
InsertFails_Half ==
  /\ Declares /\ ~IsRegistered(buckets, declaration.name) /\ MayFail
  /\ buckets' = [buckets EXCEPT ![index(declaration.name)] =
                   <<[name |-> "NULL", type |-> declaration.type]>> \o @]
  /\ heap' = heap + 1 /\ error_count' = error_count + 1
  /\ NextPos /\ Input /\ UNCHANGED size

\* No entry, or no copy and the entry is freed again
InsertFails ==
  /\ Declares /\ ~IsRegistered(buckets, declaration.name) /\ MayFail
  /\ error_count' = error_count + 1
  /\ NextPos /\ Table /\ Input /\ UNCHANGED heap

DeclarationsEnd ==
  /\ pc = "declare" /\ pos > Len(declarations)
  /\ pc' = "check" /\ pos' = 1
  /\ Table /\ Input /\ UNCHANGED <<heap, error_count>>

\* check_statement, the identifiers of the body
Use ==
  /\ pc = "check" /\ pos <= Len(body)
  /\ error_count' = IF IsRegistered(buckets, body[pos]) THEN error_count ELSE error_count + 1
  /\ NextPos /\ Table /\ Input /\ UNCHANGED heap

\* The table is handed on, or free_symtable walks over the chains
HandOn ==
  /\ pc = "check" /\ pos > Len(body) /\ error_count = 0
  /\ pc' = "handed_on"
  /\ Table /\ Input /\ UNCHANGED <<heap, error_count, pos>>

\* Faulty: the first entry of each chain only
Free_FirstEntries ==
  /\ pc = "check" /\ pos > Len(body) /\ error_count # 0
  /\ heap' = heap - 2 * Cardinality({b \in Index : buckets[b] # <<>>}) - 2
  /\ pc' = "failed"
  /\ Table /\ Input /\ UNCHANGED <<error_count, pos>>

Free ==
  /\ pc = "check" /\ pos > Len(body) /\ error_count # 0
  /\ heap' = heap - 2 * Cardinality(Entries) - 2
  /\ pc' = "failed"
  /\ Table /\ Input /\ UNCHANGED <<error_count, pos>>

Terminated == pc \in {"handed_on", "failed"} /\ UNCHANGED vars

Step ==
  \/ New \/ NewFails \/ Redeclare \/ Insert \/ InsertFails \/ DeclarationsEnd
  \/ Use \/ HandOn \/ Free
Next == Step \/ Terminated
Spec == Init /\ [][Next]_vars

----------------------------------------------------------------------------
TypeOK ==
  /\ declarations \in Seq(Entry) /\ body \in Seq(Name)
  /\ buckets \in [Index -> Seq(Entry)]
  /\ size \in Nat /\ heap \in Int /\ error_count \in Nat
  /\ pc \in {"new", "declare", "check", "handed_on", "failed"}
  /\ pos \in Nat \ {0}

IsWellHashed(table) ==
  \A b \in Index : \A k \in DOMAIN table[b] :
    /\ index(table[b][k].name) = b
    /\ \A m \in DOMAIN table[b] : table[b][k].name = table[b][m].name => k = m

\* Every entry is where a search for its name looks, and there is one per name.
WellHashed == IsWellHashed(buckets)

\* The map that the table stands for
Contents ==
  [name \in {x \in Name : IsRegistered(buckets, x)} |-> symtable_find(buckets, name).type]
M == INSTANCE SymbolMap WITH map <- Contents

\* The hash table implements the map: an insertion adds one name, and neither it
\* nor a collision hides or changes another entry.
ImplementsMap == M!Spec

\* A program that passes has declared every name once, and the table that is
\* handed to the code generator has each with the type of its declaration and
\* every name that the body uses.
HandedOnComplete ==
  pc = "handed_on" =>
    /\ \A i \in DOMAIN declarations :
         /\ IsRegistered(buckets, declarations[i].name)
         /\ symtable_find(buckets, declarations[i].name).type = declarations[i].type
    /\ \A i, j \in DOMAIN declarations : declarations[i].name = declarations[j].name => i = j
    /\ \A i \in DOMAIN body : IsRegistered(buckets, body[i])

\* The declarations that are behind the loop of check_declarations
Seen == CASE pc = "new" -> 0 [] pc = "declare" -> pos - 1 [] OTHER -> Len(declarations)

\* Why: while there is no error, the declarations seen so far are in the table,
\* under names of their own, and so are the names of the body that were looked up.
SeenRegistered ==
  /\ pc = "new" => pos = 1 /\ size = 0
  /\ pc = "declare" => pos <= Len(declarations) + 1
  /\ error_count = 0 /\ pc # "failed" =>
       \A i \in 1 .. Seen :
         /\ IsRegistered(buckets, declarations[i].name)
         /\ symtable_find(buckets, declarations[i].name) = declarations[i]
         /\ \A j \in 1 .. Seen : declarations[i].name = declarations[j].name => i = j
  /\ error_count = 0 /\ pc \in {"check", "handed_on"} =>
       \A i \in 1 .. pos - 1 : i \in DOMAIN body => IsRegistered(buckets, body[i])
  /\ pc = "handed_on" => error_count = 0 /\ pos > Len(body)

\* Two blocks per entry and two for the table are held, and none when the check
\* fails: free_symtable reaches every entry.
NothingLeaks ==
  /\ size = Cardinality(Entries)
  /\ heap = IF pc \in {"new", "failed"} THEN 0 ELSE 2 * size + 2
============================================================================
