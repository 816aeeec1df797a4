--------------------------- MODULE SymbolsProofs ---------------------------
(***************************************************************************)
(* Proofs about Symbols, for every set of names, every hash function and   *)
(* number of table, and every program.                                   *)
(***************************************************************************)
EXTENDS Symbols, SequenceTheorems, FiniteSetTheorems, TLAPS

(***************************************************************************)
(* The table                                                               *)
(***************************************************************************)

LEMMA IndexInRange == \A name \in Name : index(name) \in Index
  BY BucketAssumption DEF index, Index

\* In a well hashed table every match is the one that symtable_find returns
LEMMA FindsTheMatch ==
  ASSUME NEW table \in [Index -> Seq(Entry)], IsWellHashed(table), NEW name \in Name, NEW k \in Matches(table, name)
  PROVE  /\ symtable_find(table, name) = table[index(name)][k]
         /\ symtable_find(table, name) \in Entry
         /\ symtable_find(table, name).name = name
  <1> DEFINE b == table[index(name)]
  <1>1. b \in Seq(Entry) /\ index(name) \in Index
    BY IndexInRange
  <1>2. k \in DOMAIN b /\ b[k].name = name /\ b[k] \in Entry
    BY <1>1 DEF Matches
  <1>3. \A m \in Matches(table, name) : m = k
    BY <1>1, <1>2 DEF IsWellHashed, Matches
  <1>4. Matches(table, name) = {k} /\ k \in Nat
    BY <1>1, <1>2, <1>3
  <1>5. (CHOOSE i \in Matches(table, name) : \A m \in Matches(table, name) : i <= m) = k
    BY <1>4
  <1> QED BY <1>2, <1>5 DEF symtable_find

\* The chain into which an entry is linked
LEMMA Chain ==
  ASSUME NEW e \in Entry, NEW s \in Seq(Entry)
  PROVE  /\ <<e>> \o s \in Seq(Entry)
         /\ DOMAIN (<<e>> \o s) = 1 .. Len(s) + 1
         /\ (<<e>> \o s)[1] = e
         /\ \A k \in 2 .. Len(s) + 1 : k - 1 \in DOMAIN s /\ (<<e>> \o s)[k] = s[k - 1]
         /\ \A k \in DOMAIN s : k + 1 \in 2 .. Len(s) + 1 /\ (<<e>> \o s)[k + 1] = s[k]
  OBVIOUS

LEMMA LinkedTable ==
  ASSUME NEW table \in [Index -> Seq(Entry)], NEW e \in Entry, NEW new, new = Linked(table, e)
  PROVE  /\ new \in [Index -> Seq(Entry)]
         /\ index(e.name) \in Index /\ e.name \in Name
         /\ new[index(e.name)] = <<e>> \o table[index(e.name)]
         /\ \A b \in Index \ {index(e.name)} : new[b] = table[b]
  <1>1. e.name \in Name /\ index(e.name) \in Index
    BY IndexInRange DEF Entry
  <1> DEFINE i == index(e.name)
  <1> HIDE DEF i
  <1>2. i \in Index /\ new = [table EXCEPT ![i] = <<e>> \o @]
    BY <1>1 DEF i, Linked
  <1>3. table[i] \in Seq(Entry) /\ table \in [Index -> Seq(Entry)]
    BY <1>2
  <1>4. <<e>> \o table[i] \in Seq(Entry)
    BY <1>3, Chain
  <1>5. /\ new \in [Index -> Seq(Entry)]
        /\ new[i] = <<e>> \o table[i]
        /\ \A b \in Index \ {i} : new[b] = table[b]
    BY <1>2, <1>3, <1>4
  <1> QED BY <1>1, <1>5 DEF i

\* The entry is linked where it is found, and it is the only one of its name
LEMMA LinkedWellHashed ==
  ASSUME NEW table \in [Index -> Seq(Entry)], IsWellHashed(table),
         NEW e \in Entry, NEW new, new = Linked(table, e),
         ~IsRegistered(table, e.name)
  PROVE  IsWellHashed(new)
  <1> DEFINE i == index(e.name)
             s == table[i]
             t == <<e>> \o s
  <1>1. /\ i \in Index /\ new[i] = t /\ \A b \in Index \ {i} : new[b] = table[b]
        /\ s \in Seq(Entry)
    BY LinkedTable
  <1>2. \A k \in DOMAIN s : s[k].name # e.name
    BY DEF IsRegistered, Matches
  <1>3. \A k \in DOMAIN s : index(s[k].name) = i /\ \A m \in DOMAIN s : s[k].name = s[m].name => k = m
    BY <1>1 DEF IsWellHashed
  <1>4. Len(s) \in Nat /\ DOMAIN s = 1 .. Len(s)
    BY <1>1
  <1> HIDE DEF s
  <1>5. /\ DOMAIN t = 1 .. Len(s) + 1
        /\ t[1] = e
        /\ \A k \in 2 .. Len(s) + 1 : k - 1 \in DOMAIN s /\ t[k] = s[k - 1]
    BY <1>1, Chain
  <1> HIDE DEF t
  <1>6. \A k \in DOMAIN t : index(t[k].name) = i
    <2> SUFFICES ASSUME NEW k \in DOMAIN t PROVE index(t[k].name) = i
      OBVIOUS
    <2>1. k = 1 \/ k \in 2 .. Len(s) + 1
      BY <1>4, <1>5
    <2> QED BY <1>3, <1>5, <2>1
  <1>7. \A k, m \in DOMAIN t : t[k].name = t[m].name => k = m
    <2> SUFFICES ASSUME NEW k \in DOMAIN t, NEW m \in DOMAIN t, t[k].name = t[m].name PROVE k = m
      OBVIOUS
    <2>1. (k = 1 \/ k \in 2 .. Len(s) + 1) /\ (m = 1 \/ m \in 2 .. Len(s) + 1)
      BY <1>4, <1>5
    <2>2. CASE k = 1 /\ m \in 2 .. Len(s) + 1
      BY <1>2, <1>5, <2>2
    <2>3. CASE m = 1 /\ k \in 2 .. Len(s) + 1
      BY <1>2, <1>5, <2>3
    <2>4. CASE k \in 2 .. Len(s) + 1 /\ m \in 2 .. Len(s) + 1
      <3>1. k - 1 = m - 1
        BY <1>3, <1>5, <2>4
      <3> QED BY <1>4, <2>4, <3>1
    <2> QED BY <2>1, <2>2, <2>3, <2>4
  <1> HIDE DEF i
  <1> HIDE DEF s
  <1> SUFFICES ASSUME NEW b \in Index, NEW k \in DOMAIN new[b]
               PROVE  /\ index(new[b][k].name) = b
                      /\ \A m \in DOMAIN new[b] : new[b][k].name = new[b][m].name => k = m
    BY DEF IsWellHashed
  <1>8. CASE b = i
    BY <1>1, <1>6, <1>7, <1>8
  <1>9. CASE b # i
    <2>1. new[b] = table[b]
      BY <1>1, <1>9
    <2> QED BY <2>1 DEF IsWellHashed
  <1> QED BY <1>8, <1>9

\* What an insertion changes for the searches
LEMMA LinkedFinds ==
  ASSUME NEW table \in [Index -> Seq(Entry)], IsWellHashed(table),
         NEW e \in Entry, NEW new, new = Linked(table, e),
         ~IsRegistered(table, e.name)
  PROVE  /\ IsRegistered(new, e.name) /\ symtable_find(new, e.name) = e
         /\ \A x \in Name \ {e.name} :
              /\ IsRegistered(new, x) <=> IsRegistered(table, x)
              /\ IsRegistered(table, x) => symtable_find(new, x) = symtable_find(table, x)
  <1> DEFINE i == index(e.name)
             s == table[i]
             t == <<e>> \o s
  <1>0. new \in [Index -> Seq(Entry)] /\ IsWellHashed(new)
    BY LinkedTable, LinkedWellHashed
  <1>1. /\ i \in Index /\ e.name \in Name
        /\ new[i] = t /\ \A b \in Index \ {i} : new[b] = table[b]
        /\ s \in Seq(Entry)
    BY LinkedTable
  <1>2. /\ DOMAIN t = 1 .. Len(s) + 1 /\ Len(s) \in Nat
        /\ t[1] = e
        /\ \A k \in 2 .. Len(s) + 1 : k - 1 \in DOMAIN s /\ t[k] = s[k - 1]
        /\ \A k \in DOMAIN s : k + 1 \in 2 .. Len(s) + 1 /\ t[k + 1] = s[k]
    BY <1>1, Chain
  <1> HIDE DEF s, t
  <1>3. 1 \in Matches(new, e.name)
    BY <1>1, <1>2 DEF Matches
  <1>4. symtable_find(new, e.name) = e
    <2>1. symtable_find(new, e.name) = new[index(e.name)][1]
      BY <1>0, <1>1, <1>3, FindsTheMatch
    <2> QED BY <1>1, <1>2, <2>1
  <1>5. ASSUME NEW x \in Name \ {e.name}
        PROVE  /\ IsRegistered(new, x) <=> IsRegistered(table, x)
               /\ IsRegistered(table, x) => symtable_find(new, x) = symtable_find(table, x)
    <2>1. index(x) \in Index
      BY IndexInRange
    <2>2. CASE index(x) # i
      <3>1. new[index(x)] = table[index(x)]
        BY <1>1, <2>1, <2>2
      <3>2. Matches(new, x) = Matches(table, x)
        BY <3>1 DEF Matches
      <3> QED BY <3>1, <3>2 DEF IsRegistered, symtable_find
    <2>3. CASE index(x) = i
      <3>1. ASSUME NEW k \in Matches(table, x)
            PROVE  /\ k + 1 \in Matches(new, x)
                   /\ symtable_find(new, x) = symtable_find(table, x)
        <4>1. k \in DOMAIN s /\ s[k].name = x
          BY <2>3 DEF Matches, s
        <4>2. k + 1 \in DOMAIN t /\ t[k + 1] = s[k]
          BY <1>2, <4>1
        <4>3. k + 1 \in Matches(new, x)
          BY <1>1, <2>3, <4>1, <4>2 DEF Matches
        <4>4. symtable_find(new, x) = t[k + 1]
          BY <1>0, <1>1, <2>3, <4>3, FindsTheMatch
        <4>5. symtable_find(table, x) = s[k]
          BY <2>3, FindsTheMatch DEF s
        <4> QED BY <4>2, <4>3, <4>4, <4>5
      <3>2. ASSUME NEW k \in Matches(new, x)
            PROVE  k - 1 \in Matches(table, x)
        <4>1. k \in DOMAIN t /\ t[k].name = x
          BY <1>1, <2>3 DEF Matches
        <4>2. k \in 2 .. Len(s) + 1
          BY <1>2, <4>1
        <4> QED BY <1>2, <2>3, <4>1, <4>2 DEF Matches, s
      <3> QED BY <3>1, <3>2 DEF IsRegistered
    <2> QED BY <2>2, <2>3
  <1> QED BY <1>3, <1>4, <1>5 DEF IsRegistered

(***************************************************************************)
(* The steps                                                               *)
(***************************************************************************)

IInv == TypeOK /\ WellHashed /\ SeenRegistered /\ NothingLeaks /\ IsFiniteSet(Entries)

LEMMA Initially == Init => IInv
  <1> SUFFICES ASSUME Init PROVE IInv
    OBVIOUS
  <1>1. TypeOK
    <2>1. buckets = [b \in Index |-> <<>>] /\ <<>> \in Seq(Entry)
      BY DEF Init
    <2>2. buckets \in [Index -> Seq(Entry)]
      BY <2>1
    <2>3. declarations \in Seq(Entry) /\ body \in Seq(Name)
      BY InputAssumption DEF Init
    <2> QED BY <2>2, <2>3 DEF Init, TypeOK
  <1>2. WellHashed
    BY DEF Init, WellHashed, IsWellHashed
  <1>3. SeenRegistered
    BY DEF Init, SeenRegistered, Seen
  <1>4. Entries = {} /\ size = 0 /\ heap = 0 /\ pc = "new"
    BY DEF Init, Entries
  <1>5. NothingLeaks /\ IsFiniteSet(Entries)
    BY <1>4, FS_EmptySet DEF NothingLeaks
  <1> QED BY <1>1, <1>2, <1>3, <1>5 DEF IInv

\* An insertion makes one chain one entry longer
LEMMA OneMoreEntry ==
  ASSUME TypeOK, NEW e \in Entry, buckets' = Linked(buckets, e), IsFiniteSet(Entries)
  PROVE  IsFiniteSet(Entries') /\ Cardinality(Entries') = Cardinality(Entries) + 1
  <1> DEFINE i == index(e.name)
             n == Len(buckets[i])
  <1>1. /\ i \in Index /\ buckets'[i] = <<e>> \o buckets[i] /\ buckets[i] \in Seq(Entry)
        /\ \A b \in Index \ {i} : buckets'[b] = buckets[b]
    <2>1. buckets \in [Index -> Seq(Entry)]
      BY DEF TypeOK
    <2> QED BY <2>1, LinkedTable
  <1>2. DOMAIN buckets[i] = 1 .. n /\ DOMAIN buckets'[i] = 1 .. n + 1 /\ n \in Nat
    BY <1>1, Chain
  <1> HIDE DEF i, n
  <1>3. /\ \A x \in Entries : \E b \in Index : \E k \in DOMAIN buckets[b] : x = <<b, k>>
        /\ \A b \in Index : \A k \in DOMAIN buckets[b] : <<b, k>> \in Entries
        /\ \A x \in Entries' : \E b \in Index : \E k \in DOMAIN buckets'[b] : x = <<b, k>>
        /\ \A b \in Index : \A k \in DOMAIN buckets'[b] : <<b, k>> \in Entries'
    BY DEF Entries
  <1>4. Entries' \subseteq Entries \cup {<<i, n + 1>>}
    <2> SUFFICES ASSUME NEW b \in Index, NEW k \in DOMAIN buckets'[b]
                 PROVE  <<b, k>> \in Entries \cup {<<i, n + 1>>}
      BY <1>3
    <2>1. CASE b = i
      BY <1>1, <1>2, <1>3, <2>1
    <2>2. CASE b # i
      BY <1>1, <1>3, <2>2
    <2> QED BY <2>1, <2>2
  <1>5. Entries \cup {<<i, n + 1>>} \subseteq Entries'
    <2>1. ASSUME NEW b \in Index, NEW k \in DOMAIN buckets[b]
          PROVE  <<b, k>> \in Entries'
      <3>1. CASE b = i
        BY <1>1, <1>2, <1>3, <3>1
      <3>2. CASE b # i
        BY <1>1, <1>3, <3>2
      <3> QED BY <3>1, <3>2
    <2>2. <<i, n + 1>> \in Entries'
      BY <1>1, <1>2, <1>3
    <2> QED BY <1>3, <2>1, <2>2
  <1>6. <<i, n + 1>> \notin Entries
    <2> SUFFICES ASSUME NEW b \in Index, NEW k \in DOMAIN buckets[b], <<i, n + 1>> = <<b, k>> PROVE FALSE
      BY <1>3
    <2>1. b = i /\ k = n + 1
      OBVIOUS
    <2> QED BY <1>2, <2>1
  <1>7. Entries' = Entries \cup {<<i, n + 1>>}
    BY <1>4, <1>5
  <1> QED BY <1>6, <1>7, FS_AddElement

\* The declaration at pos is an entry
LEMMA DeclarationIsEntry ==
  ASSUME TypeOK, Declares
  PROVE  declaration \in Entry /\ pos \in DOMAIN declarations /\ declaration.name \in Name
  <1>1. declarations \in Seq(Entry) /\ pos \in Nat \ {0} /\ pos <= Len(declarations)
    BY DEF TypeOK, Declares
  <1>2. pos \in DOMAIN declarations /\ declarations[pos] \in Entry
    BY <1>1
  <1> QED BY <1>2 DEF declaration, Entry

LEMMA InsertKeeps ==
  ASSUME IInv, Insert
  PROVE  IInv'
  <1> DEFINE e == declaration
  <1>1. e \in Entry /\ pos \in DOMAIN declarations /\ e.name \in Name /\ e = declarations[pos]
    BY DeclarationIsEntry DEF IInv, Insert, declaration
  <1>2. buckets \in [Index -> Seq(Entry)] /\ IsWellHashed(buckets)
        /\ ~IsRegistered(buckets, e.name) /\ buckets' = Linked(buckets, e)
    BY DEF IInv, TypeOK, WellHashed, Insert
  <1>3. /\ pc = "declare" /\ pc' = "declare" /\ pos' = pos + 1 /\ error_count' = error_count
        /\ declarations' = declarations /\ body' = body
    BY DEF Insert, Declares, NextPos, Input
  <1> HIDE DEF e
  <1>4. TypeOK'
    <2>1. buckets' \in [Index -> Seq(Entry)]
      BY <1>1, <1>2, LinkedTable
    <2>2. size' \in Nat /\ heap' \in Int
      BY DEF IInv, TypeOK, Insert
    <2> QED BY <1>3, <2>1, <2>2 DEF IInv, TypeOK
  <1>5. WellHashed'
    BY <1>1, <1>2, LinkedWellHashed DEF WellHashed
  <1>6. /\ IsRegistered(buckets', e.name) /\ symtable_find(buckets', e.name) = e
        /\ \A x \in Name \ {e.name} :
              /\ IsRegistered(buckets', x) <=> IsRegistered(buckets, x)
              /\ IsRegistered(buckets, x) => symtable_find(buckets', x) = symtable_find(buckets, x)
    BY <1>1, <1>2, LinkedFinds
  <1>7. SeenRegistered'
    <2>1. pos' <= Len(declarations) + 1 /\ pos \in Nat \ {0} /\ declarations \in Seq(Entry)
      BY <1>1, <1>3 DEF IInv, TypeOK
    <2>2. Seen = pos - 1 /\ Seen' = pos
      BY <1>3, <2>1 DEF Seen
    <2>3. ASSUME error_count = 0, NEW i \in 1 .. pos
          PROVE  /\ IsRegistered(buckets', declarations[i].name)
                 /\ symtable_find(buckets', declarations[i].name) = declarations[i]
                 /\ \A j \in 1 .. pos : declarations[i].name = declarations[j].name => i = j
      <3>1. ASSUME NEW j \in 1 .. pos - 1
            PROVE  /\ declarations[j].name \in Name \ {e.name}
                   /\ IsRegistered(buckets, declarations[j].name)
                   /\ symtable_find(buckets, declarations[j].name) = declarations[j]
                   /\ \A m \in 1 .. pos - 1 : declarations[j].name = declarations[m].name => j = m
        <4>1. /\ IsRegistered(buckets, declarations[j].name)
              /\ symtable_find(buckets, declarations[j].name) = declarations[j]
              /\ \A m \in 1 .. pos - 1 : declarations[j].name = declarations[m].name => j = m
          BY <1>3, <2>2, <2>3 DEF IInv, SeenRegistered
        <4>2. declarations[j] \in Entry
          BY <1>1, <2>1
        <4> QED BY <1>2, <4>1, <4>2 DEF Entry
      <3>2. CASE i = pos
        <4>1. \A j \in 1 .. pos : declarations[i].name = declarations[j].name => i = j
          BY <1>1, <2>1, <3>1, <3>2
        <4> QED BY <1>1, <1>6, <3>2, <4>1
      <3>3. CASE i \in 1 .. pos - 1
        <4>1. \A j \in 1 .. pos : j = pos \/ j \in 1 .. pos - 1
          BY <2>1
        <4>2. \A j \in 1 .. pos : declarations[i].name = declarations[j].name => i = j
          BY <1>1, <3>1, <3>3, <4>1
        <4> QED BY <1>6, <3>1, <3>3, <4>2
      <3> QED BY <2>1, <3>2, <3>3
    <2> QED BY <1>3, <2>1, <2>2, <2>3 DEF SeenRegistered
  <1>8. NothingLeaks' /\ IsFiniteSet(Entries')
    <2>1. IsFiniteSet(Entries') /\ Cardinality(Entries') = Cardinality(Entries) + 1
      BY <1>1, <1>2, OneMoreEntry DEF IInv
    <2>2. size' = size + 1 /\ heap' = heap + 2
      BY DEF Insert
    <2> QED BY <1>3, <2>1, <2>2 DEF IInv, TypeOK, NothingLeaks
  <1> QED BY <1>4, <1>5, <1>7, <1>8 DEF IInv

\* The other steps leave the table alone
LEMMA OtherStepsKeep ==
  ASSUME IInv, [Next]_vars, ~Insert
  PROVE  IInv' /\ buckets' = buckets
  <1>1. /\ buckets' = buckets /\ declarations' = declarations /\ body' = body
        /\ size' = size
    BY DEF Next, Step, Terminated, vars, Table, Input, New, NewFails, Redeclare, InsertFails,
           DeclarationsEnd, Use, HandOn, Free
  <1>2. WellHashed'
    BY <1>1 DEF IInv, WellHashed, IsWellHashed
  <1>3. error_count \in Nat /\ heap \in Int /\ pos \in Nat \ {0} /\ declarations \in Seq(Entry)
        /\ body \in Seq(Name) /\ Cardinality(Entries) \in Nat
    BY FS_CardinalityType DEF IInv, TypeOK
  <1>4. TypeOK'
    <2>1. /\ pos' \in Nat \ {0} /\ error_count' \in Nat /\ heap' \in Int
          /\ pc' \in {"new", "declare", "check", "handed_on", "failed"}
      BY <1>3, SMTT(30) DEF IInv, TypeOK, Next, Step, Terminated, vars, NextPos, New, NewFails, Redeclare,
             InsertFails, DeclarationsEnd, Use, HandOn, Free
    <2> QED BY <1>1, <2>1 DEF IInv, TypeOK
  <1>5. SeenRegistered'
    <2>1. CASE New
      BY <1>1, <1>3, <2>1 DEF IInv, SeenRegistered, Seen, New
    <2>2. CASE NewFails \/ Redeclare \/ InsertFails \/ Free
      BY <1>1, <1>3, <2>2 DEF IInv, SeenRegistered, Seen, NewFails, Redeclare, InsertFails, Free,
                              NextPos, Declares
    <2>3. CASE DeclarationsEnd
      BY <1>1, <1>3, <2>3 DEF IInv, SeenRegistered, Seen, DeclarationsEnd
    <2>4. CASE Use
      BY <1>1, <1>3, <2>4 DEF IInv, SeenRegistered, Seen, Use, NextPos
    <2>5. CASE HandOn
      BY <1>1, <1>3, <2>5 DEF IInv, SeenRegistered, Seen, HandOn
    <2>6. CASE UNCHANGED vars
      BY <1>1, <1>3, <2>6 DEF IInv, SeenRegistered, Seen, vars
    <2> QED BY <2>1, <2>2, <2>3, <2>4, <2>5, <2>6 DEF Next, Step, Terminated
  <1>6. NothingLeaks' /\ IsFiniteSet(Entries')
    <2>1. Entries' = Entries /\ size = Cardinality(Entries)
      BY <1>1 DEF Entries, IInv, NothingLeaks
    <2>2. \/ heap' = heap /\ (pc' \in {"new", "failed"} <=> pc \in {"new", "failed"})
          \/ New
          \/ Free
      BY DEF Next, Step, Terminated, vars, NextPos, Declares, NewFails, Redeclare, InsertFails,
             DeclarationsEnd, Use, HandOn
    <2>3. NothingLeaks'
      <3>1. CASE heap' = heap /\ (pc' \in {"new", "failed"} <=> pc \in {"new", "failed"})
        BY <1>1, <2>1, <3>1 DEF IInv, NothingLeaks
      <3>2. CASE New
        <4>1. pc = "new" /\ pc' = "declare" /\ heap' = heap + 2
          BY <3>2 DEF New
        <4>2. size = 0
          BY <4>1 DEF IInv, SeenRegistered
        <4> QED BY <1>1, <2>1, <4>1, <4>2 DEF IInv, NothingLeaks
      <3>3. CASE Free
        BY <1>1, <1>3, <2>1, <3>3 DEF IInv, NothingLeaks, Free
      <3> QED BY <2>2, <3>1, <3>2, <3>3
    <2> QED BY <2>1, <2>3 DEF IInv
  <1> QED BY <1>1, <1>2, <1>4, <1>5, <1>6 DEF IInv

(***************************************************************************)
(* The theorems                                                            *)
(***************************************************************************)

\* The inductive invariant: the chains are well hashed, the declarations seen
\* are in them, and every block is accounted for.
THEOREM Inductive == Spec => []IInv
  <1>1. Init => IInv
    BY Initially
  <1>2. IInv /\ [Next]_vars => IInv'
    BY InsertKeeps, OtherStepsKeep
  <1> QED BY <1>1, <1>2, PTL DEF Spec

\* The variables keep their types, for any names, hash function and failures.
THEOREM TypeCorrect == Spec => []TypeOK
  BY Inductive, PTL DEF IInv

\* An entry is always in the bucket where symtable_find looks for its name, and
\* is the only one of that name, whatever collides.
THEOREM AlwaysWellHashed == Spec => []WellHashed
  BY Inductive, PTL DEF IInv

\* Every block the table allocates is freed when the check fails.
THEOREM NeverLeaks == Spec => []NothingLeaks
  BY Inductive, PTL DEF IInv

\* A table that is handed to the code generator has every declared name, with the
\* type of its only declaration, and every name that the body uses.
THEOREM HandedOnIsComplete == Spec => []HandedOnComplete
  <1>1. IInv => HandedOnComplete
    <2> SUFFICES ASSUME IInv, pc = "handed_on"
                 PROVE  /\ \A i \in DOMAIN declarations :
                             /\ IsRegistered(buckets, declarations[i].name)
                             /\ symtable_find(buckets, declarations[i].name).type = declarations[i].type
                        /\ \A i, j \in DOMAIN declarations :
                             declarations[i].name = declarations[j].name => i = j
                        /\ \A i \in DOMAIN body : IsRegistered(buckets, body[i])
      BY DEF HandedOnComplete
    <2>1. Seen = Len(declarations) /\ error_count = 0 /\ pos > Len(body)
      BY DEF IInv, SeenRegistered, Seen
    <2>2. DOMAIN declarations = 1 .. Seen /\ DOMAIN body \subseteq 1 .. pos - 1
      BY <2>1 DEF IInv, TypeOK
    <2> QED BY <2>1, <2>2 DEF IInv, SeenRegistered
  <1> QED BY <1>1, Inductive, PTL

\* The hash table implements the map: the initial table stands for the empty map,
\* an insertion adds its name, and no other step changes what the table stands for.
THEOREM TableImplementsMap == Spec => ImplementsMap
  <1>1. Init => M!Init
    <2> SUFFICES ASSUME Init PROVE Contents = [name \in {} |-> {}]
      BY DEF M!Init
    <2>1. \A x \in Name : ~IsRegistered(buckets, x)
      BY IndexInRange DEF Init, IsRegistered, Matches
    <2>2. {x \in Name : IsRegistered(buckets, x)} = {}
      BY <2>1
    <2> QED BY <2>2 DEF Contents
  <1>2. IInv /\ [Next]_vars => [M!Next]_Contents
    <2> SUFFICES ASSUME IInv, [Next]_vars PROVE M!Next \/ Contents' = Contents
      OBVIOUS
    <2>1. CASE ~Insert
      <3>1. buckets' = buckets
        BY <2>1, OtherStepsKeep
      <3> QED BY <3>1 DEF Contents
    <2>2. CASE Insert
      <3> DEFINE e == declaration
      <3>1. e \in Entry
        BY <2>2, DeclarationIsEntry DEF IInv, Insert
      <3>2. buckets \in [Index -> Seq(Entry)] /\ IsWellHashed(buckets)
            /\ ~IsRegistered(buckets, e.name) /\ buckets' = Linked(buckets, e)
        BY <2>2 DEF IInv, TypeOK, WellHashed, Insert
      <3> HIDE DEF e
      <3>3. e.name \in Name /\ e.type \in Type
        BY <3>1 DEF Entry
      <3>4. /\ IsRegistered(buckets', e.name) /\ symtable_find(buckets', e.name) = e
            /\ \A x \in Name \ {e.name} :
                 /\ IsRegistered(buckets', x) <=> IsRegistered(buckets, x)
                 /\ IsRegistered(buckets, x) => symtable_find(buckets', x) = symtable_find(buckets, x)
        BY <3>1, <3>2, LinkedFinds
      <3>5. {x \in Name : IsRegistered(buckets', x)}
              = {x \in Name : IsRegistered(buckets, x)} \cup {e.name}
        BY <3>2, <3>3, <3>4
      <3>6. M!Insert(e.name, e.type)
        BY <3>2, <3>3, <3>4, <3>5 DEF M!Insert, Contents
      <3> QED BY <3>3, <3>6 DEF M!Next
    <2> QED BY <2>1, <2>2
  <1> QED BY <1>1, <1>2, Inductive, PTL DEF Spec, M!Spec, ImplementsMap
=============================================================================
