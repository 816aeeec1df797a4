------------------------------ MODULE AstHeap ------------------------------
(***************************************************************************)
(* The syntax tree in memory (src/src/ast.h, ast.c): nodes that point to   *)
(* their parts and, in lists, to the next one.  An address is an index of  *)
(* the heap, and is not used again; 0 is NULL.                             *)
(*                                                                         *)
(* A node is [kind, tag, kids, next, tail], with its pointers to parts in   *)
(* the order of the struct.  The copy of a text is a block of the kind     *)
(* "TEXT".                                                                 *)
(***************************************************************************)
EXTENDS Integers, Sequences, SequencesExt

NIL == 0

Block(kind, tag, kids, tail) ==
  [kind |-> kind, tag |-> tag, kids |-> kids, next |-> NIL, tail |-> tail]

\* calloc and the assignments of a constructor.  Of the nodes only those that
\* can be in a list have a tail, at first themselves.
Fresh(heap) == Len(heap) + 1
Listed == {"IDENTIFIER", "DECLARATION", "CASE", "ASSIGN", "INPUT", "OUTPUT", "IF", "WHILE",
           "SWITCH", "BREAK", "BLOCK"}
New(heap, kind, tag, kids) ==
  Append(heap, Block(kind, tag, kids, IF kind \in Listed THEN Fresh(heap) ELSE NIL))

\* One block of those that are still to be freed; then what it points to is to be freed.
\* (free_ast_... frees a node after its parts, and nothing else happens in between.)
FreeBlock(heap, work) ==
  LET left  == {i \in DOMAIN work.todo : work.todo[i] # NIL}
      i     == CHOOSE i \in left : TRUE
      block == heap[work.todo[i]]
  IN  IF left = {} THEN work
      ELSE [todo |-> [work.todo EXCEPT ![i] = NIL] \o Append(block.kids, block.next),
            done |-> Append(work.done, work.todo[i])]
\* The blocks that free_ast_... frees, given pointers to trees (each step is bound, so
\* that TLC computes it once)
Owned(heap, pointers) ==
  LET work[n \in 0 .. Len(heap)] ==
        IF n = 0 THEN [todo |-> pointers, done |-> <<>>]
        ELSE CHOOSE next \in {FreeBlock(heap, w) : w \in {work[n - 1]}} : TRUE
  IN  work[Len(heap)].done

\* Faulty: the tail stays where it was
Appended_NoTail(heap, head, node) ==
  IF node = NIL \/ head = NIL THEN heap
  ELSE [heap EXCEPT ![heap[head].tail].next = node]

\* ast_..._append, and the list that it returns
Appended(heap, head, node) ==
  IF node = NIL \/ head = NIL THEN heap
  ELSE [heap EXCEPT ![heap[head].tail].next = node, ![head].tail = heap[node].tail]
AppendedList(head, node) == IF head = NIL THEN node ELSE head
=============================================================================
