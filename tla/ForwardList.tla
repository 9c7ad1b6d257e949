---------------------------- MODULE ForwardList ----------------------------
(***************************************************************************)
(* memory-mangement/fwd_list_*.hpp: the three forward lists, with nodes    *)
(* from new and delete ("explicit"), owned by a unique_ptr ("implicit") or *)
(* from an allocator ("alloc").                                            *)
(*                                                                         *)
(* Memory is a small heap of nodes: a heap that is full is the bad_alloc   *)
(* the code has to live with.  Two lists are operated on; `content' says   *)
(* what a user who knows only the interface believes to be in each.        *)
(***************************************************************************)
EXTENDS Integers, SequencesExt, FiniteSets, FiniteSetsExt

CONSTANTS MaxNodes, \* size of the heap
          Values,
          MaxOps    \* bound of the operations

VARIABLES kind, node, \* the allocated nodes: value and next
          list,       \* per list: head and nElems
          content,
          undefined,  \* an exception has left the list in a state nobody promised
          ops

vars == <<kind, node, list, content, undefined, ops>>
Lists == {1, 2}
Null == 0

Fresh(used) ==
  /\ kind \in {"explicit", "implicit", "alloc"} /\ node = << >>
  /\ list = [l \in Lists |-> [head |-> Null, nElems |-> 0]] /\ content = [l \in Lists |-> <<>>]
  /\ undefined = FALSE /\ ops = used
Init == Fresh(0)
Ended == Fresh(MaxOps) /\ kind = "explicit"

-----------------------------------------------------------------------------
(* The heap.                                                               *)

FreeNodes(heap) == (1 .. MaxNodes) \ DOMAIN heap
With(heap, n, v, next) == [k \in DOMAIN heap \cup {n} |-> IF k = n THEN [value |-> v, next |-> next] ELSE heap[k]]
Linked(heap, n, next) == [heap EXCEPT ![n].next = next]
Without(heap, S) == [k \in DOMAIN heap \ S |-> heap[k]]

(* The nodes from h on; a list that runs in a circle is cut off.           *)
RECURSIVE Walk(_, _, _)
Walk(heap, h, fuel) ==
  IF h = Null \/ fuel = 0 \/ h \notin DOMAIN heap THEN <<>>
  ELSE <<h>> \o Walk(heap, heap[h].next, fuel - 1)
Nodes(heap, h) == Walk(heap, h, MaxNodes + 1)

(* clear, and the Deleter of the implicit list: from the head on.          *)
clear(heap, h) == Without(heap, Range(Nodes(heap, h)))

(* forward_list(b, e): node by node at the tail.  Short of memory all that *)
(* was built is freed again; head Null then stands for the exception.      *)
RECURSIVE Build(_, _, _, _)
Build(heap, head, tail, vs) ==
  IF vs = <<>> THEN [heap |-> heap, head |-> head]
  ELSE IF FreeNodes(heap) = {} THEN [heap |-> clear(heap, head), head |-> Null]
  ELSE LET n == Min(FreeNodes(heap))
           grown == With(heap, n, Head(vs), Null)
       IN  IF head = Null THEN Build(grown, n, n, Tail(vs)) ELSE Build(Linked(grown, tail, n), head, n, Tail(vs))

-----------------------------------------------------------------------------
(* Operations.                                                             *)

Op == ops < MaxOps /\ ops' = ops + 1 /\ ~undefined /\ UNCHANGED kind
Has(l, h, n) == list' = [list EXCEPT ![l] = [head |-> h, nElems |-> n]]
Believed(l, s) == content' = [content EXCEPT ![l] = s]
Nothing == UNCHANGED <<node, list, content, undefined>>
Full == FreeNodes(node) = {}
NewNode == Min(FreeNodes(node))
Pushed(l, v) ==
  /\ node' = With(node, NewNode, v, list[l].head)
  /\ Has(l, NewNode, list[l].nElems + 1) /\ Believed(l, <<v>> \o content[l]) /\ UNCHANGED undefined

push_front(l, v) == /\ Op /\ kind = "explicit" /\ IF Full THEN Nothing ELSE Pushed(l, v)

(* The head is released before the node is asked for.                      *)
push_front_implicit(l, v) ==
  /\ Op /\ kind = "implicit"
  /\ IF Full THEN undefined' = TRUE /\ Has(l, Null, list[l].nElems) /\ UNCHANGED <<node, content>> ELSE Pushed(l, v)

push_front_alloc(l, v) == /\ Op /\ kind = "alloc" /\ IF Full THEN Nothing ELSE Pushed(l, v)

(* push_front and insert_after of the allocator's list: a node whose value *)
(* cannot be constructed stays allocated.                                  *)
ConstructThrows(v) ==
  /\ Op /\ kind = "alloc" /\ ~Full /\ undefined' = TRUE
  /\ node' = With(node, NewNode, v, Null) /\ UNCHANGED <<list, content>>

pop_front(l) ==
  /\ Op
  /\ IF list[l].head = Null THEN Nothing
     ELSE LET h == list[l].head
          IN  /\ node' = Without(node, {h}) /\ Has(l, node[h].next, list[l].nElems - 1)
              /\ Believed(l, Tail(content[l])) /\ UNCHANGED undefined

(* insert_after(pos): pos is the p-th node.                                *)
insert_after(l, p, v) ==
  /\ Op /\ p \in 1 .. Len(content[l])
  /\ IF Full THEN Nothing
     ELSE LET pos == Nodes(node, list[l].head)[p]
          IN  /\ node' = Linked(With(node, NewNode, v, node[pos].next), pos, NewNode)
              /\ Has(l, list[l].head, list[l].nElems + 1)
              /\ Believed(l, InsertAt(content[l], p + 1, v)) /\ UNCHANGED undefined

erase_after(l, p) ==
  /\ Op /\ p \in 1 .. Len(content[l])
  /\ LET pos == Nodes(node, list[l].head)[p]
     IN  IF node[pos].next = Null THEN Nothing
         ELSE LET gone == node[pos].next
              IN  /\ node' = Without(Linked(node, pos, node[gone].next), {gone})
                  /\ Has(l, list[l].head, list[l].nElems - 1)
                  /\ Believed(l, RemoveAt(content[l], p + 1)) /\ UNCHANGED undefined

Clear(l) == /\ Op /\ node' = clear(node, list[l].head) /\ Has(l, Null, 0) /\ Believed(l, <<>>) /\ UNCHANGED undefined

(* Copy and move assignment: a temporary, a swap, and the temporary's end. *)
CopyAssign(l, k) ==
  /\ Op
  /\ LET made == Build(node, Null, Null, [p \in 1 .. Len(content[k]) |-> node[Nodes(node, list[k].head)[p]].value])
     IN  IF made.head = Null /\ list[k].head # Null THEN Nothing
         ELSE /\ node' = clear(made.heap, list[l].head) /\ Has(l, made.head, list[k].nElems)
              /\ Believed(l, content[k]) /\ UNCHANGED undefined

(* In the allocator's list a value that cannot be copied leaves a node at  *)
(* the tail that clear() destroys without its having been constructed.     *)
CopyThrows(l, k) ==
  /\ Op /\ kind = "alloc" /\ content[k] # <<>> /\ ~Full /\ undefined' = TRUE /\ UNCHANGED <<node, list, content>>

MoveAssign(l, k) ==
  /\ Op
  /\ IF l = k THEN Nothing
     ELSE /\ node' = clear(node, list[l].head)
          /\ list' = [list EXCEPT ![l] = list[k], ![k] = [head |-> Null, nElems |-> 0]]
          /\ content' = [content EXCEPT ![l] = content[k], ![k] = <<>>] /\ UNCHANGED undefined

swap ==
  /\ Op /\ list' = [list EXCEPT ![1] = list[2], ![2] = list[1]]
  /\ content' = [content EXCEPT ![1] = content[2], ![2] = content[1]] /\ UNCHANGED <<node, undefined>>

Push(l, v) == push_front(l, v) \/ push_front_implicit(l, v) \/ push_front_alloc(l, v)
Next ==
  \/ \E l \in Lists : pop_front(l) \/ Clear(l)
  \/ \E l \in Lists, v \in Values : Push(l, v) \/ \E p \in 1 .. MaxNodes : insert_after(l, p, v)
  \/ \E l \in Lists, p \in 1 .. MaxNodes : erase_after(l, p)
  \/ \E l, k \in Lists : CopyAssign(l, k) \/ CopyThrows(l, k) \/ MoveAssign(l, k)
  \/ (\E v \in Values : ConstructThrows(v)) \/ swap
Spec == Init /\ [][Next]_vars

-----------------------------------------------------------------------------
(* Each list holds, in order, what its user believes to be in it, and its  *)
(* size says so; no node belongs to two lists, and none is left allocated  *)
(* that belongs to no list, even when memory runs out (but not when        *)
(* push_front of the implicit list fails or a constructor throws).         *)
ListsExact ==
  ~undefined =>
    /\ \A l \in Lists :
         LET ns == Nodes(node, list[l].head)
         IN  [p \in 1 .. Len(ns) |-> node[ns[p]].value] = content[l] /\ list[l].nElems = Len(ns)
    /\ Range(Nodes(node, list[1].head)) \cap Range(Nodes(node, list[2].head)) = {}
    /\ Range(Nodes(node, list[1].head)) \cup Range(Nodes(node, list[2].head)) = DOMAIN node
=============================================================================
