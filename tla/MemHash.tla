------------------------------- MODULE MemHash -------------------------------
(***************************************************************************)
(* Shared memoization copies (speclib/memhash.c).                          *)
(*                                                                         *)
(* The specializer keeps copies of memory blocks to compare with later     *)
(* states.  Blocks of at least MinSize bytes are shared by all copies with *)
(* the same contents, which are counted.  The blocks are found through a   *)
(* hash table with sorted bucket lists.                                    *)
(***************************************************************************)
EXTENDS Naturals, FiniteSets, SequencesExt, FiniteSetsExt

CONSTANTS
  Address,   \* of memory, one for each block (a bound)
  Blocks,    \* the blocks copied: <<size, contents>>, the contents ordered as
             \* by memcmp
  MinSize,   \* MIN_SIZE
  Hash(_),   \* hash of a size: the loop over the contents is never entered
  MaxCopies  \* bound on the number of copies of a block

ASSUME BlockAssumption == Blocks \subseteq Nat \X Nat /\ MinSize \in Nat

Size(o)  == o[1]
Bytes(o) == o[2]

VARIABLES
  memory,  \* what is stored at each address: a sequence of one block, or none
  table,   \* the bucket lists, of records [at, ref_count]
  held     \* copies given out, at each address: the block, how many there are

memhash == <<memory, table, held>>

Keys == {Hash(Size(o)) : o \in Blocks}

MHInit ==
  /\ memory = [a \in Address |-> <<>>]
  /\ table = [k \in Keys |-> <<>>]
  /\ held = [a \in Address |-> [block |-> <<>>, copies |-> 0]]

Free == {a \in Address : memory[a] = <<>>}

Obj(b) == memory[b.at][1]

List(o) == table[Hash(Size(o))]

\* The lists are searched as long as the buckets come before the block.
Passes(o, p) == Size(o) < Size(p) \/ (Size(o) = Size(p) /\ Bytes(o) < Bytes(p))

\* The place of the first bucket that does not come before o.
Place(o) == Min({i \in 1 .. Len(List(o)) + 1 : i <= Len(List(o)) => ~ Passes(o, Obj(List(o)[i]))})

IsThere(o) == Place(o) <= Len(List(o)) /\ Obj(List(o)[Place(o)]) = o

Give(a, o) == held' = [held EXCEPT ![a] = [block |-> o, copies |-> @.copies + 1]]

\* Variant with a defect: the new bucket goes to the end of the list.
Inserted_last(list, i, b) == Append(list, b)

Inserted(list, i, b) == InsertAt(list, i, b)

\* cmixCreateMemoCopy: lookup finds the block,
ShareCopy(o) ==
  LET b == List(o)[Place(o)]
  IN  /\ Size(o) >= MinSize /\ IsThere(o)
      /\ b.ref_count < MaxCopies
      /\ table' = [table EXCEPT ![Hash(Size(o))][Place(o)].ref_count = @ + 1]
      /\ Give(b.at, o)
      /\ UNCHANGED memory

\* or it is copied to memory that is free.
MakeCopy(o, a) ==
  /\ ~ (Size(o) >= MinSize /\ IsThere(o))
  /\ memory' = [memory EXCEPT ![a] = <<o>>]
  /\ Give(a, o)
  /\ IF Size(o) >= MinSize
     THEN table' = [table EXCEPT ![Hash(Size(o))] =
                      Inserted(@, Place(o), [at |-> a, ref_count |-> 1])]
     ELSE UNCHANGED table

Dies(n) == n = 1

\* cmixFreeMemoCopy, remove_hashed.  (If the block is not found, the program
\* is aborted.)
Release(a) ==
  LET o == memory[a][1]
      b == List(o)[Place(o)]
  IN  /\ held[a].copies > 0
      /\ held' = [held EXCEPT ![a].copies = @ - 1]
      /\ IF Size(o) < MinSize
         THEN memory' = [memory EXCEPT ![a] = <<>>] /\ UNCHANGED table
         ELSE /\ IsThere(o)
              /\ IF Dies(b.ref_count)
                 THEN /\ memory' = [memory EXCEPT ![b.at] = <<>>]
                      /\ table' = [table EXCEPT ![Hash(Size(o))] = RemoveAt(@, Place(o))]
                 ELSE /\ table' = [table EXCEPT ![Hash(Size(o))][Place(o)].ref_count = @ - 1]
                      /\ UNCHANGED memory

MHNext ==
  \/ \E o \in Blocks : ShareCopy(o) \/ \E a \in Free : MakeCopy(o, a)
  \/ \E a \in Address : Release(a)

MHSpec == MHInit /\ [][MHNext]_memhash

----------------------------------------------------------------------------
(***************************************************************************)
(* Properties.                                                             *)
(***************************************************************************)
\* A copy that is held has the contents it was made with, and memory that
\* belongs to no copy has been freed.
CopiesAreIntact ==
  \A a \in Address :
    IF held[a].copies > 0 THEN memory[a] = <<held[a].block>> ELSE memory[a] = <<>>

\* "object not found": not for a copy that is held.
HeldIsFound ==
  \A a \in Address : held[a].copies > 0 /\ Size(held[a].block) >= MinSize => IsThere(held[a].block)

\* Large blocks of the same contents share their memory.
LargeAreShared ==
  \A a, b \in Address :
    /\ held[a].copies > 0 /\ held[b].copies > 0
    /\ held[a].block = held[b].block /\ Size(held[a].block) >= MinSize
    => a = b

\* A copy that is held keeps its contents, is found again when it is given
\* back, and shares its memory with every other copy of the same contents;
\* memory that belongs to no copy has been freed.
CopiesAreKept == CopiesAreIntact /\ HeldIsFound /\ LargeAreShared
=============================================================================
