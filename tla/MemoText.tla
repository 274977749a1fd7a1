------------------------------ MODULE MemoText ------------------------------
(***************************************************************************)
(* How the generating extension is told what to memoize: the analyzer      *)
(* writes sets of objects as string literals (gg-memo.cc), which the C     *)
(* compiler turns into bytes and speclib reads.                            *)
(*   locals: the positions of the locals memoized with a block, in digits  *)
(*   of base 255 (emit_memodata), read by MEMOSTEP of pending.c;           *)
(*   ids: a set of object numbers as bits (emit_memowhat), read by         *)
(*   setinwhat of mem.c.                                                   *)
(* The breaking of long literals into lines is left out.                   *)
(***************************************************************************)
EXTENDS Naturals, Sequences, FiniteSetsExt, SequencesExt

CONSTANTS
  PositionSets,  \* sets of positions, which are numbered from 1
  IdSets         \* <<number of objects, set of ids>>; ids are numbered from 0

ASSUME TextAssumption ==
  /\ \A S \in PositionSets : IsFiniteSet(S) /\ S \subseteq Nat \ {0}
  /\ \A i \in IdSets : i[1] \in Nat \ {0} /\ i[2] \subseteq 0 .. i[1] - 1

VARIABLES
  set,      \* what is to be memoized: [kind, of, count]
  step,     \* "emit", "read" or "done"
  literal,  \* the bytes of the string, with the 0 that ends it
  cursor,   \* where the next byte is read
  restored  \* the objects found so far

memotext == <<set, step, literal, cursor, restored>>

----------------------------------------------------------------------------
\* Escapes of a C string literal, and the byte that they stand for.
Hexadecimal(digits) == [base |-> 16, digits |-> digits]
Octal(data) ==
  [base |-> 8, digits |-> (IF data >= 64 THEN <<(data \div 64) % 8>> ELSE <<>>) \o
                          (IF data >= 8 THEN <<(data \div 8) % 8>> ELSE <<>>) \o <<data % 8>>]

Byte(escape) == FoldLeft(LAMBDA value, digit : escape.base * value + digit, 0, escape.digits)

Bytes(text) == [k \in DOMAIN text |-> Byte(text[k])] \o <<0>>

\* Variant with a defect: 255 itself is left over as the other digit.
Digits_past(n) == [k \in 1 .. (n - 1) \div 255 |-> Hexadecimal(<<15, 15>>)]
                    \o <<Octal(n - 255 * ((n - 1) \div 255))>>

\* A position in base 255: as many full digits as fit, and what remains.
Digits(n) == [k \in 1 .. n \div 255 |-> Hexadecimal(<<15, 15>>)] \o <<Octal(n % 255)>>

Ascending(S) == [k \in 1 .. Cardinality(S) |->
                   CHOOSE n \in S : Cardinality({m \in S : m < n}) = k - 1]

emit_memodata(numberset) ==
  FoldLeft(LAMBDA text, n : text \o Digits(n), <<>>, Ascending(numberset))

emit_memowhat(count, ids) ==
  LET bytes   == (count + 7) \div 8
      Data(i) == SumSet({2 ^ (id % 8) : id \in {j \in ids : j \div 8 = i}})
      written == IF bytes > 0 /\ Data(bytes - 1) = 0 THEN bytes - 1 ELSE bytes
  IN  [i \in 1 .. written |-> Octal(Data(i - 1))]

----------------------------------------------------------------------------
TextInit ==
  /\ set \in [kind : {"locals"}, of : PositionSets, count : {0}]
             \cup {[kind |-> "ids", of |-> i[2], count |-> i[1]] : i \in IdSets}
  /\ step = "emit" /\ literal = <<>> /\ cursor = 1 /\ restored = <<>>

Emit ==
  /\ step = "emit"
  /\ literal' = Bytes(IF set.kind = "locals" THEN emit_memodata(set.of)
                                             ELSE emit_memowhat(set.count, set.of))
  /\ step' = "read"
  /\ UNCHANGED <<set, cursor, restored>>

\* One turn of the loops of cmixPendinsert and cmixPending: bytes of 255 are added up
\* until another one comes.
MEMOSTEP ==
  /\ step = "read" /\ set.kind = "locals"
  /\ literal[cursor] # 0
  /\ LET full == CHOOSE k \in 0 .. Len(literal) :
                   /\ literal[cursor + k] # 255
                   /\ \A j \in 0 .. k - 1 : literal[cursor + j] = 255
     IN  /\ restored' = Append(restored, 255 * full + literal[cursor + full])
         /\ cursor' = cursor + full + 1
  /\ UNCHANGED <<set, step, literal>>

Break ==
  /\ step = "read" /\ set.kind = "locals"
  /\ literal[cursor] = 0
  /\ step' = "done"
  /\ UNCHANGED <<set, literal, cursor, restored>>

\* setinwhat for the next object: cursor - 1 is its number.
setinwhat(id) == (literal[id \div 8 + 1] \div 2 ^ (id % 8)) % 2 = 1

Compare ==
  /\ step = "read" /\ set.kind = "ids"
  /\ restored' = IF setinwhat(cursor - 1) THEN Append(restored, cursor - 1) ELSE restored
  /\ cursor' = cursor + 1
  /\ step' = IF cursor = set.count THEN "done" ELSE "read"
  /\ UNCHANGED <<set, literal>>

TextNext == Emit \/ MEMOSTEP \/ Break \/ Compare

TextSpec == TextInit /\ [][TextNext]_memotext

----------------------------------------------------------------------------
\* The library memoizes and compares exactly the objects that the analyzer wrote into the
\* literal, each of them once, and never reads past the end of the literal.
TextMeansSet ==
  /\ step = "done" => restored = Ascending(set.of)
  /\ step = "read" =>
       (IF set.kind = "locals" THEN cursor ELSE (cursor - 1) \div 8 + 1) \in DOMAIN literal
=============================================================================
