-------------------------------- MODULE Words --------------------------------
(***************************************************************************)
(* Machine words as sets of bits: a word is the set of the positions of    *)
(* its 1 bits.  `&', `|' and `^' are then operations on sets, and the      *)
(* arithmetic of the atomic instructions has a closed form.                *)
(***************************************************************************)
EXTENDS Integers

CONSTANT Width   \* 32 in the code

ASSUME WidthAssumption == Width \in Nat \ {0}

BitIndices == 0 .. Width - 1
Words == SUBSET BitIndices

Xor(a, b) == (a \ b) \cup (b \ a)

\* The carry into position k: one was made below and passed on since.
Carry(a, b, k) ==
  \E j \in 0 .. k - 1 : /\ j \in a \cap b
                        /\ \A i \in j + 1 .. k - 1 : i \in a \cup b

\* a + b, modulo 2^Width
Plus(a, b) == {k \in BitIndices : (k \in Xor(a, b)) # Carry(a, b, k)}

\* a < b as unsigned numbers: the highest bit in which they differ is b's.
Below(a, b) == \E k \in b \ a : \A j \in k + 1 .. Width - 1 : j \in a <=> j \in b

\* a < b as signed numbers.
SignedBelow(a, b) == Below(Xor(a, {Width - 1}), Xor(b, {Width - 1}))

AmoKinds == {"add", "swap", "xor", "or", "and", "min", "max", "minu", "maxu"}

\* What an atomic instruction writes over the old word.
Computed(kind, old, data) ==
  CASE kind = "add"  -> Plus(old, data)
    [] kind = "swap" -> data
    [] kind = "xor"  -> Xor(old, data)
    [] kind = "or"   -> old \cup data
    [] kind = "and"  -> old \cap data
    [] kind = "min"  -> IF SignedBelow(data, old) THEN data ELSE old
    [] kind = "max"  -> IF SignedBelow(data, old) THEN old ELSE data
    [] kind = "minu" -> IF Below(old, data) THEN old ELSE data
    [] kind = "maxu" -> IF Below(data, old) THEN old ELSE data
=============================================================================
